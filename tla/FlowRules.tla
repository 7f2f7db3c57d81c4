----------------------------- MODULE FlowRules -----------------------------
(***************************************************************************)
(* The flow table that parse_pcap_pyshark() builds from tshark's lines     *)
(* (app/pipeline/pyshark_pass.py) and what is concluded from it: uploads   *)
(* and odd ports (analysis/flow_analysis.py) and the window and the totals *)
(* of the capture (analysis/visibility.py).                                *)
(*                                                                         *)
(* tshark's lines come in trains of like packets.  Scores are hundredths.  *)
(***************************************************************************)
EXTENDS Integers, Sequences, FiniteSets, Functions, FiniteSetsExt

CONSTANTS
  Trains,            \* trains of packets a capture may hold
  MaxTrains,         \* bound on their number
  MAX_FLOW_SAMPLES,  \* packets of a flow whose time and length are kept (5000)
  MaxPortReports,    \* port reports kept (50)
  C2_COMMON_PORTS    \* ports C2 frameworks like

NoAddress == <<>>   \* addresses are sequences, as names are

ASSUME FlowAssumption ==
  /\ \A t \in Trains : /\ t.n \in Nat \ {0} /\ {t.len, t.ts, t.gap} \subseteq Nat
                       /\ {t.sport, t.dport} \subseteq Nat
  /\ {MaxTrains, MAX_FLOW_SAMPLES, MaxPortReports} \subseteq Nat \ {0}
  /\ C2_COMMON_PORTS \subseteq Nat \ {0}

VARIABLES
  wire,   \* the trains read so far
  flows   \* features["flows"]

flowVars == <<wire, flows>>

FlowInit == wire = <<>> /\ flows = <<>>

-----------------------------------------------------------------------------
Key(x) == <<x.src, x.dst, x.sport, x.dport, x.proto>>
EndOf(t) == t.ts + (t.n - 1) * t.gap
Smaller(a, b) == IF a < b THEN a ELSE b
Larger(a, b) == IF a < b THEN b ELSE a

NewFlow(t) == [src |-> t.src, dst |-> t.dst, sport |-> t.sport, dport |-> t.dport, proto |-> t.proto,
               count |-> 0, bytes |-> 0, samples |-> 0, sampled |-> 0, first |-> t.ts, last |-> t.ts]

(* Mutant: totals only of the sampled packets.                             *)
AddedSampled(f, t) ==
  LET kept == Smaller(t.n, MAX_FLOW_SAMPLES - f.samples)
  IN  [f EXCEPT !.count = @ + kept, !.bytes = @ + kept * t.len, !.last = EndOf(t),
                !.samples = @ + kept, !.sampled = @ + kept * t.len]

(* The totals of a flow go on beyond the samples kept of it.               *)
Added(f, t) ==
  LET kept == Smaller(t.n, MAX_FLOW_SAMPLES - f.samples)
  IN  [f EXCEPT !.count = @ + t.n, !.bytes = @ + t.n * t.len, !.last = EndOf(t),
                !.samples = @ + kept, !.sampled = @ + kept * t.len]

HasAddresses(t) == NoAddress \notin {t.src, t.dst}

(* flow_index: where the flow of a packet is, if there is one              *)
Index(t) == {i \in DOMAIN flows : Key(flows[i]) = Key(t)}

(* A line without addresses is read and counts for nothing.                *)
ReadTrain(t) ==
  /\ Len(wire) < MaxTrains
  /\ wire' = Append(wire, t)
  /\ flows' = IF ~HasAddresses(t) THEN flows
              ELSE IF Index(t) = {} THEN Append(flows, Added(NewFlow(t), t))
              ELSE [i \in DOMAIN flows |-> IF i \in Index(t) THEN Added(flows[i], t) ELSE flows[i]]

FlowNext == \E t \in Trains : ReadTrain(t)

-----------------------------------------------------------------------------
(* detect_flow_asymmetry()                                                 *)
ASYMMETRY_MIN_BYTES == 1000000

Volume(f) == IF f.bytes # 0 THEN f.bytes ELSE IF f.samples > 0 THEN f.sampled ELSE f.count * 800

FromTo(fs, a, b) == {i \in DOMAIN fs : fs[i].src = a /\ fs[i].dst = b}
OutBytes(fs, a, b) == SumFunction([i \in FromTo(fs, a, b) |-> Volume(fs[i])])

(* pair_stats is a dict in which each flow puts its pair and then the      *)
(* reverse one: of a pair only the direction that came first is examined.  *)
Checked(fs) ==
  {<<fs[i].src, fs[i].dst>> :
     i \in {k \in DOMAIN fs : \A j \in 1..(k - 1) : {fs[j].src, fs[j].dst} # {fs[k].src, fs[k].dst}}}

RatioScore(out, in) ==
  LET reaches(ratio) == out \div ratio >= Larger(in, 1)
  IN  IF reaches(100) THEN 50 ELSE IF reaches(10) THEN 30 ELSE IF reaches(5) THEN 15 ELSE 0

VolumeScore(out) == IF out > 100000000 THEN 30 ELSE IF out > 10000000 THEN 15 ELSE 0

Asymmetry(fs, p) ==
  LET out == OutBytes(fs, p[1], p[2])
      in  == OutBytes(fs, p[2], p[1])
  IN  [src |-> p[1], dst |-> p[2],
       score |-> IF out >= ASYMMETRY_MIN_BYTES /\ RatioScore(out, in) > 0
                 THEN RatioScore(out, in) + VolumeScore(out) ELSE 0]

Uploads(fs) == {r \in {Asymmetry(fs, p) : p \in Checked(fs)} : r.score > 0}

-----------------------------------------------------------------------------
(* detect_port_anomalies()                                                 *)
PortKey(f) == <<f.dst, f.src, f.dport>>

PortScore(f) ==
  IF f.dport \in C2_COMMON_PORTS THEN 70
  ELSE IF f.sport > 10000 /\ f.dport > 10000 THEN IF f.count > 10 THEN 40 ELSE 0
  ELSE IF f.dport = 53 /\ f.proto = "tcp" THEN IF f.count > 20 THEN 50 ELSE 0
  ELSE IF f.dport = 80 /\ f.proto = "udp" THEN 50
  ELSE 0

(* A key is seen once its first flow is, reported or not.                  *)
FirstOfKey(fs) == {i \in DOMAIN fs : fs[i].dport # 0 /\ \A j \in 1..(i - 1) : PortKey(fs[j]) # PortKey(fs[i])}

PortReports(fs) ==
  {[at |-> i, key |-> PortKey(fs[i]), score |-> PortScore(fs[i])] : i \in {k \in FirstOfKey(fs) : PortScore(fs[k]) > 0}}

(* By falling score, those alike in their order; the list is cut.          *)
Ahead(reports, r) == {q \in reports : q.score > r.score \/ (q.score = r.score /\ q.at < r.at)}
PortAnomalies(fs) == {r \in PortReports(fs) : Cardinality(Ahead(PortReports(fs), r)) < MaxPortReports}

-----------------------------------------------------------------------------
(* build_capture_metrics()                                                 *)
Window(fs) ==
  IF fs = <<>> THEN [first |-> 0, last |-> 0]
  ELSE [first |-> Min({fs[i].first : i \in DOMAIN fs}), last |-> Max({fs[i].last : i \in DOMAIN fs})]

Parsed(fs) == SumFunction([i \in DOMAIN fs |-> fs[i].count])

-----------------------------------------------------------------------------
(* The packets of the wire, by the place of their train                    *)
Addressed   == {k \in DOMAIN wire : HasAddresses(wire[k])}
Packets(ks) == SumFunction([k \in ks |-> wire[k].n])
Bytes(ks)   == SumFunction([k \in ks |-> wire[k].n * wire[k].len])
Sent(a, b)  == Bytes({k \in Addressed : wire[k].src = a /\ wire[k].dst = b})

FlowRecord ==
  [src : {t.src : t \in Trains}, dst : {t.dst : t \in Trains}, sport : Nat, dport : Nat,
   proto : {t.proto : t \in Trains}, count : Nat, bytes : Nat, samples : 0..MAX_FLOW_SAMPLES, sampled : Nat,
   first : Nat, last : Nat]

FlowTypeOK ==
  /\ wire \in Seq(Trains) /\ Len(wire) <= MaxTrains
  /\ flows \in Seq(FlowRecord)

(* One flow for each conversation, and its totals are those of the wire    *)
(* whatever the order of the packets and whether or not its samples are    *)
(* capped: the first half of what visibility.py says of capped flows,      *)
(* "flow totals and first/last timestamps remain authoritative".           *)
FlowTotalsExact ==
  /\ {Key(flows[i]) : i \in DOMAIN flows} = {Key(wire[k]) : k \in Addressed}
  /\ \A i, j \in DOMAIN flows : Key(flows[i]) = Key(flows[j]) => i = j
  /\ \A i \in DOMAIN flows :
       LET own == {k \in Addressed : Key(wire[k]) = Key(flows[i])}
       IN  flows[i].count = Packets(own) /\ flows[i].bytes = Bytes(own)
  /\ Parsed(flows) = Packets(Addressed)

(* The second half.  A flow lasts from its earliest packet to its latest.  *)
(* The code puts down the time of the line read last, so that of a capture *)
(* out of order this is false.                                             *)
FlowTimesExact ==
  \A i \in DOMAIN flows :
    LET own == {k \in Addressed : Key(wire[k]) = Key(flows[i])}
    IN  flows[i].first = Min({wire[k].ts : k \in own}) /\ flows[i].last = Max({EndOf(wire[k]) : k \in own})

(* A pair is reported once at most, and exactly for what the host that     *)
(* spoke first sent: a megabyte or more, at five times what it got.  What  *)
(* the other host sent is weighed for no report, however much it was.      *)
UploadsExact ==
  {<<r.src, r.dst>> : r \in Uploads(flows)} =
  {p \in {<<wire[k].src, wire[k].dst>> : k \in Addressed} :
     /\ \E k \in Addressed : /\ <<wire[k].src, wire[k].dst>> = p
                             /\ \A m \in Addressed : m < k => {wire[m].src, wire[m].dst} # {p[1], p[2]}
     /\ Sent(p[1], p[2]) >= ASYMMETRY_MIN_BYTES
     /\ Sent(p[1], p[2]) >= 5 * Larger(Sent(p[2], p[1]), 1)}

(* Whatever else is in the capture and in which order, and however short   *)
(* the list is cut, hosts that use a C2 port head the list of odd ports.   *)
C2PortsListed ==
  LET c2 == {PortKey(flows[i]) : i \in {k \in DOMAIN flows : flows[k].dport \in C2_COMMON_PORTS}}
  IN  Cardinality({r.key : r \in {q \in PortAnomalies(flows) : q.score = 70}})
        = Smaller(Cardinality(c2), MaxPortReports)

(* A busy flow between high ports stays out of the reports only behind an  *)
(* earlier flow of the same two hosts and port, which used up their turn   *)
(* though it was not a busy one between high ports itself.                 *)
Busy(f) == f.sport > 10000 /\ f.dport > 10000 /\ f.count > 10
BusyFlowsReported ==
  \A i \in DOMAIN flows :
    Busy(flows[i]) =>
      \/ PortKey(flows[i]) \in {r.key : r \in PortReports(flows)}
      \/ \E j \in 1..(i - 1) : PortKey(flows[j]) = PortKey(flows[i]) /\ ~Busy(flows[j])

(* The window of the metrics is that of the packets if they were captured  *)
(* in order.  Else it may be too narrow, as FlowTimesExact is false, but   *)
(* never too wide.                                                         *)
WindowHonest ==
  Addressed # {} =>
    LET starts  == {wire[k].ts : k \in Addressed}
        ends    == {EndOf(wire[k]) : k \in Addressed}
        ordered == \A k, m \in Addressed : k < m => EndOf(wire[k]) <= wire[m].ts
        w       == Window(flows)
    IN  /\ w.first >= Min(starts) /\ w.last <= Max(ends)
        /\ ordered => w.first = Min(starts) /\ w.last = Max(ends)

(* Flows and what is reported of them are those of the wire, in whatever   *)
(* order its packets came and however samples and lists are capped         *)
(* (pyshark_pass.py, flow_analysis.py).                                    *)
FlowsExact == FlowTotalsExact /\ UploadsExact /\ C2PortsListed /\ BusyFlowsReported /\ WindowHonest

=============================================================================
