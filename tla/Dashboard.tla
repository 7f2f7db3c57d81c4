----------------------------- MODULE Dashboard -----------------------------
(***************************************************************************)
(* The dashboard of the React workbench (app/web/state.py): what one       *)
(* request for the state of the workbench tells of a saved analysis.       *)
(*                                                                         *)
(* Names are ordered as Alphabet lists them.  Sizes of the charts are      *)
(* constants, their values in the code in brackets.                        *)
(***************************************************************************)
EXTENDS BatchMerge

CONSTANTS
  Alphabet,        \* addresses and protocols, sorted
  Public,          \* public addresses
  Located,         \* those GeoIP knows
  MAX_EVENTS,      \* events of the replay (2000)
  EndpointLimit,   \* endpoints ranked (10)
  EdgeLimit,       \* edges of the Sankey chart (10)
  MapLimit,        \* addresses on the map (50)
  EvidenceLimit,   \* indicators listed (100)
  HeatBuckets,     \* cells of the heat map (48)
  SizeBuckets      \* bars of the packet sizes (8)

ASSUME DashboardAssumption ==
  /\ Located \subseteq Public
  /\ MAX_EVENTS \in Nat \ {0, 1}
  /\ {EndpointLimit, EdgeLimit, MapLimit, EvidenceLimit} \subseteq Nat
  /\ {HeatBuckets, SizeBuckets} \subseteq Nat \ {0}

NoName == ""

(* Every name of a capture has its place in the order.                     *)
ASSUME NamesAssumption ==
  /\ IsSequence(Alphabet)
  /\ \A c \in Captures : \A f \in Entries(c.flows) :
       {f.proto} \union ({f.src, f.dst} \ {NoName}) \subseteq Entries(Alphabet)

Place(name) == CHOOSE i \in DOMAIN Alphabet : Alphabet[i] = name
Greater(a, b) == IF a > b THEN a ELSE b

(* Ends of a flow that are an address                                      *)
Incident(f, ip) == (IF f.src = ip THEN 1 ELSE 0) + (IF f.dst = ip THEN 1 ELSE 0)

-----------------------------------------------------------------------------
(* Bytes of a flow: counted, or the lengths of its samples.                *)
Weight(f) == Greater(1, f.count)
Measured(f) == f.bytes # Missing \/ f.lens # <<>>
StatBytes(f) == IF f.bytes # Missing THEN f.bytes ELSE Total(f.lens)
FlowBytes(f) == IF Measured(f) THEN StatBytes(f) ELSE Weight(f)

Packets(flows) == [i \in DOMAIN flows |-> flows[i].count]

ByteCoverage(r) ==
  LET parsed == Total(Packets(r.flows))
  IN  IF ~\E f \in Entries(r.flows) : Measured(f) THEN "unknown"
      ELSE IF /\ \A f \in Entries(r.flows) : f.bytes # Missing
              /\ r.packets > 0 /\ parsed = r.packets THEN "complete"
      ELSE "partial"

CaptureSummary(r) ==
  [packets   |-> r.packets,
   parsed    |-> Total(Packets(r.flows)),
   bytes     |-> Total([i \in DOMAIN r.flows |-> StatBytes(r.flows[i])]),
   endpoints |-> Cardinality((UNION {{f.src, f.dst} : f \in Entries(r.flows)}) \ {NoName}),
   first     |-> r.metrics.first_seen,
   last      |-> r.metrics.last_seen,
   coverage  |-> ByteCoverage(r)]

ProtocolDistribution(flows) ==
  LET of(p)        == {i \in DOMAIN flows : flows[i].proto = p}
      bytes(p)     == Total([i \in DOMAIN flows |-> IF i \in of(p) THEN StatBytes(flows[i]) ELSE 0])
      packets(p)   == Total([i \in DOMAIN flows |-> IF i \in of(p) THEN flows[i].count ELSE 0])
      before(p, q) == bytes(p) > bytes(q) \/ (bytes(p) = bytes(q) /\ Place(p) < Place(q))
      rows         == Listing({f.proto : f \in Entries(flows)}, before)
  IN  [n \in DOMAIN rows |-> [name |-> rows[n], bytes |-> bytes(rows[n]), packets |-> packets(rows[n]),
                              flows |-> Cardinality(of(rows[n]))]]

(* Each flow is counted for both its ends.                                 *)
EndpointRanking(flows) ==
  LET ips     == (UNION {{f.src, f.dst} : f \in Entries(flows)}) \ {NoName}
      row(ip) ==
        [ip       |-> ip,
         bytes    |-> Total([i \in DOMAIN flows |-> Incident(flows[i], ip) * StatBytes(flows[i])]),
         packets  |-> Total([i \in DOMAIN flows |-> Incident(flows[i], ip) * flows[i].count]),
         sent     |-> Total([i \in DOMAIN flows |-> IF flows[i].src = ip THEN StatBytes(flows[i]) ELSE 0]),
         received |-> Total([i \in DOMAIN flows |-> IF flows[i].dst = ip THEN StatBytes(flows[i]) ELSE 0])]
      before(a, b) == \/ row(a).bytes > row(b).bytes
                      \/ row(a).bytes = row(b).bytes /\ Place(a) < Place(b)
      ranked == FirstOf(Listing(ips, before), EndpointLimit)
  IN  [i \in DOMAIN ranked |-> row(ranked[i])]

-----------------------------------------------------------------------------
(* The replay: sampled packets <<time, flow, position>> in time order.  Of *)
(* more than MAX_EVENTS each slice of the time keeps one, and the rest are *)
(* filled up evenly, then from the front.                                  *)
Sampled(flows) ==
  LET all == UNION {{<<flows[i].times[j], i, j>> : j \in DOMAIN flows[i].times} : i \in DOMAIN flows}
      before(a, b) == \/ a[1] < b[1]
                      \/ a[1] = b[1] /\ (a[2] < b[2] \/ (a[2] = b[2] /\ a[3] < b[3]))
  IN  Listing(all, before)

Representatives(slice) ==
  {IF slice[i] = 0 THEN Lowest({k \in DOMAIN slice : slice[k] = 0})
   ELSE Highest({k \in DOMAIN slice : slice[k] = slice[i]}) : i \in DOMAIN slice}

(* Positions are added one after the other until there are MAX_EVENTS.     *)
AddedTo(S, i) == IF Cardinality(S) >= MAX_EVENTS THEN S ELSE S \union {i}
Filled(S, at) ==
  LET upto[k \in 0..Len(at)] == IF k = 0 THEN S ELSE AddedTo(upto[k - 1], at[k])
  IN  upto[Len(at)]

Selected(events) ==
  LET n        == Len(events)
      span     == events[n][1] - events[1][1]
      slice    == [i \in 1..n |-> IF span = 0 THEN 0
                                 ELSE Lesser(MAX_EVENTS - 1,
                                             ((events[i][1] - events[1][1]) * MAX_EVENTS) \div span)]
      even     == [k \in 1..MAX_EVENTS |-> ((k - 1) * (n - 1)) \div (MAX_EVENTS - 1) + 1]
  IN  Filled(Filled(Representatives(slice), even), [k \in 1..n |-> k])

Represented(flows) == Total([i \in DOMAIN flows |-> IF flows[i].times = <<>> THEN 0 ELSE flows[i].count])

TrafficReplay(r) ==
  LET events == Sampled(r.flows)
      kept   == Selected(events)
      cut    == Len(events) > MAX_EVENTS
  IN  [events    |-> IF cut THEN Picked(events, kept) ELSE events,
       sampled   |-> Len(events),
       truncated |-> cut,
       coverage  |-> IF events = <<>> THEN "unavailable"
                     ELSE IF /\ ~cut /\ r.packets > 0
                             /\ Represented(r.flows) = Len(events) /\ Represented(r.flows) = r.packets
                     THEN "complete" ELSE "sampled"]

-----------------------------------------------------------------------------
Service(f) == <<f.dport, f.proto>>
Edge(f) == <<f.src, Service(f), f.dst>>

(* Counter.most_common(): ties in the order of first occurrence            *)
BusiestEdges(flows) ==
  LET total(e)     == Total([i \in DOMAIN flows |-> IF Edge(flows[i]) = e THEN Weight(flows[i]) ELSE 0])
      first(e)     == Lowest({i \in DOMAIN flows : Edge(flows[i]) = e})
      before(a, b) == total(a) > total(b) \/ (total(a) = total(b) /\ first(a) < first(b))
      top          == FirstOf(Listing({Edge(f) : f \in Entries(flows)}, before), EdgeLimit)
  IN  [n \in DOMAIN top |-> [ends |-> top[n], value |-> total(top[n])]]

Node(layer, name) == <<layer, name>>

Links(e) ==
  <<[source |-> Node("source", e.ends[1]), target |-> Node("service", e.ends[2]), value |-> e.value],
    [source |-> Node("service", e.ends[2]), target |-> Node("destination", e.ends[3]), value |-> e.value]>>

Sankey(flows) ==
  LET edges == BusiestEdges(Picked(flows, {i \in DOMAIN flows : flows[i].src # NoName /\ flows[i].dst # NoName}))
  IN  Joined([n \in DOMAIN edges |-> Links(edges[n])])

(* Time of day a flow is drawn at, its minute                              *)
TimeLabel(f) ==
  LET t == IF f.first > 0 THEN f.first ELSE IF f.times = <<>> THEN Missing ELSE f.times[1]
  IN  IF t = Missing THEN Missing ELSE (t \div 60) % 1440

TrafficRows(flows) ==
  [l \in {TimeLabel(f) : f \in Entries(flows)} \ {Missing} |-> CountIn(flows, LAMBDA f : TimeLabel(f) = l)]

Drawn(ranked) == FirstOf(Picked(ranked, {i \in DOMAIN ranked : ranked[i] \in Located}), MapLimit)

(* The map: packets of each public address, by protocol and time of day    *)
Slot(f) == <<f.proto, TimeLabel(f)>>

Slices(flows, ip) ==
  LET slots        == {Slot(f) : f \in {f \in Entries(flows) : ip \in {f.src, f.dst} /\ TimeLabel(f) # Missing}}
      before(s, t) == Place(s[1]) < Place(t[1]) \/ (s[1] = t[1] /\ s[2] < t[2])
      listed       == Listing(slots, before)
  IN  [n \in DOMAIN listed |->
         [slot    |-> listed[n],
          packets |-> Total([i \in DOMAIN flows |-> IF Slot(flows[i]) = listed[n]
                                                    THEN Incident(flows[i], ip) * Weight(flows[i]) ELSE 0])]]

MapFlows(flows, public) ==
  LET packets(ip)  == Total([i \in DOMAIN flows |-> Incident(flows[i], ip) * Weight(flows[i])])
      seen(ip)     == Lowest({i \in DOMAIN flows : ip \in {flows[i].src, flows[i].dst}})
      at(ip)       == 2 * seen(ip) + (IF flows[seen(ip)].src = ip THEN 0 ELSE 1)
      before(a, b) == packets(a) > packets(b) \/ (packets(a) = packets(b) /\ at(a) < at(b))
      ips          == (UNION {{f.src, f.dst} : f \in Entries(flows)}) \intersect public
      drawn        == Drawn(Listing(ips, before))
  IN  [n \in DOMAIN drawn |-> [ip |-> drawn[n], packets |-> packets(drawn[n]), slices |-> Slices(flows, drawn[n])]]

-----------------------------------------------------------------------------
Bar(value, low, high, buckets) == Lesser(buckets - 1, ((value - low) * buckets) \div (high - low))

Histogram(values, buckets) ==
  LET low == Lowest(Entries(values))  high == Highest(Entries(values))
  IN  IF values = <<>> THEN <<>>
      ELSE IF high <= low THEN <<Len(values)>>
      ELSE [b \in 1..buckets |-> CountIn(values, LAMBDA v : Bar(v, low, high, buckets) = b - 1)]

(* Mutant: the end of the time falls behind the last cell.                 *)
CellUnbounded(t, low, high) == ((t - low) * HeatBuckets) \div (high - low)

HeatCell(t, low, high) == Bar(t, low, high, HeatBuckets)

(* Cells of the heat map, from 0 to 5                                      *)
Heatmap(times) ==
  LET low   == Lowest(Entries(times))
      high  == Greater(low + 1, Highest(Entries(times)))
      in    == [b \in 1..HeatBuckets |-> CountIn(times, LAMBDA t : HeatCell(t, low, high) = b - 1)]
      peak  == Highest(Entries(in))
  IN  IF times = <<>> THEN <<>>
      ELSE [b \in 1..HeatBuckets |-> IF peak = 0 THEN 0 ELSE (in[b] * 5 + peak - 1) \div peak]

(* Indicators are saved by type and without a severity of their own, so    *)
(* each has the default, medium, and none is an alert.                     *)
Iocs(r) == Listing(r.indicators, LAMBDA x, y : x[1] < y[1] \/ (x[1] = y[1] /\ x[2] < y[2]))
IocSeverity == "medium"
Alerts(r) == IF IocSeverity \in {"high", "critical"} THEN Len(Iocs(r)) ELSE 0

IsBeacon(row) == row.score >= 6000

(* The risk of an analysis; no certificate is ever extracted.              *)
RiskLevel(r) ==
  IF Alerts(r) > 0 \/ YaraMatched(r.yara) > 0 THEN "HIGH"
  ELSE IF CountIn(r.beacons, IsBeacon) >= 3 THEN "MEDIUM"
  ELSE "LOW"

(* _dashboard_state()                                                      *)
DashboardState(r, public) ==
  [page      |-> "dashboard",
   risk      |-> RiskLevel(r),
   alerts    |-> Alerts(r),
   summary   |-> CaptureSummary(r),
   protocols |-> ProtocolDistribution(r.flows),
   endpoints |-> EndpointRanking(r.flows),
   replay    |-> TrafficReplay(r),
   sankey    |-> Sankey(r.flows),
   traffic   |-> TrafficRows(r.flows),
   map       |-> MapFlows(r.flows, public),
   evidence  |-> FirstOf(Iocs(r), EvidenceLimit),
   evidences |-> Len(Iocs(r)),
   sizes     |-> Histogram(Joined([i \in DOMAIN r.flows |-> r.flows[i].lens]), SizeBuckets),
   heatmap   |-> Heatmap(Joined([i \in DOMAIN r.flows |-> r.flows[i].times])),
   report    |-> r.report]

OpenDashboard(i) ==
  /\ opened' = <<i>>
  /\ view' = DashboardState(saved[i], Public)
  /\ UNCHANGED <<saved, swept>>

Next == BatchNext \/ \E i \in DOMAIN saved : OpenDashboard(i)

Spec == BatchInit /\ [][Next]_batchVars

-----------------------------------------------------------------------------
OnBoard == view.page = "dashboard"
Shown == saved[opened[1]]

(* The replay has distinct events in time order, as many as it may, and    *)
(* begins and ends with the first and the last sample of the capture       *)
(* (state.py:254-286).                                                     *)
ReplayKeepsEnds ==
  OnBoard =>
    LET ev  == view.replay.events
        all == Sampled(Shown.flows)
    IN  /\ Len(ev) = Lesser(MAX_EVENTS, Len(all)) /\ Cardinality(Entries(ev)) = Len(ev)
        /\ \A i, j \in DOMAIN ev : i < j => ev[i][1] <= ev[j][1]
        /\ all # <<>> => ev[1] = all[1] /\ ev[Len(ev)] = all[Len(all)]

(* "Coverage labels distinguish parsed flow totals from the original       *)
(* capture and the replay sample" (README.md:75): what is called complete  *)
(* has every packet of the capture (state.py:149-154, 311-317).            *)
CompleteMeansAll ==
  OnBoard =>
    LET counted == Total([n \in DOMAIN view.protocols |-> view.protocols[n].packets])
        bytes   == Total([n \in DOMAIN view.protocols |-> view.protocols[n].bytes])
    IN  /\ view.summary.coverage = "complete" =>
             /\ counted = Shown.packets /\ bytes = view.summary.bytes
             /\ \A f \in Entries(Shown.flows) : f.bytes # Missing
        /\ view.replay.coverage = "complete" => Len(view.replay.events) = Shown.packets

(* What flows into a service of the Sankey chart flows out of it, though   *)
(* the edges of a service are drawn one by one (state.py:476-488).         *)
SankeyBalanced ==
  OnBoard =>
    LET into(n) == Total([i \in DOMAIN view.sankey |-> IF view.sankey[i].target = n THEN view.sankey[i].value ELSE 0])
        out(n)  == Total([i \in DOMAIN view.sankey |-> IF view.sankey[i].source = n THEN view.sankey[i].value ELSE 0])
    IN  \A l \in Entries(view.sankey) : l.target[1] = "service" => into(l.target) = out(l.target)

(* No located public address that is left off the map is in more packets   *)
(* than one on it, and the slices the map filters by hold all of an        *)
(* address's packets whose flow has a time (state.py:523-581).             *)
BusiestOnMap ==
  OnBoard =>
    LET drawn    == {row.ip : row \in Entries(view.map)}
        busy(ip) == Total([i \in DOMAIN Shown.flows |-> Incident(Shown.flows[i], ip) * Weight(Shown.flows[i])])
        seen     == UNION {{f.src, f.dst} : f \in Entries(Shown.flows)}
    IN  /\ \A a \in drawn, b \in (seen \intersect Located) \ drawn : busy(a) >= busy(b)
        /\ Cardinality(drawn) = Lesser(MapLimit, Cardinality(seen \intersect Located))
        /\ \A row \in Entries(view.map) :
             (\A f \in Entries(Shown.flows) : TimeLabel(f) # Missing) =>
               Total([n \in DOMAIN row.slices |-> row.slices[n].packets]) = row.packets

(* Times a cell of the heat map stands for: the cells part what lies       *)
(* between the first and the last of all times evenly, and the last cell   *)
(* has its end as well.                                                    *)
TimesOfCell(all, b) ==
  LET low  == Lowest(all)
      span == Greater(1, Highest(all) - low)
  IN  {t \in all : /\ (b - 1) * span <= (t - low) * HeatBuckets
                   /\ b < HeatBuckets => (t - low) * HeatBuckets < b * span}

SamplesAt(flows, T) ==
  Total([i \in DOMAIN flows |-> Cardinality({j \in DOMAIN flows[i].times : flows[i].times[j] \in T})])

(* Every sampled length is in one bar of the sizes and every sampled time  *)
(* in one cell of the heat map, and a cell is as warm as the samples of    *)
(* its own times are many: of five parts of the busiest cell's, rounded up *)
(* (state.py:699-710, 797-812).                                            *)
ChartsCountAll ==
  OnBoard =>
    LET all     == UNION {Entries(f.times) : f \in Entries(Shown.flows)}
        cells   == DOMAIN view.heatmap
        heat(b) == SamplesAt(Shown.flows, TimesOfCell(all, b))
    IN  /\ Total(view.sizes) = Total([i \in DOMAIN Shown.flows |-> Len(Shown.flows[i].lens)])
        /\ Total([b \in cells |-> heat(b)]) = Total([i \in DOMAIN Shown.flows |-> Len(Shown.flows[i].times)])
        /\ all # {} =>
             \E p \in cells : \A b \in cells :
               /\ heat(b) <= heat(p)
               /\ (view.heatmap[b] - 1) * heat(p) < 5 * heat(b)
               /\ 5 * heat(b) <= view.heatmap[b] * heat(p)

(* A high risk has a payload that a rule matched; a medium one has three   *)
(* flows as regular as a beacon, none of them to a service or host that is *)
(* known to be regular (state.py:787-795, beacon.py:195-228).              *)
RiskHasReason ==
  OnBoard =>
    /\ view.risk = "HIGH" <=>
         \E i \in DOMAIN Shown.carved : /\ Shown.carved[i].readable
                                       /\ \E r \in Shown.rules : r.finds \in Shown.carved[i].signs
    /\ view.risk = "MEDIUM" =>
         LET regular == {i \in DOMAIN Shown.flows :
                           /\ Shown.flows[i].regular >= 60 /\ Len(Shown.flows[i].times) >= 4
                           /\ Shown.flows[i].dport \notin DOMAIN BENIGN_SERVICE_PORTS
                           /\ {Shown.flows[i].src, Shown.flows[i].dst} \intersect INFRA_ALLOWLIST = {}}
         IN  Cardinality(regular) >= 3

(* The views of the dashboard agree with the flows they are made of, cut   *)
(* and binned as they are (web/state.py).                                  *)
DashboardHonest ==
  /\ ReplayKeepsEnds /\ CompleteMeansAll /\ SankeyBalanced
  /\ BusiestOnMap /\ ChartsCountAll /\ RiskHasReason
=============================================================================
