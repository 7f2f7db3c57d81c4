------------------------------ MODULE MCViews ------------------------------
(***************************************************************************)
(* Dashboard for TLC.  Captures differ in what the merge, the charts and   *)
(* the detectors tell apart: shared indicators, answers of two providers,  *)
(* a flow without times, one that is sampled, one whose samples are out of *)
(* order, a capture of an older version that counted no bytes, detections  *)
(* up to the limits, payloads of two rules, unreadable ones, rules that do *)
(* not compile, logs with a malware fingerprint twice.                     *)
(***************************************************************************)
EXTENDS Dashboard

MCAlphabet == <<"10.0.0.1", "10.0.0.2", "9.9.9.1", "9.9.9.2", "9.9.9.3", "tcp", "udp">>

Flow(src, dst, port, n, bytes, times) ==
  [src |-> src, dst |-> dst, dport |-> port, proto |-> "tcp", count |-> n, bytes |-> bytes, times |-> times,
   lens |-> [i \in DOMAIN times |-> 60 * i], regular |-> 80,
   first |-> IF times = <<>> THEN -1 ELSE Lowest({times[i] : i \in DOMAIN times}),
   last |-> IF times = <<>> THEN -1 ELSE Highest({times[i] : i \in DOMAIN times})]

MCResults == [dga |-> 3, tunneling |-> 2]

H1 == "10.0.0.1"
H2 == "10.0.0.2"
P1 == "9.9.9.1"
P2 == "9.9.9.2"
P3 == "9.9.9.3"

NoDns == [kind |-> "none"]
Dns(dga, tunnels) == [kind |-> "ran", found |-> [dga |-> dga, tunneling |-> tunnels]]
Hit(score) == [score |-> score, hit |-> TRUE]
Miss(score) == [score |-> score, hit |-> FALSE]

Ssl(ja3) == [ja3 |-> ja3, ja3s |-> "s"]
Bad == [stem |-> "bad", compiles |-> TRUE, finds |-> "x", tag |-> "malware"]
Odd == [stem |-> "odd", compiles |-> TRUE, finds |-> "y", tag |-> "suspicious"]
Broken == [stem |-> "bad", compiles |-> FALSE, finds |-> "x", tag |-> "malware"]
File(readable, signs) == [readable |-> readable, signs |-> signs]

Ip(n) == <<1, n>>
Domain(n) == <<2, n>>

Plain ==
  [name |-> "a", packets |-> 2, flows |-> <<Flow(H1, P1, 9000, 2, 200, <<70, 65>>)>>, indicators |-> {Ip(1)},
   osint |-> [x \in {Ip(1)} |-> [vt |-> "clean"]], report |-> "", ssl |-> <<>>, zeek |-> FALSE, dns |-> NoDns,
   carved |-> <<>>, rules |-> <<>>]

MCCaptures == {
  [Plain EXCEPT !.name = "c", !.packets = 14,
     !.flows = <<Flow(P1, H1, 9000, 4, 400, <<10, 20, 30, 40>>), Flow(H1, P2, 9001, 6, 100, <<130, 140, 150, 160>>),
                 Flow(H1, P3, 9002, 4, 50, <<15, 25, 35, 45>>)>>,
     !.indicators = {Ip(1), Ip(2), Domain(3)}, !.report = "R",
     !.osint = [x \in {Ip(1)} |-> [vt |-> "bad", shodan |-> "open"]]],
  [Plain EXCEPT !.name = "d", !.packets = 9,
     !.flows = <<Flow(H1, P3, 443, 5, 500, <<300, 301, 302, 303, 304>>), Flow(H1, H2, 53, 2, -1, <<>>),
                 Flow(P2, H2, 22, 2, 90, <<310, 330>>)>>,
     !.indicators = {Ip(2), Domain(3)}, !.osint = [x \in {Ip(2)} |-> [vt |-> "clean"]],
     !.dns = Dns(<<>>, <<>>), !.zeek = TRUE, !.ssl = <<Ssl("mal"), Ssl("fine"), Ssl("mal")>>],
  [Plain EXCEPT !.name = "e", !.packets = 20,
     !.flows = <<Flow(H1, P1, 9000, 5, 900, <<200, 201, 202, 203, 204>>), Flow(H1, P2, 443, 4, 90, <<210, 211, 212, 213>>),
                 Flow(H2, P3, 9000, 4, 90, <<220, 221, 222, 223>>)>>,
     !.indicators = {Domain(3)}, !.osint = <<>>, !.report = "S", !.zeek = TRUE, !.ssl = <<Ssl("fine"), Ssl("")>>,
     !.dns = Dns(<<Hit(90), Miss(20)>>, <<Hit(50)>>)],
  [Plain EXCEPT !.name = "f", !.flows = <<[Flow(H2, P2, 9000, 3, -1, <<90, 80, 95>>) EXCEPT !.first = -1, !.last = -1]>>,
     !.packets = 3, !.indicators = {Ip(1), Ip(2)}, !.osint = <<>>,
     !.dns = Dns(<<Hit(95), Hit(60), Miss(10)>>, <<Hit(70)>>),
     !.carved = <<File(TRUE, {"x", "y"}), File(TRUE, {"y"}), File(FALSE, {"x"})>>, !.rules = <<Bad, Odd>>],
  [Plain EXCEPT !.name = "g", !.dns = [kind |-> "error"], !.carved = <<File(TRUE, {"x"})>>, !.rules = <<Bad, Broken>>,
     !.flows = <<Flow(P1, P1, 9000, 1, 30, <<500>>), Flow(H1, H2, 9000, 1, 40, <<500>>)>>],
  [Plain EXCEPT !.name = "g", !.flows = <<>>, !.packets = 0, !.indicators = {}, !.osint = <<>>,
     !.carved = <<File(FALSE, {"x"}), File(TRUE, {})>>, !.rules = <<Broken, Bad>>,
     !.dns = Dns(<<Hit(40), Hit(30)>>, <<>>), !.report = "T", !.zeek = TRUE, !.ssl = <<Ssl("mal")>>]}
=============================================================================
