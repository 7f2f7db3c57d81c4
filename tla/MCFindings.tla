----------------------------- MODULE MCFindings -----------------------------
(***************************************************************************)
(* Findings for TLC.  Up to four trains of packets among two hosts and a   *)
(* public one: uploads and downloads of one to a hundred megabytes, a port *)
(* of C2 frameworks, short and long flows between high ports, packets out  *)
(* of order and without addresses; or up to three batches of DNS lines     *)
(* under a plain domain, one below two short labels and a whitelisted one; *)
(* or up to three steps of these, clues and beacons in any mixture.        *)
(***************************************************************************)
EXTENDS Findings

A == <<"a">>
B == <<"b">>
C == <<"c">>

Train(s, d, sp, dp, pr, n, l, ts, g) ==
  [src |-> s, dst |-> d, sport |-> sp, dport |-> dp, proto |-> pr, n |-> n, len |-> l, ts |-> ts, gap |-> g]
MCTrains == {
  Train(A, B, 20000, 443, "tls", 800, 1400, 1, 0), Train(B, A, 443, 20000, "tls", 800, 1400, 2, 0),
  Train(B, A, 443, 20000, "tls", 100, 1400, 3, 0), Train(A, B, 20000, 443, "tls", 80000, 1400, 4, 0),
  Train(A, B, 20000, 4444, "tcp", 1, 60, 5, 0), Train(A, C, 20000, 4444, "tcp", 1, 60, 5, 0),
  Train(A, B, 20000, 30000, "data", 3, 60, 6, 1), Train(A, B, 20001, 30000, "data", 30, 60, 2, 1),
  Train(A, C, 20000, 53, "tcp", 30, 60, 3, 0), Train(A, B, 20000, 80, "udp", 2, 42, 4, 0),
  Train(NoAddress, C, 0, 0, "arp", 2, 42, 4, 0)}

Label(len, ent, con, dig, low) == [len |-> len, entropy |-> ent, consonants |-> con, digits |-> dig, lower |-> low]
MCTraits ==
  [x1 |-> Label(31, 450, 100, 40, "x1"), X1 |-> Label(31, 450, 100, 40, "x1"), x2 |-> Label(31, 450, 100, 40, "x2"), long |-> Label(55, 450, 100, 40, "long"),
   w |-> Label(3, 150, 100, 0, "w"), evil |-> Label(4, 200, 50, 0, "evil"), com |-> Label(3, 150, 66, 0, "com"),
   co |-> Label(2, 100, 50, 0, "co"), uk |-> Label(2, 100, 50, 0, "uk"), cdn |-> Label(10, 300, 70, 0, "cdn"),
   autodiscover |-> Label(12, 300, 50, 0, "autodiscover")]

Batch(src, name, type, nx, n, ts, gap, ips, ttl) ==
  [src |-> src, name |-> name, type |-> type, nx |-> nx, n |-> n, ts |-> ts, gap |-> gap, ips |-> ips, ttl |-> ttl]
MCBatches == {
  Batch(A, <<"x1", "evil", "com">>, "TXT", FALSE, 3, 0, 1000, <<>>, 0),
  Batch(A, <<"x2", "evil", "com">>, "TXT", TRUE, 1, 500, 1000, <<>>, 0),
  Batch(B, <<"X1", "evil", "com">>, "A", TRUE, 1, 500, 1000, <<>>, 0),
  Batch(A, <<"x1", "evil", "co", "uk">>, "TXT", FALSE, 3, 0, 1000, <<>>, 0),
  Batch(A, <<"x2", "evil", "co", "uk">>, "TXT", FALSE, 3, 0, 1000, <<>>, 0),
  Batch(B, <<"evil", "com">>, "A", FALSE, 4, 0, 1000, <<"i1">>, 30),
  Batch(B, <<"evil", "com">>, "A", FALSE, 2, 0, 1000, <<"i2", "i1">>, 30),
  Batch(A, <<"long", "evil", "com">>, "TXT", FALSE, 1, 0, 1000, <<>>, 0),
  Batch(B, <<"x1", "cdn", "com">>, "A", TRUE, 2, 0, 1000, <<>>, 0),
  Batch(B, <<"w", "com">>, "A", FALSE, 600, 0, 10, <<>>, 0), Batch(C, <<"com">>, "A", TRUE, 1, 0, 10, <<>>, 0),
  Batch(B, <<"autodiscover", "x1", "com">>, "A", FALSE, 1, 0, 10, <<>>, 0)}

MCWhitelist == {<<"cdn", "com">>}
MCSteps     == <<1, 2, 3>>
(* One order of many                                                       *)
MCDomains ==
  <<<<"x1", "evil", "com">>, <<"x2", "evil", "com">>, <<"X1", "evil", "com">>, <<"evil", "com">>, <<"long", "evil", "com">>,
    <<"x1", "evil", "co", "uk">>, <<"x2", "evil", "co", "uk">>, <<"evil", "co", "uk">>, <<"x1", "cdn", "com">>, <<"cdn", "com">>,
    <<"w", "com">>, <<"com">>, <<"autodiscover", "x1", "com">>, <<"x1", "com">>>>
MCSetOrder(name) == CHOOSE i \in DOMAIN MCDomains : MCDomains[i] = name
MCPublic    == {B, C}

Clue(on, kind, amount) == [on |-> on, kind |-> kind, amount |-> amount]
MCClues == {
  Clue(B, "reputation", 30), Clue(B, "reputation", 80), Clue(B, "greynoise", 1), Clue(B, "abuse", 100), Clue(B, "vulns", 8),
  Clue(B, "ports", 30), Clue(B, "beacon", 60), Clue(B, "beacon", 80), Clue(<<"evil", "com">>, "engines", 60),
  Clue(<<>>, "yara_high", 1), Clue(<<>>, "yara_critical", 1)}
=============================================================================
