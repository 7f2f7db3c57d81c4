------------------------------ MODULE DnsRules ------------------------------
(***************************************************************************)
(* What app/pipeline/dns_analysis.py concludes from the DNS log of Zeek:   *)
(* names that look generated, tunnels under a domain, domains in fast      *)
(* flux, sources of failing queries.                                       *)
(*                                                                         *)
(* A name is a sequence of labels; what the detectors measure of a label   *)
(* is given by Traits.  Log lines come in batches of like ones.  Scores    *)
(* and ratios are hundredths, times milliseconds.                          *)
(***************************************************************************)
EXTENDS Integers, Sequences, FiniteSets, Functions, FiniteSetsExt

CONSTANTS
  Traits,      \* of each label: length, entropy, consonants, digits, lower-case form
  Whitelist,   \* ENTROPY_WHITELIST_TLDS
  Benign,      \* labels that begin a BENIGN_PATTERNS name
  Batches,     \* batches of lines a log may hold
  MaxBatches,  \* bound on their number
  TUNNELING_MIN_SUBDOMAINS, \* (5)
  SubdomainSteps, \* unique subdomains that score 10, 20, 30 (20, 50, 100)
  AddressSteps,   \* unique addresses that score 10, 20, 30 (3, 5, 10)
  FAST_FLUX_TOP_DOMAINS, \* (50)
  MAX_DGA_RESULTS,       \* (50)
  MAX_TUNNELING_RESULTS, \* (20)
  MaxSources,            \* sources of failing queries listed (20)
  SetOrder(_)            \* where the set of its names, which has an order of its own, puts a name

ASSUME DnsAssumption ==
  /\ \A l \in DOMAIN Traits : {Traits[l].len, Traits[l].entropy, Traits[l].consonants, Traits[l].digits} \subseteq Nat
  /\ \A b \in Batches : /\ b.n \in Nat \ {0} /\ b.name \in Seq(DOMAIN Traits) /\ b.name # <<>>
                        /\ b.nx \in BOOLEAN /\ b.ips \in Seq(Range(b.ips)) /\ {b.ts, b.gap, b.ttl} \subseteq Nat
  /\ {MaxBatches, TUNNELING_MIN_SUBDOMAINS, FAST_FLUX_TOP_DOMAINS} \subseteq Nat
  /\ {MAX_DGA_RESULTS, MAX_TUNNELING_RESULTS, MaxSources} \subseteq Nat
  /\ \A steps \in {SubdomainSteps, AddressSteps} :
       /\ {steps[1], steps[2], steps[3]} \subseteq Nat \ {0} /\ steps[1] < steps[2] /\ steps[2] < steps[3]

VARIABLES log   \* the batches read by parse_dns_log()

dnsVars == <<log>>

DnsInit == log = <<>>

ReadBatch(b) == Len(log) < MaxBatches /\ log' = Append(log, b)

DnsNext == \E b \in Batches : ReadBatch(b)

-----------------------------------------------------------------------------
(* The lines of the batches at some places of the log                      *)
Total(bs, ks) == SumFunction([k \in ks |-> bs[k].n])

Step(x, steps) == IF x > steps[3] THEN 30 ELSE IF x > steps[2] THEN 20 ELSE IF x > steps[1] THEN 10 ELSE 0
Folded(name)  == [i \in DOMAIN name |-> Traits[name[i]].lower]
Tail2(name)   == SubSeq(name, Len(name) - 1, Len(name))
Width(name)   == SumFunction([i \in DOMAIN name |-> Traits[name[i]].len]) + Len(name) - 1  \* with its dots

(* extract_domain_parts(): two short labels at the end count as one TLD.   *)
ShortTail(name) == Len(name) > 2 /\ \A i \in 0..1 : Traits[name[Len(name) - i]].len <= 3
BaseLength(name) == IF ShortTail(name) THEN 3 ELSE 2
Base(name) == Folded(SubSeq(name, Len(name) - BaseLength(name) + 1, Len(name)))
Analysed(name) ==
  IF Len(name) < 2 THEN name[1]
  ELSE IF Len(name) > BaseLength(name) THEN name[Len(name) - BaseLength(name)]
  ELSE name[1]

IsWhitelisted(name) ==
  \/ Traits[name[1]].lower \in Benign /\ Len(name) > 1
  \/ \E w \in Whitelist : Len(w) <= Len(name) /\ SubSeq(Folded(name), Len(name) - Len(w) + 1, Len(name)) = w

(* detect_dga()                                                            *)
DgaParts(name) ==
  LET t == Traits[Analysed(name)]
  IN  [entropy    |-> IF t.entropy > 400 THEN 30 ELSE IF t.entropy > 350 THEN 15 ELSE 0,
       consonants |-> IF t.consonants > 75 THEN 20 ELSE IF t.consonants < 35 /\ t.len > 8 THEN 10 ELSE 0,
       digits     |-> IF t.digits > 30 THEN 25 ELSE IF t.digits > 15 THEN 10 ELSE 0,
       length     |-> IF t.len > 15 THEN 15 ELSE IF t.len > 12 THEN 5 ELSE 0,
       vowels     |-> IF t.consonants = 100 /\ t.len > 5 THEN 15 ELSE 0]

DgaSum(p) == p.entropy + p.consonants + p.digits + p.length + p.vowels

(* The terms are added as floats, which tells two sums from their values:  *)
(* .2 + .1 exceeds .3, and .15 + .2 + .1 + .05 falls short of .5.          *)
ExceedsListing(p) == DgaSum(p) > 30 \/ (p.consonants = 20 /\ p.digits = 10 /\ DgaSum(p) = 30)
ReachesHalf(p)    == DgaSum(p) >= 50 /\ ~(p.entropy = 15 /\ p.consonants = 20 /\ p.digits = 10 /\ p.length = 5 /\ p.vowels = 0)

(* A whitelisted name keeps three tenths of its score.                     *)
Dga(name) == [listed    |-> IF IsWhitelisted(name) THEN 3 * DgaSum(DgaParts(name)) > 300 ELSE ExceedsListing(DgaParts(name)),
              confirmed |-> IF IsWhitelisted(name) THEN 3 * DgaSum(DgaParts(name)) >= 500 ELSE ReachesHalf(DgaParts(name))]

(* What is reported: the best of the results, those of a score in the      *)
(* order in which their names were met.                                    *)
Before(results, r) ==
  {q \in results \ {r} : q.score > r.score \/ (q.score = r.score /\ SetOrder(q.domain) < SetOrder(r.domain))}
Best(results, max) == {r \in results : Cardinality(Before(results, r)) < max}

Queried(bs) == {bs[k].name : k \in DOMAIN bs}
DgaScore(name) ==
  LET sum == DgaSum(DgaParts(name))
  IN  IF IsWhitelisted(name) THEN 3 * sum ELSE IF sum > 100 THEN 1000 ELSE 10 * sum
DgaDetections(bs) == Best({[domain |-> x, score |-> DgaScore(x)] : x \in {y \in Queried(bs) : Dga(y).listed}}, MAX_DGA_RESULTS)

-----------------------------------------------------------------------------
(* domain_records_index: lines by the last two labels of their name        *)
Indexed(bs, base) == {k \in DOMAIN bs : Len(bs[k].name) >= 2 /\ Folded(Tail2(bs[k].name)) = base}

Subdomain(name, base) == SubSeq(name, 1, Len(name) - Len(base))

(* detect_tunneling() of the lines it is given                             *)
TunnelScore(bs, at, base) ==
  LET below   == {k \in at : Len(bs[k].name) > Len(base)}
      unique  == {Folded(Subdomain(bs[k].name, base)) : k \in below}
      lines   == Total(bs, at)
      txt     == Total(bs, {k \in at : bs[k].type = "TXT"})
      chars   == SumFunction([k \in below |-> bs[k].n * Width(Subdomain(bs[k].name, base))])
      average(w) == chars > w * Total(bs, below)
  IN  IF at = {} THEN 0
      ELSE Step(Cardinality(unique), SubdomainSteps)
           + (IF average(30) THEN 25 ELSE IF average(20) THEN 15 ELSE 0)
           + (IF \E k \in below : Width(Subdomain(bs[k].name, base)) > 50 THEN 15 ELSE 0)
           + (IF 2 * txt > lines THEN 20 ELSE IF 5 * txt > lines THEN 10 ELSE 0)
           + (IF lines > 500 THEN 10 ELSE 0)

Based(bs)           == {k \in DOMAIN bs : Len(bs[k].name) >= 2}
Bases(bs)           == {Base(bs[k].name) : k \in Based(bs)}
NamesUnder(bs, base) == {bs[k].name : k \in {m \in Based(bs) : Base(bs[m].name) = base}}

(* No two names, or domains, have one place in the order of their set.     *)
ASSUME OrderAssumption ==
  LET domains == {b.name : b \in Batches} \cup {Base(b.name) : b \in {c \in Batches : Len(c.name) >= 2}}
  IN  \A x, y \in domains : SetOrder(x) \in Nat /\ (SetOrder(x) = SetOrder(y) => x = y)

Tunnels(bs) == {[domain |-> x, score |-> TunnelScore(bs, Indexed(bs, x), x)] :
                  x \in {y \in Bases(bs) : Cardinality(NamesUnder(bs, y)) > TUNNELING_MIN_SUBDOMAINS
                                           /\ TunnelScore(bs, Indexed(bs, y), y) > 20}}

TunnelDetections(bs) == Best(Tunnels(bs), MAX_TUNNELING_RESULTS)

-----------------------------------------------------------------------------

(* detect_fast_flux(): ip_changes counts the answers that differ from the  *)
(* one before, in the addresses of a line, from line to line of a batch    *)
(* and from a batch to the next one.                                       *)
Turns(ips)    == Cardinality({i \in 2..Len(ips) : ips[i] # ips[i - 1]})
Turn(ips, to) == IF ips[Len(ips)] # to[1] THEN 1 ELSE 0

Changes(bs, own) ==
  SumFunction([k \in own |-> bs[k].n * Turns(bs[k].ips) + (bs[k].n - 1) * Turn(bs[k].ips, bs[k].ips)])
  + Cardinality({k \in own : \E j \in own : /\ j < k /\ \A m \in own : m < k => m <= j
                                            /\ Turn(bs[j].ips, bs[k].ips) = 1})

EndOfBatch(b) == b.ts + (b.n - 1) * b.gap

AnswersTo(bs, name) ==
  {k \in DOMAIN bs : Len(name) >= 2 /\ Folded(bs[k].name) = Folded(name) /\ bs[k].ips # <<>>}

FluxScore(bs, name) ==
  LET own    == AnswersTo(bs, name)
      ttl    == IF own = {} THEN 0 ELSE Min({bs[k].ttl : k \in own})
      window == IF own = {} THEN 0 ELSE Max({EndOfBatch(bs[k]) : k \in own}) - Min({bs[k].ts : k \in own})
  IN  Step(Cardinality(UNION {Range(bs[k].ips) : k \in own}), AddressSteps)
      + (IF ttl > 0 /\ ttl < 60 THEN 25 ELSE IF ttl > 0 /\ ttl < 300 THEN 10 ELSE 0)
      + (IF window = 0 THEN 0
         ELSE IF Changes(bs, own) * 60000 > 2 * window THEN 25
         ELSE IF Changes(bs, own) * 120000 > window THEN 10 ELSE 0)

(* Counter.most_common(): by count, then by first appearance               *)
Asking(bs, name) == {k \in DOMAIN bs : bs[k].name = name}
Oftener(bs, x, y) ==
  \/ Total(bs, Asking(bs, y)) > Total(bs, Asking(bs, x))
  \/ Total(bs, Asking(bs, y)) = Total(bs, Asking(bs, x)) /\ Min(Asking(bs, y)) < Min(Asking(bs, x))
TopDomains(bs) ==
  {x \in Queried(bs) : Cardinality({y \in Queried(bs) : Oftener(bs, x, y)}) < FAST_FLUX_TOP_DOMAINS}

FastFlux(bs) == {[name |-> x, score |-> FluxScore(bs, x)] : x \in {y \in TopDomains(bs) : FluxScore(bs, y) > 20}}

-----------------------------------------------------------------------------
(* analyze_nxdomain()                                                      *)
Failed(bs, ks)   == {k \in ks : bs[k].nx}
From(bs, src)    == {k \in DOMAIN bs : bs[k].src = src}
Sources(bs)      == {bs[k].src : k \in Failed(bs, DOMAIN bs)}
ManyFail(bs, ks) == 10 * Total(bs, Failed(bs, ks)) > 3 * Total(bs, ks)
Failures(bs, s)  == Failed(bs, From(bs, s))

(* More than a tenth of the queries of a source fail: it is listed, by the *)
(* number that failed and then the first that did, if the list has room.   *)
Failing(bs) == {s \in Sources(bs) : 10 * Total(bs, Failures(bs, s)) > Total(bs, From(bs, s))}
FailOftener(bs, s) ==
  {q \in Failing(bs) \ {s} :
     \/ Total(bs, Failures(bs, q)) > Total(bs, Failures(bs, s))
     \/ Total(bs, Failures(bs, q)) = Total(bs, Failures(bs, s)) /\ Min(Failures(bs, q)) < Min(Failures(bs, s))}
Listed(bs) == {s \in Failing(bs) : Cardinality(FailOftener(bs, s)) < MaxSources}

(* Mutant: a source is measured against the whole log.                     *)
BlamedOfAll(bs) == {s \in Listed(bs) : 10 * Total(bs, Failures(bs, s)) > 3 * Total(bs, DOMAIN bs)}

Blamed(bs) == {s \in Listed(bs) : ManyFail(bs, From(bs, s))}

-----------------------------------------------------------------------------
(* A name under a whitelisted domain, or of a known mail or certificate    *)
(* record, is never called generated, whatever its labels look like.       *)
WhitelistSpares == \A k \in DOMAIN log : IsWhitelisted(log[k].name) => ~Dga(log[k].name).confirmed

(* If the queries of the log fail too often, those of a source that is     *)
(* listed do: the verdict on the whole never comes without somebody to     *)
(* look at, unless there are too many to list.                             *)
NxdomainBlamed ==
  ManyFail(log, DOMAIN log) => Blamed(log) # {} \/ Cardinality(Failing(log)) > MaxSources

(* No domain that always answers with the same address is said to be in    *)
(* fast flux, low as its TTL may be and often as it is asked for.          *)
FluxNeedsTwoAddresses ==
  \A f \in FastFlux(log) :
    f.score >= 50 =>
      Cardinality(UNION {Range(log[k].ips) : k \in {m \in DOMAIN log : Folded(log[m].name) = Folded(f.name)}}) > 1

(* A domain is said to hide a tunnel only if many of its names were asked  *)
(* for, and never for the TXT records or the number of the lines alone:    *)
(* the names examined were many or one was long.                           *)
TunnelsHaveNames ==
  \A t \in Tunnels(log) :
    t.score >= 50 =>
      LET examined == {log[k].name : k \in Indexed(log, t.domain)}
      IN  /\ Cardinality(NamesUnder(log, t.domain)) > TUNNELING_MIN_SUBDOMAINS
          /\ \/ Cardinality({Folded(n) : n \in examined}) > SubdomainSteps[1]
             \/ \E n \in examined : Width(n) > 20

(* Each DNS verdict has its ground in the log, and spares what the         *)
(* whitelist spares (dns_analysis.py).                                     *)
DnsGrounded == WhitelistSpares /\ NxdomainBlamed /\ FluxNeedsTwoAddresses /\ TunnelsHaveNames

=============================================================================
