------------------------------ MODULE Narrative ------------------------------
(***************************************************************************)
(* The written report of an analysis: the facts put before a language      *)
(* model (llm/client.py, llm/providers.py), the prompt cut to its window   *)
(* (llm/context_window.py), and the stage of api/queue.py that keeps the   *)
(* text with the analysis, after enrichment or in a job of its own.        *)
(*                                                                         *)
(* Evidence is what the detectors found, a report the bodies of its        *)
(* sections, a text its length in bytes.                                   *)
(***************************************************************************)
EXTENDS Enrichment

CONSTANTS
  Private,                     \* hosts that are not public
  Titles,                      \* the sections of a report, in order
  Marker, BareMarker,          \* length of the truncation marker, and without its blank lines
  Overhead                     \* tokens of role framing

(* What the detectors found, as far as a report tells it apart; rows and   *)
(* flows, ports and JA3 are derived in the stage itself, where each may    *)
(* raise.                                                                  *)
Outcomes == {"absent", "skipped", "error", "clear", "found"}
Verdicts == {"critical", "high", "medium", "low"}
Losses == {"flows", "ports", "correlation", "ja3"}

Evidences ==
  [rows : Seq(Verdicts), beacons : Seq({"ok", "bad"}), flows : Seq({"ok", "bad"}), ports : {"clear", "found"},
   certificates : Seq({"ok", "bad"}), dns : Outcomes, tls : Outcomes, yara : Outcomes, ja3 : Outcomes]

(* The number of addresses asked about is never 0: the stage then takes    *)
(* its default.  A limit on the rows listed goes with the window, and is   *)
(* longer than any list if that is unlimited.  mayFail bounds what may     *)
(* raise.                                                                  *)
Orders ==
  [addresses : SUBSET Addresses, osint : BOOLEAN, keys : SUBSET STRING, top : Nat \ {0},
   flows : SUBSET [src : Addresses \cup Private, dst : Addresses \cup Private, size : Nat],
   replies : SUBSET Replies, mayFail : BOOLEAN, reportOnly : BOOLEAN, llm : BOOLEAN, configured : BOOLEAN,
   backend : {"openai", "anthropic", "local"}, unlimited : BOOLEAN, evidence : Evidences, limit : Nat \ {0},
   prompts : SUBSET [system : Nat, user : Nat, budget : Nat], regenerate : BOOLEAN, again : BOOLEAN]

ASSUME NarrativeAssumption ==
  /\ \A q \in Requests : \A w \in DOMAIN q : q[w] \in Orders /\ IsFiniteSet(q[w].flows)
  /\ Titles \in Seq(STRING) /\ Len(Titles) > 0
  /\ {Marker, BareMarker, Overhead} \subseteq Nat /\ BareMarker <= Marker

VARIABLES
  saved,    \* per analysis its report and pipeline_warnings
  story     \* the narrative stage of each worker

narrativeVars == <<enrichVars, saved, story>>

-----------------------------------------------------------------------------
(* Facts.                                                                  *)

Elevated == <<"critical", "high", "medium">>

(* verdict_distribution: of all correlated indicators.                     *)
Distribution(rows) == [v \in Verdicts |-> Cardinality({i \in DOMAIN rows : rows[i] = v})]

(* pre_computed_risk: the worst verdict there is.                          *)
Risk(rows, limit) ==
  LET levels == {i \in DOMAIN Elevated : Distribution(rows)[Elevated[i]] > 0}
  IN  IF levels = {} THEN "low" ELSE Elevated[Min(levels)]

(* A detector that was skipped or failed is not available.                 *)
Ran(detector) == detector \notin {"absent", "skipped", "error"}

(* The first so many places of those of a list.                            *)
Upto(places, limit) == {i \in places : Cardinality({k \in places : k < i}) < limit}

Places(list, row) == {i \in DOMAIN list : list[i] = row}

(* Mutant: the list is cut before the rows that matter are picked.         *)
CutFirst(list, limit) == Upto(DOMAIN list, limit) \cap Places(list, "bad")

(* _extract_flow_asymmetry_details() and the high-risk certificates of     *)
(* _extract_tls_summary(): pick, then cut.                                 *)
Details(list, limit) == Upto(Places(list, "bad"), limit)

(* _has_significant_findings() looks at what was picked, at the counts of  *)
(* the other detectors, at every beacon and at whether a port was odd.     *)
Significant(e, limit) ==
  \/ Risk(e.rows, limit) # "low"
  \/ "bad" \in Range(e.beacons)
  \/ Details(e.flows, limit) # {}
  \/ Ran(e.tls) /\ Details(e.certificates, limit) # {}
  \/ "found" \in {e.dns, e.yara, e.ja3, e.ports}

Rank == [v \in Verdicts |-> IF v = "critical" THEN 4 ELSE IF v = "high" THEN 3 ELSE IF v = "medium" THEN 2 ELSE 1]

Milder(rows) == {r \in [DOMAIN rows -> Verdicts] : \A i \in DOMAIN rows : Rank[r[i]] <= Rank[rows[i]]}

(* The evidence after the derivations.  One that raises is logged, leaves  *)
(* nothing, and nobody is told.  Flows come first: without them ports are  *)
(* not looked at, and the correlation goes by the other signals.           *)
Derivations(e, failed) ==
  {[e EXCEPT !.rows = r,
             !.flows = IF "flows" \in failed THEN <<>> ELSE @,
             !.ports = IF failed \cap {"flows", "ports"} # {} THEN "clear" ELSE @,
             !.ja3 = IF "ja3" \in failed THEN "absent" ELSE @] :
     r \in IF "correlation" \in failed THEN {<<>>} ELSE IF "flows" \in failed THEN Milder(e.rows) ELSE {e.rows}}

(* _extract_osint_coverage(): a provider by all it answered.               *)
Answered(w, p) ==
  {job[w].answers[i][p] : i \in {k \in DOMAIN job[w].answers : p \in DOMAIN job[w].answers[k]}}

(* _build_section_prompts(): the remarks its sections get about elevated   *)
(* indicators, beacons, flows and ports, and what to say if there are      *)
(* none.                                                                   *)
ThreatNotes(e, limit) ==
  {n \in {"all clear", "threats", "beacons", "flows", "ports"} :
     CASE n = "all clear" -> ~Significant(e, limit)
       [] n = "threats"   -> Upto(DOMAIN e.rows \ Places(e.rows, "low"), limit) # {}
       [] n = "beacons"   -> "bad" \in Range(e.beacons)
       [] n = "flows"     -> Details(e.flows, limit) # {}
       [] n = "ports"     -> e.ports = "found"}

(* And about DNS, TLS, YARA and JA3, or that they are not to be called     *)
(* clean.                                                                  *)
DetectorNotes(e, limit) ==
  {n \in {"no dns", "dns", "no tls", "certificates", "yara", "ja3"} :
     CASE n = "no dns" -> ~Ran(e.dns)
       [] n = "dns"    -> e.dns = "found"
       [] n = "no tls" -> ~Ran(e.tls)
       [] n = "certificates" -> Ran(e.tls) /\ Details(e.certificates, limit) # {}
       [] n = "yara"   -> e.yara = "found"
       [] n = "ja3"    -> Ran(e.ja3)}

Request(w) == job[w].request

(* A local model writes by sections, unless its window is unlimited.       *)
Chunked(r) == r.backend = "local" /\ ~r.unlimited

(* One request for the whole report gets the risk and the evidence, and no *)
(* remarks.                                                                *)
Facts(w, e, limit) ==
  [evidence |-> e,
   risk |-> Risk(e.rows, limit),
   notes |-> IF Chunked(Request(w)) THEN ThreatNotes(e, limit) \cup DetectorNotes(e, limit) ELSE {},
   providers |-> [p \in Providers |-> ProviderStatus(Answered(w, p))]]

-----------------------------------------------------------------------------
(* Fitting a prompt to half the window.                                    *)

Tokens(bytes) == (bytes + 2) \div 3

Length(t) == IF t.cut = "bare" THEN BareMarker
             ELSE IF t.cut = "middle" THEN t.head + t.tail + Marker ELSE t.head

Whole(n) == [head |-> n, tail |-> 0, cut |-> "no"]

(* keep characters, seven of ten from the beginning.                       *)
Middle(keep) ==
  LET head == (7 * keep + 9) \div 10 IN [head |-> head, tail |-> keep - head, cut |-> "middle"]

(* Mutant: the search stops one short of its upper end.                    *)
LargestButOne(n, budget) ==
  LET Search[s \in (0 .. n + 1) \X (-1 .. n)] ==
        IF s[1] >= s[2] THEN s[1] - 1
        ELSE LET keep == (s[1] + s[2]) \div 2
             IN  IF Tokens(Length(Middle(keep))) <= budget THEN Search[<<keep + 1, s[2]>>] ELSE Search[<<s[1], keep - 1>>]
  IN  Search[<<0, n>>]

(* Binary search for how much of the text fits; -1 if nothing does.        *)
Largest(n, budget) ==
  LET Search[s \in (0 .. n + 1) \X (-1 .. n)] ==
        IF s[1] > s[2] THEN s[1] - 1
        ELSE LET keep == (s[1] + s[2]) \div 2
             IN  IF Tokens(Length(Middle(keep))) <= budget THEN Search[<<keep + 1, s[2]>>] ELSE Search[<<s[1], keep - 1>>]
  IN  Search[<<0, n>>]

(* _truncate_middle().                                                     *)
Truncated(n, budget) ==
  IF budget > Tokens(Marker) /\ Tokens(n) <= budget THEN Whole(n)
  ELSE IF budget > Tokens(Marker) /\ Largest(n, budget) >= 0 THEN Middle(Largest(n, budget))
  ELSE [head |-> 0, tail |-> 0, cut |-> "bare"]

Less(a, b) == IF a > b THEN a - b ELSE 0

RoomForUser(p) == Less(p.budget, Tokens(p.system) + Overhead)

Estimate(system, user) == Tokens(Length(system)) + Tokens(Length(user)) + Overhead

(* fit_prompt(): nothing is cut for an unlimited window; else the evidence *)
(* first, and the instructions only if that was not enough.                *)
Fitted(p, unlimited) ==
  LET user == IF unlimited THEN Whole(p.user) ELSE Truncated(p.user, RoomForUser(p))
  IN  [user |-> user,
       system |-> IF unlimited \/ Estimate(Whole(p.system), user) <= p.budget THEN Whole(p.system)
                  ELSE Truncated(p.system, Less(p.budget, Tokens(Length(user)) + Overhead))]

-----------------------------------------------------------------------------
(* The stage.                                                              *)

NoReport == [report |-> <<>>, warnings |-> {}]

Earlier == <<[title |-> "", body |-> "earlier"]>>

NoStory == [pc |-> "none", facts |-> <<>>, failed |-> {}, next |-> 1, report |-> <<>>, loaded |-> <<>>,
            gave |-> <<>>, warnings |-> {}, prompt |-> <<>>]

NarrativeInit ==
  /\ EnrichInit
  /\ saved \in {[w \in DOMAIN job |-> IF job[w].request.reportOnly THEN s ELSE NoReport] :
                  s \in {NoReport, [NoReport EXCEPT !.report = Earlier]}}
  /\ story = [w \in DOMAIN job |-> NoStory]

(* _run_llm_stage(): off by default; needs a key and a model.              *)
SkipNarrative(w) ==
  /\ job[w].pc = "enriched" /\ story[w].pc = "none"
  /\ ~Request(w).llm \/ ~Request(w).configured
  /\ story' = [story EXCEPT ![w].pc = "written", ![w].loaded = saved[w].report,
                            ![w].warnings = saved[w].warnings \cup job[w].warnings
                                              \cup IF Request(w).llm THEN {"llm not configured"} ELSE {}]
  /\ UNCHANGED <<enrichVars, saved>>

BeginNarrative(w) ==
  /\ job[w].pc = "enriched" /\ story[w].pc = "none"
  /\ Request(w).llm /\ Request(w).configured
  /\ \E failed \in SUBSET Losses, p \in Request(w).prompts :
     \E e \in Derivations(Request(w).evidence, failed) :
       /\ failed = {} \/ Request(w).mayFail
       /\ story' = [story EXCEPT ![w].pc = "writing", ![w].prompt = p, ![w].loaded = saved[w].report,
                              ![w].facts = Facts(w, e, Request(w).limit), ![w].failed = failed,
                              ![w].warnings = saved[w].warnings \cup job[w].warnings]
  /\ UNCHANGED <<enrichVars, saved>>

LastSection(outcome, n) == n = Len(Titles)

OnFailure == {"llm failed"}

(* generate_report(): one request per section, an empty one is left out,   *)
(* a failed one says so.  What raises outside of the request (the client,  *)
(* the prompt) loses the sections written so far, and the stage warns.     *)
WriteSection(w) ==
  /\ story[w].pc = "writing" /\ Chunked(Request(w))
  /\ \/ \E outcome \in {"content", "empty", "error"} :
          story' = [story EXCEPT ![w].gave = Append(@, outcome),
                                 ![w].report = IF outcome = "empty" THEN @
                                               ELSE Append(@, [title |-> Titles[story[w].next], body |-> outcome]),
                                 ![w].next = @ + 1,
                                 ![w].pc = IF LastSection(outcome, story[w].next) THEN "closing" ELSE "writing"]
     \/ story' = [story EXCEPT ![w].pc = "written", ![w].report = <<>>, ![w].warnings = @ \cup OnFailure]
  /\ UNCHANGED <<enrichVars, saved>>

NoContent == <<[title |-> "", body |-> "No content returned from the model."]>>

CloseReport(w) ==
  /\ story[w].pc = "closing"
  /\ story' = [story EXCEPT ![w].pc = "written", ![w].report = IF @ = <<>> THEN NoContent ELSE @]
  /\ UNCHANGED <<enrichVars, saved>>

(* One request for the whole report.  An error of Anthropic's becomes the  *)
(* text; one of an OpenAI endpoint, or of the prompt, is raised, and the   *)
(* stage warns.                                                            *)
WriteWhole(w) ==
  /\ story[w].pc = "writing" /\ ~Chunked(Request(w))
  /\ \/ story' = [story EXCEPT ![w].pc = "written", ![w].report = <<[title |-> "", body |-> "content"]>>]
     \/ story' = [story EXCEPT ![w].pc = "written", ![w].report = NoContent]
     \/ /\ Request(w).backend = "anthropic"
        /\ story' = [story EXCEPT ![w].pc = "written", ![w].report = <<[title |-> "", body |-> "error"]>>]
     \/ story' = [story EXCEPT ![w].pc = "written", ![w].warnings = @ \cup OnFailure]
  /\ UNCHANGED <<enrichVars, saved>>

(* _run_llm_report_job() keeps the old report if there is no new one; a    *)
(* new analysis has none.                                                  *)
Kept(w) == IF story[w].report # <<>> THEN story[w].report ELSE story[w].loaded

SaveReport(w) ==
  /\ story[w].pc = "written"
  /\ saved' = [saved EXCEPT ![w] = [report |-> Kept(w), warnings |-> story[w].warnings]]
  /\ story' = [story EXCEPT ![w].pc = "saved"]
  /\ UNCHANGED enrichVars

(* submit_background_report(): the report of a saved analysis again, which *)
(* has the warnings of the first job by now.                               *)
Regenerate(w) ==
  /\ story[w].pc = "saved" /\ Request(w).llm /\ Request(w).regenerate
  /\ story' = [story EXCEPT ![w] = NoStory]
  /\ job' = [job EXCEPT ![w].request.regenerate = FALSE]
  /\ UNCHANGED <<names, renames, now, cache, saved>>

(* The worker takes the next job: another capture of these addresses.      *)
NextCapture(w) ==
  /\ story[w].pc = "saved" /\ Request(w).again
  /\ job' = [job EXCEPT ![w] = NewJob([Request(w) EXCEPT !.again = FALSE])]
  /\ saved' = [saved EXCEPT ![w] = NoReport]
  /\ story' = [story EXCEPT ![w] = NoStory]
  /\ UNCHANGED <<names, renames, now, cache>>

NarrativeNext ==
  \/ EnrichNext /\ UNCHANGED <<saved, story>>
  \/ \E w \in DOMAIN job :
       \/ SkipNarrative(w) \/ BeginNarrative(w) \/ WriteSection(w) \/ CloseReport(w)
       \/ WriteWhole(w) \/ SaveReport(w) \/ Regenerate(w) \/ NextCapture(w)

Idle == \A w \in DOMAIN job : story[w].pc = "saved" /\ ~Request(w).regenerate /\ ~Request(w).again

NarrativeSpec == NarrativeInit /\ [][NarrativeNext]_narrativeVars

-----------------------------------------------------------------------------
(* Properties.                                                             *)

(* Every variable has its type.                                            *)
NarrativeTypeOK ==
  /\ now \in 0 .. MaxTime /\ renames \in 0 .. MaxRenames
  /\ names \in [Addresses -> Names]
  /\ \A a \in Addresses : cache[a].name \in Names \cup {NoName}
  /\ \A w \in DOMAIN job :
       /\ job[w].pc \in {"osint", "asking", "ptr", "lookup", "enriched"}
       /\ job[w].todo \subseteq Indicators
       /\ \A a \in Addresses : job[w].ptr[a].name \in Names \cup {NoName}
       /\ DOMAIN job[w].answers \subseteq Indicators
       /\ story[w].pc \in {"none", "writing", "closing", "written", "saved"}
       /\ Len(story[w].gave) <= Len(Titles)

(* The addresses asked about are the busiest: no address of the flows that *)
(* was left out has more packets, received or sent, than one asked about.  *)
BusiestAsked ==
  \A w \in DOMAIN job :
    LET r     == Request(w)
        asked == Addresses \cap DOMAIN job[w].replies
        size(a) == SumFunction([f \in {g \in r.flows : g.src = a} |-> f.size])
                     + SumFunction([f \in {g \in r.flows : g.dst = a} |-> f.size])
    IN  (job[w].ran /\ Talking(r) # {}) =>
          /\ asked # {} /\ Cardinality(asked) <= r.top
          /\ \A a \in asked, b \in Talking(r) \ asked : size(a) >= size(b)

(* Each usable answer of a provider is kept, whatever the other providers  *)
(* asked about the same indicator do, unless the stage itself fails; one   *)
(* whose reply is unusable leaves no answer that looks like one.           *)
AnswersKept ==
  \A w \in DOMAIN job : (job[w].ran \/ job[w].pc = "asking") =>
    \A i \in DOMAIN job[w].replies : \A p \in DOMAIN job[w].replies[i] :
      IF job[w].replies[i][p] = "odd" THEN p \notin DOMAIN job[w].answers[i]
      ELSE p \in DOMAIN job[w].answers[i] /\ job[w].answers[i][p] = job[w].replies[i][p]

(* A report never says of a provider that it has no record, or that it was *)
(* not asked, when a question to it failed; nor that it is well when it    *)
(* answered nothing.  If the stage failed after the first answers it has   *)
(* none of them, and the analysis warns of it.                             *)
FailuresTold ==
  \A w \in DOMAIN job : \A p \in Providers :
    story[w].facts # <<>> /\ job[w].replies # <<>> =>
      IF ~job[w].ran THEN "osint failed" \in story[w].warnings ELSE
      LET got == {job[w].replies[i][p] : i \in {k \in DOMAIN job[w].replies : p \in DOMAIN job[w].replies[k]}}
          told == story[w].facts.providers[p]
      IN  /\ told \in {"nodata", "none"} => got \cap {"limited", "auth", "error"} = {}
          /\ told = "ok" => "payload" \in got

(* An address whose host name was in the cache or found by this job has a  *)
(* host name in its record, with reputation providers or without, and      *)
(* whether or not the cache could be written (queue.py).                   *)
NoHostNameLost ==
  \A w \in DOMAIN job : job[w].pc = "enriched" =>
    \A a \in DOMAIN job[w].hits \cup DOMAIN job[w].looked : job[w].ptr[a].name \in Names

(* A name the OSINT stage found stays when the others are looked up.       *)
HostNamesStay ==
  [][\A w \in DOMAIN job : \A a \in Addresses :
       (job[w].pc = "lookup" /\ job'[w].pc = "enriched" /\ job[w].ptr[a] # Nothing)
         => job'[w].ptr[a] = job[w].ptr[a]]_narrativeVars

(* A host name taken from the cache was true no longer ago than the        *)
(* lifetime of an entry and one round of lookups, however many captures    *)
(* and workers used it since.                                              *)
HostNamesRecent ==
  \A w \in DOMAIN job : \A a \in DOMAIN job[w].hits :
    job[w].hits[a].seen + TTL + MaxBatch > job[w].read

(* What providers and the resolver answered about an address is kept with  *)
(* it, recent, and is told apart from what failed (osint.py,               *)
(* rdns_cache.py).                                                         *)
AnswersStand ==
  /\ [](NarrativeTypeOK /\ BusiestAsked /\ AnswersKept /\ FailuresTold /\ NoHostNameLost /\ HostNamesRecent)
  /\ HostNamesStay

(* The risk a report starts from is the worst verdict of all correlated    *)
(* indicators, also of those whose rows do not fit: never worse, and       *)
(* milder only if the correlation, or the flows it goes by, failed.        *)
RiskIsWorst ==
  \A w \in DOMAIN job : story[w].facts # <<>> =>
    LET rows == Request(w).evidence.rows
        risk == story[w].facts.risk
    IN  /\ story[w].failed \cap {"correlation", "flows"} = {} =>
             \A i \in DOMAIN rows : Rank[rows[i]] <= Rank[risk]
        /\ risk # "low" => \E i \in DOMAIN rows : Rank[rows[i]] >= Rank[risk]

(* Nothing was found: no elevated verdict, strong beacon, suspicious flow, *)
(* odd port, high-risk certificate or other hit, wherever it stands in its *)
(* list, but for what lost derivations would have shown.                   *)
NothingFound(e, lost) ==
  /\ lost \cap {"correlation", "flows"} = {} => Range(e.rows) \subseteq {"low"}
  /\ "flows" \notin lost => "bad" \notin Range(e.flows)
  /\ lost \cap {"flows", "ports"} = {} => e.ports = "clear"
  /\ "ja3" \notin lost => e.ja3 # "found"
  /\ "bad" \notin Range(e.beacons) /\ (Ran(e.tls) => "bad" \notin Range(e.certificates))
  /\ "found" \notin {e.dns, e.yara}

AllClear(w) == story[w].facts # <<>> /\ "all clear" \in story[w].facts.notes

(* The model is told that no detector supplied a significant finding only  *)
(* if none did that ran; a derivation of the stage itself that failed is   *)
(* the only thing the sentence may hide (see AllClearFounded).  And then   *)
(* no section is given a finding to write about.                           *)
NoFalseAllClear ==
  \A w \in DOMAIN job : AllClear(w) =>
    /\ NothingFound(Request(w).evidence, story[w].failed)
    /\ story[w].facts.notes \cap {"threats", "beacons", "flows", "ports", "dns", "certificates", "yara"} = {}

(* The metrics put before the model with the sentence "intentionally       *)
(* distinguish an observed zero from an unavailable detector"              *)
(* (visibility.py).  If they did it would be told so only of a capture     *)
(* without findings.  The stage calls what raised empty, so this is false. *)
AllClearFounded == \A w \in DOMAIN job : AllClear(w) => NothingFound(Request(w).evidence, {})

(* A prompt stays within half the window, if it has one and whenever there *)
(* is room for the instructions and a marker; and nothing is cut that      *)
(* would have fitted.                                                      *)
PromptFits ==
  \A w \in DOMAIN job : story[w].prompt # <<>> =>
    LET p == story[w].prompt
        f == Fitted(p, Request(w).unlimited)
    IN  /\ ~Request(w).unlimited /\ p.budget >= Tokens(p.system) + Tokens(Marker) + Overhead
             => Estimate(f.system, f.user) <= p.budget
        /\ \/ Request(w).unlimited
           \/ /\ Tokens(p.system) + Tokens(p.user) + Overhead <= p.budget
              /\ p.budget > Tokens(p.system) + Tokens(Marker) + Overhead
           => f.system = Whole(p.system) /\ f.user = Whole(p.user)

CutIsLeast ==
  \A w \in DOMAIN job : story[w].prompt # <<>> =>
    LET f == Fitted(story[w].prompt, Request(w).unlimited)
    IN  f.user.cut = "middle" =>
          Estimate(Whole(story[w].prompt.system), Middle(f.user.head + f.user.tail + 1)) > story[w].prompt.budget

(* Prompts fit the window and lose no more than they must (llm/client.py). *)
PromptCutLeast == PromptFits /\ CutIsLeast

(* A report in sections has every section the model wrote, under its own   *)
(* heading and in order, whatever became of the other sections; one that   *)
(* was broken off is dropped as a whole, with a warning.                   *)
SectionsKept ==
  \A w \in DOMAIN job :
    (story[w].pc \in {"written", "saved"} /\ story[w].gave # <<>>) =>
      LET kept == {i \in DOMAIN Titles : story[w].gave[i] # "empty"}
      IN  IF Len(story[w].gave) < Len(Titles) THEN story[w].report = <<>> /\ OnFailure \subseteq story[w].warnings ELSE
          /\ kept = {} => story[w].report = NoContent
          /\ kept # {} => Len(story[w].report) = Cardinality(kept)
          /\ \A i \in kept : story[w].report[Cardinality({j \in kept : j <= i})]
                              = [title |-> Titles[i], body |-> story[w].gave[i]]

(* A job that was to write a report has one to show or says why not.       *)
ReportOrWarning ==
  \A w \in DOMAIN job : (story[w].pc = "saved" /\ Request(w).llm) =>
    story[w].report # <<>> \/ saved[w].warnings \cap {"llm not configured", "llm failed"} # {}

(* The report of an analysis, once written, is not blanked by writing it   *)
(* again.                                                                  *)
ReportNotBlanked ==
  [][\A w \in DOMAIN job :
       (saved[w].report # <<>> /\ job'[w].request.again = job[w].request.again) => saved'[w].report # <<>>]_narrativeVars

(* A report starts from the worst of the evidence, has all the model       *)
(* wrote, or a warning in its place, and is not blanked later              *)
(* (llm/client.py, queue.py).                                              *)
ReportHonest ==
  /\ [](NoFalseAllClear /\ RiskIsWorst /\ SectionsKept /\ ReportOrWarning)
  /\ ReportNotBlanked

=============================================================================
