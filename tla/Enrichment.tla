----------------------------- MODULE Enrichment -----------------------------
(***************************************************************************)
(* What a worker adds to the addresses and domains of a capture: the       *)
(* reputation providers (pipeline/osint.py) and then the host name of each *)
(* public address (utils/network_utils.py), as the OSINT stage of          *)
(* api/queue.py runs them.  Workers are processes: they share only the     *)
(* host name cache, a database (pipeline/rdns_cache.py).                   *)
(*                                                                         *)
(* A job never gets an answer from the OSINT cache: _get_cache() sets its  *)
(* enabled flag from the Streamlit session of the calling thread, and a    *)
(* worker has none.  So every provider is asked each time.                 *)
(***************************************************************************)
EXTENDS Integers, Sequences, FiniteSets, FiniteSetsExt, Functions

CONSTANTS
  Workers,
  Addresses, Domains,   \* the public addresses and the domains of a capture
  Names, NoName,        \* host names
  FirstNames,           \* the name each address starts with
  AddressProviders, DomainProviders,
  Requests,             \* what the two captures are and how they are enriched
  TTL,                  \* age at which a cached host name expires
  MaxBatch,             \* longest time one round of lookups takes
  MaxTime, MaxRenames   \* bounds

ASSUME EnrichmentAssumption ==
  /\ IsFiniteSet(Addresses)
  /\ {TTL, MaxBatch, MaxTime, MaxRenames} \subseteq Nat
  /\ FirstNames \in [Addresses -> Names]
  /\ NoName \notin Names
  /\ Addresses \cap Domains = {}

VARIABLES
  names,    \* the host name the resolver has for each address
  renames,
  now,
  cache,    \* rdns_cache: name, when it was stored and, for the properties, looked up
  job       \* the enrichment in each busy worker

enrichVars == <<names, renames, now, cache, job>>

Indicators == Addresses \cup Domains
Providers  == AddressProviders \cup DomainProviders
Replies    == {"payload", "nodata", "limited", "auth", "error", "odd"}

(* A function with one more value.                                         *)
With(f, x, value) == [y \in DOMAIN f \cup {x} |-> IF y = x THEN value ELSE f[y]]

Nothing == [name |-> NoName, at |-> 0, seen |-> 0]

(* A job that only writes a report starts from a saved analysis.           *)
NewJob(r) == [request |-> r, pc |-> IF r.reportOnly THEN "enriched" ELSE "osint", todo |-> {}, warnings |-> {}, ran |-> FALSE,
              replies |-> <<>>, answers |-> <<>>, ptr |-> [a \in Addresses |-> Nothing],
              read |-> 0, hits |-> <<>>, looked |-> <<>>]

EnrichInit ==
  /\ names = FirstNames
  /\ renames = 0 /\ now = 0
  /\ cache = [a \in Addresses |-> Nothing]
  /\ \E r \in Requests : job = [w \in DOMAIN r |-> NewJob(r[w])]

-----------------------------------------------------------------------------
(* Which addresses are asked about.                                        *)

(* Packets of all flows of a public address, at either end of them.        *)
PacketsOf(flows, a) ==
  SumFunction([f \in flows |-> (IF f.src = a THEN f.size ELSE 0) + (IF f.dst = a THEN f.size ELSE 0)])

Talking(r) == {a \in r.addresses : \E f \in r.flows : a \in {f.src, f.dst}}

(* pick_top_public_ips(): the n busiest addresses of the flows, all of     *)
(* the capture's addresses if no flow has one.  Which of two equally busy  *)
(* addresses is left out depends on the order of the flows.                *)
TopChoices(r) ==
  LET n == Cardinality(Talking(r))
  IN  IF n = 0 THEN {r.addresses}
      ELSE {s \in kSubset(IF n < r.top THEN n ELSE r.top, Talking(r)) :
              \A a \in s, b \in Talking(r) \ s : PacketsOf(r.flows, a) >= PacketsOf(r.flows, b)}

-----------------------------------------------------------------------------
(* Providers.                                                              *)

(* provider_status(): what a report says of a provider, given everything   *)
(* it answered.                                                            *)
Precedence == <<"limited", "auth", "error", "nodata">>

ProviderStatus(answered) ==
  IF "payload" \in answered THEN "ok"
  ELSE IF answered = {} THEN "none"
  ELSE Precedence[Min({i \in DOMAIN Precedence : Precedence[i] \in answered})]

Configured(j, i) == j.request.keys \cap (IF i \in Addresses THEN AddressProviders ELSE DomainProviders)

(* _query_providers() asks in parallel; a reply that is not an object      *)
(* raises in its task and is dropped.                                      *)
Usable(replies) == Restrict(replies, {p \in DOMAIN replies : replies[p] # "odd"})

(* _run_osint_stage(): nothing is asked when disabled or without keys.     *)
SkipOsint(w) ==
  /\ job[w].pc = "osint"
  /\ ~job[w].request.osint \/ job[w].request.keys = {}
  /\ job' = [job EXCEPT ![w].pc = "ptr",
                        ![w].warnings = IF job[w].request.osint THEN {"osint not configured"} ELSE {}]
  /\ UNCHANGED <<names, renames, now, cache>>

BeginOsint(w) ==
  /\ job[w].pc = "osint"
  /\ job[w].request.osint /\ job[w].request.keys # {}
  /\ \E top \in TopChoices(job[w].request) :
        job' = [job EXCEPT ![w].pc = "asking", ![w].todo = top \cup Domains]
  /\ UNCHANGED <<names, renames, now, cache>>

(* resolve_ip(): the name there is now, or none if the lookup fails.       *)
Lookup(a) == {names[a], NoName}

(* Addresses come before domains.                                         *)
Earliest(todo) == IF todo \cap Addresses # {} THEN todo \cap Addresses ELSE todo

Ask(w) ==
  /\ job[w].pc = "asking"
  /\ \E i \in Earliest(job[w].todo) :
     \E replies \in [Configured(job[w], i) -> job[w].request.replies] :
     \E name \in IF i \in Addresses THEN Lookup(i) ELSE {NoName} :
       job' = [job EXCEPT ![w].todo = @ \ {i},
                          ![w].replies = With(@, i, replies),
                          ![w].answers = With(@, i, Usable(replies)),
                          ![w].ptr = IF name = NoName THEN @ ELSE [@ EXCEPT ![i] = [name |-> name, at |-> 0, seen |-> 0]]]
  /\ UNCHANGED <<names, renames, now, cache>>

EndOsint(w) ==
  /\ job[w].pc = "asking" /\ job[w].todo = {}
  /\ job' = [job EXCEPT ![w].pc = "ptr", ![w].ran = TRUE]
  /\ UNCHANGED <<names, renames, now, cache>>

(* An exception outside the providers leaves osint_data as it was: empty.  *)
OsintFails(w) ==
  /\ job[w].pc = "asking"
  /\ job[w].request.mayFail
  /\ job' = [job EXCEPT ![w].pc = "ptr", ![w].todo = {}, ![w].answers = <<>>,
                        ![w].ptr = [a \in Addresses |-> Nothing], ![w].warnings = {"osint failed"}]
  /\ UNCHANGED <<names, renames, now, cache>>

-----------------------------------------------------------------------------
(* Host names.                                                             *)

(* RDNSCache.get_batch(): created_at > now - ttl.                          *)
FreshEntry(c, t, a) == c[a] # Nothing /\ c[a].at + TTL > t

(* bulk_resolve_ips(): first the cache, which may be unavailable.          *)
ReadCache(w) ==
  /\ job[w].pc = "ptr"
  /\ \E served \in {{a \in job[w].request.addresses : FreshEntry(cache, now, a)}, {}} :
       job' = [job EXCEPT ![w].pc = "lookup", ![w].read = now, ![w].hits = Restrict(cache, served),
                          ![w].todo = job[w].request.addresses \ served]
  /\ UNCHANGED <<names, renames, now, cache>>

ResolveOne(w) ==
  /\ job[w].pc = "lookup"
  /\ \E a \in job[w].todo : \E name \in Lookup(a) :
       job' = [job EXCEPT ![w].todo = @ \ {a},
                          ![w].looked = IF name = NoName THEN @ ELSE With(@, a, [name |-> name, at |-> 0, seen |-> now])]
  /\ UNCHANGED <<names, renames, now, cache>>

(* Cached names and those that were looked up.                             *)
Found(j) == [a \in DOMAIN j.looked \cup DOMAIN j.hits |-> IF a \in DOMAIN j.looked THEN j.looked[a] ELSE j.hits[a]]

(* Mutant: names from the cache are stored again.                          *)
FoundAll(j) == Found(j)

(* Only names that were looked up are stored.                              *)
NewEntries(j) == j.looked

(* details.setdefault("ptr", hostname) on the record of the address, which *)
(* is made if no provider returned one.                                    *)
Merged(j, found) ==
  [a \in Addresses |-> IF j.ptr[a] = Nothing /\ a \in DOMAIN found THEN found[a] ELSE j.ptr[a]]

(* RDNSCache.set_batch() stamps all entries with the time of the write; it *)
(* is not called when the cache had everything, and may fail.              *)
StoreNames(w) ==
  /\ job[w].pc = "lookup" /\ job[w].todo = {}
  /\ \E entries \in {NewEntries(job[w]), <<>>} :
       cache' = [a \in Addresses |-> IF a \in DOMAIN entries THEN [entries[a] EXCEPT !.at = now] ELSE cache[a]]
  /\ job' = [job EXCEPT ![w].pc = "enriched", ![w].ptr = Merged(job[w], Found(job[w]))]
  /\ UNCHANGED <<names, renames, now>>

-----------------------------------------------------------------------------
(* The world outside.                                                      *)

(* Neither time nor names matter while no job looks at them.               *)
During(phases) == \E w \in DOMAIN job : job[w].pc \in phases

(* External: the owner of an address changes its name.                     *)
Rename(a) ==
  /\ During({"asking", "ptr", "lookup"})
  /\ renames < MaxRenames
  /\ \E n \in Names \ {names[a]} : names' = [names EXCEPT ![a] = n]
  /\ renames' = renames + 1
  /\ UNCHANGED <<now, cache, job>>

(* A round of lookups takes at most MaxBatch: each has a timeout.          *)
Tick ==
  /\ During({"ptr", "lookup"})
  /\ now < MaxTime
  /\ \A w \in DOMAIN job : job[w].pc = "lookup" => now < job[w].read + MaxBatch
  /\ now' = now + 1
  /\ UNCHANGED <<names, renames, cache, job>>

EnrichNext ==
  \/ \E w \in DOMAIN job :
       \/ SkipOsint(w) \/ BeginOsint(w) \/ Ask(w) \/ EndOsint(w) \/ OsintFails(w)
       \/ ReadCache(w) \/ ResolveOne(w) \/ StoreNames(w)
  \/ \E a \in Addresses : Rename(a)
  \/ Tick
=============================================================================
