---------------------------- MODULE AgentAccess ----------------------------
(***************************************************************************)
(* Agent credentials: app/agents/registry.py with the middleware that      *)
(* audits, the admission of a request in routes.py, and the submission of  *)
(* a capture in submission.py.                                             *)
(*                                                                         *)
(* A transaction (BEGIN IMMEDIATE) is one action: refusing a request rolls *)
(* back what it has counted.  Between its transactions a request works on  *)
(* the row it read when it was admitted.  Time comes in buckets: so many   *)
(* ticks make a minute, so many a day.  The uploaded files, and the job's  *)
(* way through the spool (AgentSpool), are left out.                       *)
(***************************************************************************)
EXTENDS Naturals, Sequences, FiniteSets

CONSTANTS
  Agents, Asks,        \* credentials, and requests in flight
  IdempotencyKeys,
  Rpm, DailyRequests, DailySubmissions,  \* budgets of a credential
  Minute, Day,         \* in ticks
  Lifetime,            \* of a credential, in ticks
  MaxTicks, MaxCases,  \* bounds
  MaxRequests,         \* bound on the requests that get as far as the budgets
  MaxSlips             \* bound on failing transactions and deaths

ASSUME AgentAssumption ==
  /\ {Rpm, DailyRequests, DailySubmissions, Lifetime, MaxTicks, MaxCases, MaxRequests, MaxSlips} \subseteq Nat
  /\ {Minute, Day} \subseteq Nat \ {0}

VARIABLES
  now,
  grants,     \* the rows of agent_keys
  usage,      \* agent_usage: requests of an agent in a bucket
  audit,      \* rows of agent_audit, by agent
  retries,    \* the rows of agent_retries for captures
  made,       \* cases made by submissions
  ask,        \* the requests
  uploading,  \* who holds _upload_slot
  slips,
  letIn, told  \* history: when requests were let in, and answers delivered

agentVars == <<now, grants, usage, audit, retries, made, ask, uploading, slips, letIn, told>>

Free       == "nobody"
MinuteOf(t) == [of |-> "minute", no |-> t \div Minute]
DayOf(t)    == [of |-> "day", no |-> t \div Day]
BucketsOf(t) == {MinuteOf(t), DayOf(t)}
Buckets     == UNION {BucketsOf(t) : t \in 0..MaxTicks}
AtRest      == [pc |-> "idle", agent |-> CHOOSE a \in Agents : TRUE,
                key |-> CHOOSE k \in IdempotencyKeys : TRUE]
Ids         == DOMAIN made

AgentInit ==
  /\ now = 0
  /\ grants = [a \in Agents |-> [status |-> "none", cases |-> {}, expires |-> 0]]
  /\ usage = [a \in Agents |-> [b \in Buckets |-> 0]]
  /\ audit = [a \in Agents |-> 0] /\ told = [a \in Agents |-> 0]
  /\ letIn = [a \in Agents |-> <<>>]
  /\ retries = {} /\ made = <<>>
  /\ ask = [r \in Asks |-> AtRest]
  /\ uploading = Free
  /\ slips = 0

-----------------------------------------------------------------------------
Slips    == slips < MaxSlips /\ slips' = slips + 1
GoTo(r, pc) == ask' = [ask EXCEPT ![r].pc = pc]

TickAgents ==
  /\ now < MaxTicks /\ now' = now + 1
  /\ UNCHANGED <<grants, usage, audit, retries, made, ask, uploading, slips, letIn, told>>

CreateAgent(a) ==
  /\ grants[a].status = "none"
  /\ grants' = [grants EXCEPT ![a] = [status |-> "live", cases |-> {}, expires |-> now + Lifetime]]
  /\ UNCHANGED <<now, usage, audit, retries, made, ask, uploading, slips, letIn, told>>

RevokeAgent(a) ==
  /\ grants[a].status = "live"
  /\ grants' = [grants EXCEPT ![a].status = "revoked"]
  /\ UNCHANGED <<now, usage, audit, retries, made, ask, uploading, slips, letIn, told>>

-----------------------------------------------------------------------------
Valid(a) == grants[a].status = "live" /\ now < grants[a].expires

Spent(a) == usage[a][MinuteOf(now)] >= Rpm \/ usage[a][DayOf(now)] >= DailyRequests

Charge(a, bs) == usage' = [usage EXCEPT ![a] = [b \in Buckets |-> @[b] + IF b \in bs THEN 1 ELSE 0]]

(* Mutant: what a refused request has counted is committed.                *)
ChargedAnyway(a) ==
  Charge(a, IF usage[a][MinuteOf(now)] >= Rpm THEN {} ELSE {MinuteOf(now)})

(* The exception rolls the minute's count back.                            *)
Refused(a) == UNCHANGED usage

(* authenticate().  An invalid credential is told so, and leaves no trace. *)
Admit(r, a) ==
  /\ ask[r].pc = "idle" /\ Valid(a)
  /\ audit[a] + Cardinality({s \in Asks : ask[s].pc # "idle"}) < MaxRequests
  /\ \/ /\ Spent(a)
        /\ Refused(a)
        /\ ask' = [ask EXCEPT ![r].pc = "answered", ![r].agent = a]
        /\ UNCHANGED letIn
     \/ /\ ~Spent(a)
        /\ Charge(a, BucketsOf(now))
        /\ ask' = [ask EXCEPT ![r].pc = "admitted", ![r].agent = a]
        /\ letIn' = [letIn EXCEPT ![a] = Append(@, now)]
  /\ UNCHANGED <<now, grants, audit, retries, made, uploading, slips, told>>

(* A read, and any refusal: of a permission, a case, an upload.            *)
Answer(r) ==
  /\ ask[r].pc = "admitted"
  /\ GoTo(r, "answered")
  /\ UNCHANGED <<now, grants, usage, audit, retries, made, uploading, slips, letIn, told>>

-----------------------------------------------------------------------------
(* submit()                                                                *)

BeginUpload(r, k) ==
  /\ ask[r].pc = "admitted" /\ uploading = Free
  /\ uploading' = r
  /\ ask' = [ask EXCEPT ![r].pc = "upload", ![r].key = k]
  /\ UNCHANGED <<now, grants, usage, audit, retries, made, slips, letIn, told>>

Remembered(r) == {x \in retries : x.agent = ask[r].agent /\ x.key = ask[r].key}

UsedToday(a) == Cardinality({x \in retries : x.agent = a /\ x.day = now \div Day})

(* Mutant: the credential is not looked at again.                          *)
StillAnyone(a) == TRUE

StillValid(a) == Valid(a)

Granted(a, c) == grants' = [grants EXCEPT ![a].cases = @ \cup {c}]

(* Mutant: a retry is remembered once the job has been dispatched.         *)
RememberedLate(r, c) == UNCHANGED retries

Remember(r, c) ==
  retries' = retries \cup {[agent |-> ask[r].agent, key |-> ask[r].key,
                            case |-> c, day |-> now \div Day]}

(* The case, its job, the grant and the receipt in one transaction.        *)
Submit(r) ==
  LET a == ask[r].agent IN
  /\ ask[r].pc = "upload" /\ Remembered(r) = {}
  /\ UsedToday(a) < DailySubmissions
  /\ StillValid(a)
  /\ Len(made) < MaxCases
  /\ made' = Append(made, [agent |-> a, key |-> ask[r].key,
                           day |-> now \div Day, live |-> TRUE])
  /\ Granted(a, Len(made) + 1)
  /\ Remember(r, Len(made) + 1)
  /\ GoTo(r, "answered") /\ uploading' = Free
  /\ UNCHANGED <<now, usage, audit, slips, letIn, told>>

(* A retry gets the receipt it has; another capture under its key, a spent *)
(* quota, a full queue or a credential gone meanwhile are refused.         *)
SubmitNothing(r) ==
  /\ ask[r].pc = "upload"
  /\ GoTo(r, "answered") /\ uploading' = Free
  /\ UNCHANGED <<now, grants, usage, audit, retries, made, slips, letIn, told>>

-----------------------------------------------------------------------------

(* The middleware audits before it passes the answer on; if that fails, an *)
(* error goes out in its place.                                            *)
Audit(r) ==
  /\ ask[r].pc = "answered"
  /\ ask' = [ask EXCEPT ![r] = AtRest]
  /\ \/ /\ audit' = [audit EXCEPT ![ask[r].agent] = @ + 1]
        /\ told' = [told EXCEPT ![ask[r].agent] = @ + 1]
        /\ UNCHANGED slips
     \/ Slips /\ UNCHANGED <<audit, told>>
  /\ UNCHANGED <<now, grants, usage, retries, made, uploading, letIn>>

(* Death of the API process: requests end, the semaphore is new.           *)
ServerDies ==
  /\ Slips
  /\ ask' = [r \in Asks |-> AtRest] /\ uploading' = Free
  /\ UNCHANGED <<now, grants, usage, audit, retries, made, letIn, told>>

(* delete_case() takes the receipt with the case, and leaves the grant.    *)
DeleteCase(c) ==
  /\ made[c].live
  /\ made' = [made EXCEPT ![c].live = FALSE]
  /\ retries' = {x \in retries : x.case # c}
  /\ UNCHANGED <<now, grants, usage, audit, ask, uploading, slips, letIn, told>>

(* clear_all() takes the grants too.                                       *)
ClearAll ==
  /\ \E c \in Ids : made[c].live
  /\ made' = [c \in Ids |-> [made[c] EXCEPT !.live = FALSE]]
  /\ retries' = {}
  /\ grants' = [a \in Agents |-> [grants[a] EXCEPT !.cases = {}]]
  /\ UNCHANGED <<now, usage, audit, ask, uploading, slips, letIn, told>>

AskStep(r) ==
  \/ \E a \in Agents : Admit(r, a)
  \/ Answer(r)
  \/ \E k \in IdempotencyKeys : BeginUpload(r, k)
  \/ Submit(r) \/ SubmitNothing(r)
  \/ Audit(r)

AgentNext ==
  \/ \E r \in Asks : AskStep(r)
  \/ \E a \in Agents : CreateAgent(a) \/ RevokeAgent(a)
  \/ \E c \in Ids : DeleteCase(c)
  \/ ClearAll \/ ServerDies \/ TickAgents

AgentSpec == AgentInit /\ [][AgentNext]_agentVars

-----------------------------------------------------------------------------
AgentTypeOK ==
  /\ now \in 0..MaxTicks
  /\ \A a \in Agents : grants[a].status \in {"none", "live", "revoked"} /\ grants[a].cases \subseteq Ids
  /\ usage \in [Agents -> [Buckets -> Nat]] /\ letIn \in [Agents -> Seq(0..MaxTicks)]
  /\ audit \in [Agents -> Nat] /\ told \in [Agents -> Nat]
  /\ \A x \in retries : x.agent \in Agents /\ x.case \in Ids
  /\ \A r \in Asks : ask[r].pc \in {"idle", "admitted", "upload", "answered"}
  /\ uploading \in Asks \cup {Free} /\ slips \in 0..MaxSlips

(* How many of these times are charged to a bucket.                        *)
ChargesTo(ticks, b) == Cardinality({i \in DOMAIN ticks : b \in BucketsOf(ticks[i])})

(* However its requests overlap, restart or are refused, an agent is       *)
(* charged for those it was let in for, and no minute or day of the clock  *)
(* sees more of them than its budget.                                      *)
ChargedAsLetIn ==
  \A a \in Agents :
    /\ \A b \in Buckets : usage[a][b] = ChargesTo(letIn[a], b)
    /\ \A t \in 0..MaxTicks : usage[a][MinuteOf(t)] <= Rpm /\ usage[a][DayOf(t)] <= DailyRequests

(* No answer reaches an agent that the audit does not know of.             *)
AnswersAudited == \A a \in Agents : told[a] <= audit[a]

(* What an agent was let in for is charged, within its budgets, and what   *)
(* it was told is in the audit (registry.py, routes.py).                   *)
BudgetsExact == AgentTypeOK /\ ChargedAsLetIn /\ AnswersAudited

(* An agent may read each case it has submitted, for as long as the case   *)
(* exists, however many submissions overlap.                               *)
SubmittedIsGranted == \A c \in Ids : made[c].live => c \in grants[made[c].agent].cases

(* One idempotency key never stands for two cases that exist: a submission *)
(* repeated after a lost answer makes none.                                *)
SubmittedOnce ==
  \A c, d \in Ids :
    c # d /\ made[c].live /\ made[d].live /\ made[c].agent = made[d].agent => made[c].key # made[d].key

(* A day sees no more submissions than the quota, but for those whose case *)
(* was deleted: their receipts, which are counted, go with the case.       *)
QuotaHolds ==
  \A a \in Agents, t \in 0..MaxTicks :
    Cardinality({c \in Ids : made[c].live /\ made[c].agent = a /\ made[c].day = t \div Day}) <= DailySubmissions

(* A case an agent submitted is its own, is the only one of its            *)
(* idempotency key, and counts against the quota of its day                *)
(* (submission.py).                                                        *)
SubmissionsStand == SubmittedIsGranted /\ SubmittedOnce /\ QuotaHolds

(* A credential revoked or expired while its upload was under way submits  *)
(* nothing.                                                                *)
GoneSubmitNothing ==
  [][Len(made') > Len(made) =>
       LET a == made'[Len(made')].agent IN grants[a].status = "live" /\ now < grants[a].expires]_agentVars
=============================================================================
