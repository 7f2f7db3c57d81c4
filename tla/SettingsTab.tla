---------------------------- MODULE SettingsTab ----------------------------
(***************************************************************************)
(* A tab of the React workbench on the settings of ConfigStore             *)
(* (prototype-friendly-ui/src/workbench.js, App.jsx): it asks for the      *)
(* state of the workbench, at intervals while a job it shows is under way, *)
(* and takes every answer as it comes; the settings page edits a draft,    *)
(* saves it and lists the models of the draft's connection.                *)
(***************************************************************************)
EXTENDS ConfigStore

CONSTANT MaxAsked   \* bound on the answers the tab waits for

VARIABLES
  job,      \* of the server: none, queued, running, done
  tab,      \* state of the page
  asked     \* requests of the tab for the state, by number

tabVars == <<job, tab, asked>>
settingsVars == <<storeVars, tabVars>>

ASSUME TabAssumption == MaxAsked \in Nat \ {0}

Slots == 1..MaxAsked
Idle == [kind |-> "idle"]
NoModels == "none"
Active == {"queued", "running"}

(* public_config() has no secret.                                          *)
PublicConfig(values) == [values EXCEPT !.secret = NoSecret]
Snapshot == [config |-> PublicConfig(OnFile), job |-> job]

NoTab == [open |-> FALSE]
NewTab ==
  [open |-> TRUE, shown |-> [config |-> PublicConfig(Default), job |-> "none"], draft |-> PublicConfig(Default),
   edited |-> None, late |-> FALSE, dirty |-> FALSE, signature |-> Default.conn, saving |-> "no",
   generation |-> 0, loading |-> FALSE, queries |-> {}, models |-> NoModels, raced |-> FALSE]

-----------------------------------------------------------------------------
FreeSlot(s) == asked[s] = Idle /\ \A r \in Slots : r < s => asked[r] # Idle

(* refresh()                                                               *)
Ask(s, why) ==
  /\ FreeSlot(s)
  /\ asked' = [asked EXCEPT ![s] = [kind |-> "sent", why |-> why]]

Answer(s) ==
  /\ asked[s].kind = "sent" /\ Loads(Server)
  /\ asked' = [asked EXCEPT ![s] = [kind |-> "answered", why |-> asked[s].why, state |-> Snapshot]]
  /\ UNCHANGED <<storeVars, job, tab>>

shouldSyncSettingsDraft(dirty) == ~dirty

ResetModels(t) == [t EXCEPT !.models = NoModels, !.loading = FALSE, !.generation = @ + 1, !.raced = FALSE]

(* The effect of a state that arrived, or of a draft no longer dirty       *)
Synced(t) ==
  LET signed == [t EXCEPT !.signature = t.shown.config.conn]
      synced == [signed EXCEPT !.draft = t.shown.config]
  IN  IF ~shouldSyncSettingsDraft(t.dirty) THEN signed
      ELSE IF t.signature # t.shown.config.conn THEN ResetModels(synced)
      ELSE synced

(* The save is over once its refresh is, answered or not: the draft is     *)
(* what the page was last told, whatever was typed in the meantime.  Its   *)
(* connection may be another one than the draft's: someone else saved, the *)
(* refresh failed, or the draft was changed while it was saved; the models *)
(* of the draft's connection stay, as its signature was replaced before.   *)
EditFinished(t) ==
  LET clean == Synced([t EXCEPT !.dirty = FALSE, !.saving = "no"])
  IN  [clean EXCEPT !.raced = t.raced \/ (t.shown.config.conn # t.draft.conn)]

(* setState(): whatever the order of the answers                           *)
Deliver(s) ==
  /\ asked[s].kind = "answered"
  /\ LET t == Synced([tab EXCEPT !.shown = asked[s].state])
     IN  tab' = IF asked[s].why = "save" THEN EditFinished(t) ELSE t
  /\ asked' = [asked EXCEPT ![s] = Idle]
  /\ UNCHANGED <<storeVars, job>>

(* A failed fetch leaves the state; refresh() does not raise.  Fetches     *)
(* fail while the server is down, and otherwise count as faults.           *)
FailFetch(s) ==
  /\ asked[s].kind # "idle"
  /\ IF fernet[Server] = 0 THEN UNCHANGED budget ELSE budget.failures > 0 /\ Spend("failures")
  /\ tab' = IF asked[s].why = "save" THEN EditFinished(tab) ELSE tab
  /\ asked' = [asked EXCEPT ![s] = Idle]
  /\ UNCHANGED <<file, key, keys, lock, temp, fernet, put, held, entered, stale, backup, job>>

(* Mutant: only a running job is polled for.                               *)
PollsForRunning == tab.shown.job = "running"
hasActiveJobs == tab.shown.job \in Active

Poll ==
  /\ tab.open /\ hasActiveJobs
  /\ \E s \in Slots : Ask(s, "poll")
  /\ UNCHANGED <<storeVars, job, tab>>

OpenTab ==
  /\ ~tab.open /\ fernet[Server] > 0
  /\ tab' = NewTab
  /\ Ask(1, "open")
  /\ UNCHANGED <<storeVars, job>>

(* A capture is submitted; the state is asked for again.                   *)
Submit ==
  /\ tab.open /\ job = "none" /\ fernet[Server] > 0 /\ budget.jobs > 0 /\ Spend("jobs")
  /\ job' = "queued"
  /\ \E s \in Slots : Ask(s, "submit")
  /\ UNCHANGED <<file, key, keys, lock, temp, fernet, put, held, entered, stale, backup, tab>>

JobSteps ==
  /\ job \in Active /\ fernet[Server] > 0
  /\ job' = IF job = "queued" THEN "running" ELSE "done"
  /\ UNCHANGED <<storeVars, tab, asked>>

-----------------------------------------------------------------------------
(* change(), changeLlmSetting()                                            *)
Edit(v) ==
  /\ tab.open /\ v # tab.draft /\ budget.edits > 0 /\ Spend("edits")
  /\ LET t == [tab EXCEPT !.draft = v, !.edited = v, !.late = tab.saving # "no", !.dirty = TRUE]
     IN  tab' = IF v.conn # tab.draft.conn \/ v.secret # tab.draft.secret THEN ResetModels(t) ELSE t
  /\ UNCHANGED <<file, key, keys, lock, temp, fernet, put, held, entered, stale, backup, job, asked>>

LoadSaved ==
  /\ tab.open /\ tab.dirty /\ budget.edits > 0 /\ Spend("edits")
  /\ tab' = ResetModels([tab EXCEPT !.draft = tab.shown.config, !.edited = None, !.late = FALSE, !.dirty = FALSE])
  /\ UNCHANGED <<file, key, keys, lock, temp, fernet, put, held, entered, stale, backup, job, asked>>

(* One save at a time: a bound.  Of the history, `edited' is what was      *)
(* typed last and is neither saved nor discarded, and `late' whether it    *)
(* was typed while a save was under way.                                   *)
Save ==
  /\ tab.open /\ tab.saving = "no" /\ put.kind = "none"
  /\ put' = [kind |-> "sent", sent |-> tab.draft]
  /\ tab' = [tab EXCEPT !.saving = "sent", !.edited = IF tab.dirty THEN tab.draft ELSE None, !.late = FALSE]
  /\ UNCHANGED <<file, key, keys, lock, temp, fernet, held, entered, stale, budget, backup, job, asked>>

(* The answer to the request, after which the state is asked for           *)
SaveAnswered ==
  /\ tab.open /\ tab.saving = "sent" /\ put.kind = "saving" /\ lock # Server
  /\ put' = None
  /\ tab' = [tab EXCEPT !.saving = "refresh", !.edited = IF tab.late THEN @ ELSE None]
  /\ \E s \in Slots : Ask(s, "save")
  /\ UNCHANGED <<file, key, keys, lock, temp, fernet, held, entered, stale, budget, backup, job>>

(* The request failed, or the server went down with it.                    *)
SaveFailed ==
  /\ tab.open /\ tab.saving = "sent" /\ put.kind \in {"sent", "none"}
  /\ put' = None
  /\ tab' = [tab EXCEPT !.saving = "no", !.late = FALSE]
  /\ UNCHANGED <<file, key, keys, lock, temp, fernet, held, entered, stale, budget, backup, job, asked>>

-----------------------------------------------------------------------------
(* verifyAndDiscover()                                                     *)
Discover ==
  /\ tab.open /\ ~tab.loading /\ budget.queries > 0 /\ Spend("queries")
  /\ LET next == tab.generation + 1
     IN  tab' = [tab EXCEPT !.generation = next, !.models = NoModels, !.loading = TRUE, !.raced = FALSE,
                            !.queries = @ \union {[generation |-> next, conn |-> tab.draft.conn]}]
  /\ UNCHANGED <<file, key, keys, lock, temp, fernet, put, held, entered, stale, backup, job, asked>>

(* Mutant: a late answer is taken.                                         *)
AcceptsLate(request, current) == TRUE
acceptsLlmDiscoveryResponse(request, current) == request = current

Discovered(query, answered) ==
  /\ LET rest == [tab EXCEPT !.queries = @ \ {query}]
     IN  tab' = IF acceptsLlmDiscoveryResponse(query.generation, tab.generation)
                THEN [rest EXCEPT !.loading = FALSE, !.models = IF answered THEN query.conn ELSE NoModels]
                ELSE rest
  /\ UNCHANGED <<storeVars, job, asked>>

-----------------------------------------------------------------------------
SettingsInit == StoreInit /\ job = "none" /\ tab = NoTab /\ asked = [s \in Slots |-> Idle]

SettingsNext ==
  \/ StoreStep /\ UNCHANGED tabVars
  \/ Faults /\ UNCHANGED tabVars
  \/ \E s \in Slots : Answer(s) \/ Deliver(s) \/ FailFetch(s)
  \/ OpenTab \/ Poll \/ Submit \/ JobSteps
  \/ \E v \in Settings : Edit(v)
  \/ LoadSaved \/ Save \/ SaveAnswered \/ SaveFailed \/ Discover
  \/ tab.open /\ \E query \in tab.queries, answered \in BOOLEAN : Discovered(query, answered)

SettingsSpec == SettingsInit /\ [][SettingsNext]_settingsVars

(* A process that stopped is started again and finishes what it does under *)
(* the locks, the interval of the page ticks, requests are answered or     *)
(* fail, jobs make progress.                                               *)
ServerGoesOn ==
  \E p \in Processes : StartWithKey(p) \/ CreateKey(p) \/ WriteKey(p) \/ Migrate(p) \/ Replace(p)

FairSettingsSpec ==
  /\ SettingsSpec /\ WF_settingsVars(ServerGoesOn /\ UNCHANGED tabVars) /\ WF_settingsVars(Poll) /\ WF_settingsVars(JobSteps)
  /\ \A s \in Slots : WF_settingsVars(Answer(s)) /\ WF_settingsVars(Deliver(s))

-----------------------------------------------------------------------------
Reasons == {"open", "poll", "submit", "save"}
States == [config : Settings, job : {"none", "done"} \union Active]
Tabs ==
  [open : {TRUE}, shown : States, draft : Settings, edited : Settings \union {None}, late : BOOLEAN, dirty : BOOLEAN,
   signature : Connections, saving : {"no", "sent", "refresh"}, generation : Nat, loading : BOOLEAN,
   queries : SUBSET [generation : Nat, conn : Connections],
   models : Connections \union {NoModels}, raced : BOOLEAN]

SettingsTypeOK ==
  /\ file.form \in {"absent", "json"} /\ file.values \in Settings /\ file.seal \in {NoSeal, OldSeal} \union 1..keys
  /\ key \in {Absent, Empty} \union 1..keys /\ fernet \in [Processes -> 0..keys]
  /\ lock \in Processes \union {Free} /\ (temp # None => lock \in Processes)
  /\ put.kind \in {"none", "sent", "loaded", "saving"} /\ held.kind \in {"none", "open"}
  /\ tab = NoTab \/ tab \in Tabs
  /\ \A s \in Slots : asked[s] = Idle \/ asked[s].why \in Reasons

(* What is typed into the settings page stays there until the server has   *)
(* saved it or it is discarded, whatever the polling brings meanwhile, and *)
(* after a save that failed.  Not so what is typed while a save is under   *)
(* way: the end of the save takes it away (App.jsx:1028), unless the save  *)
(* failed (workbench.js:117-119, App.jsx:1018-1028).                       *)
EditsSurvive == tab.open /\ tab.edited # None /\ ~tab.late => tab.dirty /\ tab.draft = tab.edited

(* The models offered are those of the connection the page shows, however  *)
(* late they were answered, unless the last save ended on another          *)
(* connection than the draft had: someone else's, the one before it as the *)
(* refresh failed, or the one that was sent and edited since               *)
(* (workbench.js:104-106, App.jsx:1028-1031, 1054-1071).                   *)
ModelsOfConnection == tab.open /\ tab.models # NoModels => tab.models = tab.draft.conn \/ tab.raced

(* The settings page shows what was typed into it, and the models of the   *)
(* connection it shows (App.jsx, workbench.js).                            *)
TabTruthful == SettingsTypeOK /\ EditsSurvive /\ ModelsOfConnection

ShownActive == tab.open /\ tab.shown.job \in Active

(* A job the page shows as under way is shown as over in the end: also     *)
(* when answers overtake each other or fail, unless a fault left no key    *)
(* (workbench.js:143-176).                                                 *)
ShownJobSettles == ShownActive ~> (~ShownActive \/ key <= 0)

-----------------------------------------------------------------------------
(***************************************************************************)
(* The inductive invariant behind TabTruthful.                             *)
(***************************************************************************)
Asked ==
  {Idle} \union [kind : {"sent"}, why : Reasons]
    \union [kind : {"answered"}, why : Reasons, state : States]

(* Requests are of a tab that is open.                                     *)
TabTypes ==
  /\ job \in {"none", "done"} \union Active
  /\ tab \in {NoTab} \union Tabs
  /\ asked \in [Slots -> Asked]
  /\ \A s \in Slots : asked[s] # Idle => tab \in Tabs

(* What was typed is the draft until a save takes it away.                 *)
TypedOf(t) ==
  /\ t.edited # None /\ (~t.late \/ t.saving # "no") => t.dirty /\ t.draft = t.edited
  /\ t.saving = "refresh" => t.edited = None \/ t.late

(* A draft that was not edited is the configuration shown.                 *)
DraftOf(t) ==
  /\ t.signature = t.shown.config.conn
  /\ ~t.dirty => t.draft = t.shown.config
  /\ TypedOf(t)

(* The refresh of a save is asked for once, while the save is not over.    *)
SaveAsked(s) == asked[s] # Idle /\ asked[s].why = "save"
SavesAsked ==
  \A s \in Slots : SaveAsked(s) => tab.saving = "refresh" /\ \A r \in Slots : SaveAsked(r) => r = s

(* An answer that would still be taken is to a query of the draft shown.   *)
QueriesOf(t) ==
  /\ \A query \in t.queries :
       /\ query.generation <= t.generation
       /\ query.generation = t.generation => query.conn = t.draft.conn \/ t.raced
  /\ t.models # NoModels => t.models = t.draft.conn \/ t.raced

TabInv == TabTypes /\ SavesAsked /\ (tab.open => DraftOf(tab) /\ QueriesOf(tab))
=============================================================================
