# PCAP Hunter: a TLA+ model of its jobs, records, analysis and pages

PCAP Hunter turns packet captures into cases, analyses and evidence, and shows
them to analysts, clients and agents. This directory models the parts of it
that decide something: where several processes, threads, users or messages act
on shared state, and where a chain of rules turns packets into a verdict. TLC
checks the models on small instances; TLAPS proves the safety of the queue, the
agent spool, the evidence pages and the feed, the records of cases, API keys and
agents' credentials, the settings, a run of the pipeline, what a session of
the workbench shows, what is concluded of packets, DNS lines and clues, and the
report written of it, for every instance. The reference is the code under `src/`.

Contents: [1 The system](#1-the-system), [2 Modules](#2-modules),
[3 Runs](#3-runs), [4 Fairness](#4-fairness), [5 Proofs](#5-proofs),
[6 What the code does against its own words](#6-what-the-code-does-against-its-own-words),
[7 Further hazards](#7-further-hazards), [8 Not modelled](#8-not-modelled),
[9 Plan](#9-plan).

## 1. The system

| Part | State it keeps | Operations | What is hard about it |
|---|---|---|---|
| Job queue (`app/api/queue.py`, `app/ui/background_analysis.py`) | rows of the `jobs` table; futures in the memory of each server; a process pool per server | `enqueue` (count, insert, dispatch), `_worker_run` (guard, claim, stages, persist, complete, fail), `recover_stale_running_jobs` | two or three servers share one table and each has a pool of its own; a future does not survive its process; the heartbeat is the only sign of life |
| Case store (`app/database/repository.py`) | cases, analyses, indicators, jobs, snapshots, notes, tags in one SQLite file | `save_analysis`, `update_case`, `delete_case`, the conditional and unconditional updates of a job | every call is its own transaction: all decisions made on a row that was read before are check-then-act |
| Request handlers (`app/api/routers`, `app/web/app.py`) | local variables between two `await`s or two transactions | upload one capture, upload a batch, regenerate a report, delete a case, notes, settings | each step may fail after an earlier one committed; error paths must undo it |
| Retention sweep (`app/api/gc.py`) | none | hourly: old job rows, rows of cases that are gone, old files | runs beside everything else |
| Agent spool (`app/agents/spool.py`, `submission.py`) | `inbox/<job>/`, `results/<job>.*`, the agent job rows | submit with an idempotency key, dispatch, collect, cancel | three parties, two directories, no lock; the launcher does not see the database |
| Launcher (`app/agents/supervisor.py`) and parser container (`worker.py`) | one container at a time | recover, scan, run with heartbeat and budget, remove, receipt, publish | killed at any point with a container running; the engine may refuse to remove it |
| Agent evidence (`app/agents/evidence.py`, `provenance.py`) | append-only snapshots; opaque cursors | pages of records, cut at 1 MiB | a cursor outlives new snapshots |
| Agent registry (`app/agents/registry.py`, `routes.py`) | agents, grants, budgets, idempotency records, audit | create, revoke, charge, submit, draft | quotas are counted over rows that other operations delete |
| Indicator feed (`app/api/feed.py`, `app/api/routers/iocs.py`) | none; the cursor is an offset the client keeps | one grouped, ordered query per page | rows move while a client pages |
| Report cache (`app/api/routers/cases.py`, `app/reports`) | one PDF file per case | render, publish, serve while fresh | freshness compares a file time with a column |
| API keys and usage (`app/api/key_*.py`, `usage_tracker.py`, `rate_limiter.py`, `routers/admin.py`) | keys, counters, a sliding window in memory | authenticate, count, flush, administer | a flush that fails half way; a clock read outside the lock |
| Settings (`app/utils/config_manager.py`, `app/web/app.py`, `app/ui/config_ui.py`) | one JSON file and one key file | load, migrate, merge, save, encrypt | several writers and one secret |
| Pipeline (`app/pipeline/runner.py`, `progress.py`, `carve.py`, `state.py`, `app/main.py`) | files and features of one analysis | stages in threads, carving with a watchdog, skip flags, trackers | a stage that raises while others run; a click that restarts the script |
| Detectors (`pyshark_pass.py`, `dns_analysis.py`, `beacon.py`, `ja3.py`, `yara_scan.py`, `app/analysis`, `app/threat_intel`) | none | rules over packets, log lines and clues | order, ties, caps and thresholds |
| Enrichment (`osint.py`, `osint_cache.py`, `rdns_cache.py`, `network_utils.py`) | two caches | ask providers, look up names | several workers, one cache; failures that look like absence |
| LLM client (`app/llm`) | none | facts, prompt within the context window, sections, warnings | truncation; a failure must not read as "all clear" |
| Batches and dashboard (`pipeline/batch.py`, `app/web/state.py`) | none | merge, cut, rank, draw | lists are cut twice; totals and samples are mixed |
| Workbench (`app/main.py`, `app/ui`) | `st.session_state` | load, restore, save, regenerate, show | the script runs again after every click |
| Browser client (`prototype-friendly-ui`) | a tab | poll, edit a draft, save | answers overtake each other |

How they interact: the API process and the workbench each own a job queue over
the same SQLite file (`docker-compose.yml` starts both); the API process also
runs the agent broker thread. The launcher is a third process that shares only
the two spool volumes with the API. The Streamlit application calls the
repository directly, and can run the pipeline itself. All of them read one
settings file.

### What makes each part correct

* Queue: a claim is a compare-and-set, so a cancelled job never runs; a done
  job has its analysis; a refused upload leaves nothing; a row only moves along
  a fixed graph; the depth is overshot by no more than one row for each further
  server; nothing active is forgotten unless a process died or a database call about
  that very job raised where nobody catches it.
* Deletion: it cascades only over rows that have settled or that it never saw,
  and whatever a worker saves afterwards is collected.
* Readers: a client that follows evidence cursors gets one snapshot, whole and
  in order, whatever is saved meanwhile; the feed loses nothing that was not
  sighted again; the PDF of a deleted case does not stay.
* Records: a click changes what it asks to change and deletes what its user saw.
* Spool: no result is published, and no job is done, while its parser may be
  alive; receipt before result, removal and evidence before completion; a
  cancellation is final; every accepted capture settles through deaths of
  either side.
* Keys and agents: no request is admitted beyond its rate, lost from the count,
  or admitted for good after a revocation; charges, receipts, grants and audit
  agree.
* Pipeline: each stage is accounted for once, nothing outlives the run, and the
  run ends; a session's result is of one pass.
* Verdicts: totals survive sampling; more evidence never makes a verdict milder,
  nor do more packets while beacons keep their scores; no alarm rests on what the
  rules say must not raise one.
* Report: a model is told that nothing was found only if nothing that ran found
  anything (what failed is not told apart: section 6), the prompt is cut no more
  than it must be, and an existing report is not blanked.
* Views: what is on the screen is about the captures it says it is about, and
  what the lists leave out weighs no more than what they show.
* Settings: no secret is lost by a race or a crash; the page keeps what was typed
  until it is saved or discarded, save what is typed during a save.

`PROJECT.json` lists the hazards behind these, each at its line of code, with
the properties that would show it going wrong; section 7 has more.

## 2. Modules

| Module | Models |
|---|---|
| `JobTable` | the statements of `repository.py` on the `jobs` table, one operator per SQL statement; shared by queue and spool |
| `JobLifecycle` | the abstract specification: each job's status follows a graph of moves, a parameter; rows may be removed |
| `JobQueue` | the in-process queue: submission handlers, pool processes, case deletion, sweep, deaths and start-up recovery of any number of servers |
| `AgentSpool` | agent captures: API handlers, broker thread, launcher, the two directories, deaths of both processes |
| `CaseStore` | cases, analyses and evidence snapshots with their writers: ingest, report jobs, deletion, the sweep |
| `EvidencePager`, `IocFeed`, `ReportCache` | clients of the evidence API, of `GET /iocs.json`, and of the PDF of a case; each extends `CaseStore` |
| `CaseReads` | the three readers composed over one store |
| `CaseBook` | the records of a case (row, tags, notes) and all that write them |
| `KeyAccess` | API keys: authentication, window, counters, flush, administration |
| `AgentAccess` | agent credentials: admission, budgets, audit, submissions, drafts' grants |
| `PipelineRun` | one job of the pipeline with its threads, child and watchdog |
| `SessionRun` | the run a Streamlit session does itself, pass by pass |
| `FlowRules`, `DnsRules` | the flow table and the DNS log, and what is concluded from each |
| `Findings` | the two composed with clues of other detectors: correlation and ATT&CK severity |
| `Enrichment` | providers and host names asked by workers that share a cache |
| `Narrative` | the report of a language model on top of `Enrichment` |
| `Detections` | YARA, JA3 and beacon ranking of one capture (operators only) |
| `BatchMerge` | analyses saved, swept, opened alone or merged, on top of `Detections` |
| `Dashboard` | the dashboard's numbers, on top of `BatchMerge` |
| `Workbench` | one Streamlit session: what it shows, loads, saves and regenerates |
| `ConfigStore` | the settings and key files under three writers |
| `SettingsTab` | a browser tab on top of `ConfigStore`: polling and the settings page |
| `MC…` | instances for TLC, and, where a run puts components side by side, what it asks of them together |
| `JobQueueProofs`, `AgentSpoolProofs`, `CaseProofs`, `AccessProofs`, `PagesProofs`, `RunProofs`, `FindingsProofs`, `ViewsProofs` | inductive invariants and theorems: `CaseProofs` of `CaseReads` and of `CaseBook`, `AccessProofs` of `KeyAccess` and of `AgentAccess`, `PagesProofs` of `SettingsTab` and of `Workbench`, `RunProofs` of `PipelineRun` and of `SessionRun`, `FindingsProofs` of `Findings` and of `Narrative`, `ViewsProofs` of `Detections`, `BatchMerge` and `Dashboard` |

A run that asks questions of parts which never meet within one behaviour
chooses at its start which of them moves: the variable `focus` of the MC
modules. It restricts the choice of actions and never what an action does.

### `JobQueue`: state and actions against the code

An action is at most one committed transaction, so every window between two
transactions of a handler is a state.

* `jobs`, `cases`, `analyses` are the tables. Job rows keep the status, whether
  the heartbeat is younger than 120 s, and whether `finished_at` is set.
* `request` is the program counter of each submission handler. `SubmitOpen`
  creates the case (`submit_pcap`, `upload_pcaps`, `submit_background_analysis`)
  or checks the analyses to rewrite (`submit_background_report`);
  `SubmitCount`, `SubmitInsert`, `SubmitDispatch` are the three parts of
  `enqueue`; `SubmitAbort`, `SubmitRollback` the error paths. Upload handlers
  are coroutines that await only while reading a file (`LoopFree`); Streamlit
  sessions are threads.
* `pending` are the futures of each executor, `broken` an executor that lost a
  process, `worker` the pool processes: `WorkerTake` (guard read), `WorkerClaim`
  (`start_job_if_queued`), `WorkerBeat` (stage updates), `WorkerLoad`,
  `WorkerPersist`, `WorkerPersistFails`, `WorkerError`, `WorkerComplete`,
  `WorkerFail`.
* Database calls may raise. Where the code catches it, that is an error path. Where
  it does not, the row is left behind: `WorkerTakeRaises`, `WorkerClaimRaises` (the
  guard and the claim stand before the `try`, `queue.py:533-551`),
  `WorkerFailRaises` (the write of the error path itself, 592),
  `SubmitInsertRaises` and `SubmitDispatchRaises` (the statements of `enqueue`),
  `DeleteRaises`; and `SubmitRollbackFails`, for `delete_case` answers `False` when
  its transaction fails and no handler looks (`pcaps.py:36-39`,
  `repository.py:405-407`). `faulted` are the jobs lost this way, at most
  `MaxFaults`; a failed rollback is not bounded.
* `deleter` is `DELETE /cases/{id}`; `DirectDelete` the Streamlit page, which
  deletes without looking at jobs.
* `GcOldJobs`, `GcOrphans` are the sweep. `GcOldJobs` may take any set of rows
  with `finished_at`, which stands for every retention age.
* `PoolBreaks`, `HostCrash`, `HostBoot`, `HostRecover`, `HostUp` are deaths and
  starts. Recovery selects stale rows in one step and fails them one by one.
* `HeartbeatAges` lets 120 s pass for one row. It may hit a live worker: stages
  may take longer than that and write no heartbeat while they run.

### `AgentSpool`: state and actions against the code

* `inbox[j]` is the content of `inbox/<job>/`: the folder, the request (written
  last) and `cancel.json`. `output[j]` is `results/<job>.json`, abstracted to
  what `collect` makes of it: a result it can accept, bytes it refuses, or the
  launcher's own `{"ok": false}`. `receipts` and `beats` are the other two
  files.
* `submit`, `cancel`, `delete` are the handlers; each is split where it commits
  or writes a file. Submissions may be retried with their key at any time.
* `broker` is one pass of `collect`: the job list is read once, each job is
  looked at again (`BrokerLook`), dispatched again, its heartbeat copied to the
  row; then the results are listed, and each read, judged, saved, completed and
  cleaned in separate steps. `BrokerAborts` is the `except` of `broker_loop`.
* `supervisor` is `serve` and `run_job`; `SupervisorRemove` is the `finally`
  block. Every death leaves the container running unless the code removed it.
* `ResultsVanish`: the results volume is a tmpfs and is empty again when
  neither process mounts it.

One submission makes one case and one job, so a job id also names its case and
its analysis.

### `CaseReads`: state and actions against the code

* `analyses` keeps of a row what readers tell apart: its timestamp, what the
  manifest of a snapshot depends on (how many report runs added a stage, how
  many a warning) and whose report text it has. `StampAnalysis` and
  `PersistAnalysis` are two steps of `_persist_analysis`: `analyzed_at` is
  taken when the object is made, the row is saved later. `LoadForReport` and
  `SaveReport` are the two ends of `_run_llm_report_job`, with the model in
  between. Whether those jobs may run is the business of `JobQueue`; here
  writers meet in every order.
* `snapshots[a]` is append-only; `Capture` adds a manifest unless it is there.
* `pager` is a client and its open request: `AskPage` (`analysis_ref`),
  `ReadManifest`, for analyses older than the tables `LoadLegacy` and
  `CaptureLegacy`, then `CountRows` and `ReadRows` (the two SELECTs of
  `_page`, and the size limit). The signature of a cursor, which binds client,
  analysis, filters, snapshot and offset, is abstracted to the client keeping
  them.
* `feed` is a client of the feed; a page is one SELECT, `FetchPage`.
* `reader` is a request for a PDF: `LoadCase`, `LoadAnalyses`, `LookAtCache`,
  `WritePdf` (fixes the mtime), `PublishPdf` (the rename), `ServePdf`.
* `purges` counts, as history, the deletions that touched a case.

### `CaseBook`: records and their writers

* `records`, `labels`, `vocabulary`, `notes`, `serial` are the tables `cases`,
  `case_tags`, `tags`, `notes` and SQLite's counter of note ids. `UpdateCase`
  writes a whole row and replaces all tags, as `update_case` does with an object
  that was read earlier; only closing and title writers therefore disturb each
  other.
* `page[s]` is the Cases page of a browser session. `Press` is a click; the pass
  it causes is `ReadRow`, `ReadTags`, `Act`: three transactions in between of
  which anybody may write. Inputs without a key are identified by label and
  default (`Kept`): a default that changed in the store drops what was typed.
* `UpkeepReads`, `UpkeepWrites` are a background run that moves its case to
  another status; `PostNote`, `InsertNote` the React client; `SendDraft`,
  `AppendDraft` an agent's draft with its request id; `ClearAll` "Clear Cases".
* `touched` is history: whose copy has become stale. `title` stands for title,
  description and severity.

### `KeyAccess`: keys, window and counters

* `LookUp`, `ReadClock`, `CheckLimit`, `Record` are `authenticate`: the row is
  read, the clock is read, the window is entered under its lock, and the use is
  counted under another. `window` may be out of order by up to `MaxDelay`, for a
  thread may wait between clock and lock.
* `FlushTake`, `FlushIncrement`, `FlushTouch`, `FlushRestore` are `flush` of
  `UsageTracker` key by key; either write may fail and puts back what it did not
  write. `ShutDown` flushes; `Crash` loses what was not flushed (`lost`).
* `AdminRevoke`, `AdminReset`, `AdminPatch`, `AdminCount` are the handlers of
  `routers/admin.py`, which look whether a full key is left before or after
  they write; `TabRevoke` is the workbench, which does not look.
* An expiry may be given with an offset (`aware`). `AdminPatch` commits it like any
  other, and from then on every comparison with it raises (`Raises`): in the answer
  to the administrator, who is warned of nothing, and in each request that uses the
  key. `LockedOut` is that no key of full scope can be used, whatever counts as
  active.
* `served`, `admitted`, `lost`, `culprit` are history for the properties.

### `AgentAccess`: credentials of agents

`Admit` is one `BEGIN IMMEDIATE`: the grant is checked and two buckets are
charged, or neither (`Refused`). `BeginUpload` takes the only upload slot,
`Submit` is the transaction of `submission.py` that repeats the checks, makes the case and
remembers the receipt; `Audit` and `Answer` follow. `ServerDies` may fall
anywhere. Time is a number of ticks, so many to a minute and a day.

### `PipelineRun`: one job with its threads

* `main` is the worker, `thread[s]` each stage thread: the parsers (`pyshark`,
  `zeek`) side by side, then the analyses (`dns`, `tls`, `beacon`, `carve`).
  A thread runs, closes its phase handle, records what it leaves and ends, or
  raises; each progress write may raise in whichever thread does it (`Raises`,
  at most `MaxFaults` times).
* `child`, `timer` are the carving tshark and its watchdog: `WatchdogFires` and
  `WatchdogKills` are apart, so the child may exit in between (`ChildExits`);
  `CarveReaps` reads the exit status, `CarveChecks` the flag of the watchdog.
* `features` and `draft` tell whether flows exist and whether `_features_to_list`
  has turned sets into lists; `counted` is the progress counter, capped at ten.
* `Assemble`, `ScanYara`, `EnrichOsint`, `WriteReport`, `Persist`, `Complete` are
  the rest of `_worker_run`.

### `SessionRun`: a run in the session

Each pass of the script is cut where Streamlit may cut it. `Rerun` abandons a
pass and starts the next, with the skip flags and whatever the last one stored;
`PhaseEnds`, `PhaseFails`, `PhaseHasNoInput` are the phases of a capture under a
tracker; `StoreFeatures` … `MapAttack` the writes into the session one after
the other; `WriteText`, `StoreReport`, `EndRun` the report. `shown` records for
each part the pass it is of. `Extract` and the start of a background run end
what the module follows.

### `FlowRules`, `DnsRules`, `Findings`

* `wire` and `log` are what was read so far. `flows` is built as
  `parse_pcap_pyshark` builds it (key, first and last, counters, samples up to a
  cap), and stands beside the wire it is compared with.
* `Uploads`, `PortAnomalies`, `Window`; `Dga`, `Tunnels`, `FastFlux`, `Blamed`
  are the detectors, with their tables of weights and thresholds in
  hundredths. Entropy and ratios of a label are given with it, for the
  detectors use nothing else of its letters.
* Lists are cut as in the code: generated names and tunnels (`DgaDetections`,
  `TunnelDetections`), sources of failing queries (`Listed`), odd ports, the flows
  whose ports the mapping looks at. Names and domains with one score stand in the
  order in which Python's set had the names, any order at all (`SetOrder`).
* `Findings` merges both with `evidence` (clues of OSINT, beacons, YARA):
  `_collect_ip_signals`, tiers, boosts and verdict of `correlation.py`, and the
  severity of `attack_mapping.py`. `Learn` replaces a clue by a stronger one of
  its kind, which is what "more evidence" means in the properties. The scores of
  beacons are of the flows: with every train of packets they are ranked anew
  (`Reranked`), any score or none for each destination, for a packet may break the rhythm
  of a flow. `BeaconsHold` says of a step that none of them fell.

### `Enrichment` and `Narrative`

* `job[w]` is the OSINT stage of a worker: `BeginOsint` picks the busiest
  addresses, `Ask` one indicator with all its configured providers, `ReadCache`,
  `ResolveOne`, `StoreNames` the host names. Two workers share `cache` only.
  `seen` in a cache entry is history: when the resolver really said so.
* A job never gets an answer from the OSINT cache, since `_get_cache` takes its
  switch from the Streamlit session of the calling thread and a worker has none.
* `story[w]` is the report: `BeginNarrative` computes the facts (`Risk`,
  `Facts`), `Fitted` the cut of the prompt by bisection as
  `context_window.py` does it, in bytes (nothing is cut for an unlimited window);
  `WriteSection`/`CloseReport` write section by section for local models,
  `WriteWhole` at once for the others and for an unlimited window. What raises outside
  the request of a section loses the sections before it. `Derivations` are the
  parts the stage computes first (flows, ports, correlation, JA3):
  each may raise, which is only logged (`failed`), and its part is then empty.
  `SaveReport` keeps text and warnings, or the older text. `Regenerate` is the
  report job.

### `Detections`, `BatchMerge`, `Dashboard`

`SaveAnalysis` computes what one capture saves; `Restore` opens one or several
analyses (`restore_analyses_to_session`, `merge_batch`), `SweepRun` removes the
logs of one meanwhile; `OpenDashboard` computes the numbers of `web/state.py`.
These are functions over a chosen set of captures; the state is which of them are
saved, swept and on display. `CaptureTypeOK` says what a worker hands over of a
capture. Scores and times are numbers, and as in `batch.py:231` a time of zero
is no time. Everything the code sorts and cuts is a `Listing` of a set by an
order, or `Picked` from a sequence by its positions.

### `Workbench`: what a session shows

A click sets `pass`; `Rerun` is one pass of the script, `Tick` the progress
fragment that comes round every two seconds. Buttons under the progress panel
act only when the pass reaches them (`Steady`). `session` keeps the evidence on
display, the marker of the analysis it is of, the report, the derived views and
the run it follows. `Start`, `RerunReport`, `Load`, `QuickSave`, `AddCurrent`,
`CloseOrReopen`, `Delete`, `Reload` (of the browser, which forgets the session
and recovers a run from the database) are the clicks; `AnalysisEnds`,
`ReportEnds`, `Fails` the workers, one state for queued and running.

### `ConfigStore` and `SettingsTab`

* The key file is created (`CreateKey`) and written (`WriteKey`) in two steps,
  and the settings file replaced through a temporary one (`BeginSave`,
  `Replace`) under a lock. `Migrate` re-encrypts what an older version left.
  `PutLoad`, `PutSave` are `PUT /settings`, which loads and saves in separate
  lock scopes; `SessionLoad`, `SessionSave`, `SessionReset` the Streamlit page.
* `Crash` may fall anywhere; a crash between `CreateKey` and `WriteKey` leaves an
  empty key file, which nothing repairs.
* `tab` is the page: `asked` its open requests for the state, answered
  (`Answer`) and delivered (`Deliver`) in any order; `Synced` is
  `syncFromState`; `Discover`/`Discovered` the model list with its generation
  counter; `Edit`, `Save`, `SaveAnswered` the draft. `Poll` runs while the job
  shown is under way. `edited` is history: what was typed last and is neither saved nor
  discarded, whatever the draft has become; `late` says that it was typed while a save
  was under way.

## 3. Runs

| Run | Instance | Shows |
|---|---|---|
| `queue_report` | Streamlit upload and report regeneration, two servers, one death, one job whose calls raise | `TypeOK`; `DoneImpliesEvidence`; `ClaimedJobsStayClaimed`; `SeenJobsSettledAtDelete`; `LifecycleRefined` (the queue implements `JobLifecycle`); `QueueSettles` (jobs settle, orphans are collected) |
| `queue_uploads` | an upload of two captures and one of one at two servers, deletions, no death, one job whose calls raise, depth one | `StrandedOnlyByFailure`, `QueueOvershootBounded`, `RefusedUploadLeavesNothing` |
| `spool_case` | one capture, retried, cancelled, deleted; two faults | `ParserGoneBeforeResult`, `ReceiptReady`, `CompletionAfterRemoval`, `LifecycleRefined`, `SpoolSettles` (jobs settle, containers go) |
| `case_reads` | one case, an old and a new analysis, two report jobs, one client of each kind; two analysts, a client, an agent, a run and the sweep on the records | `PagesWhole`, `FeedHonest`, `RecordsConsistent`, `CaseEditsMeant`, `ReadersSettle` |
| `key_access` | two keys, two request threads, two administrators, two failing writes; one agent with two requests | `UsageKept`, `RateBound`, `RevocationsHold`; `BudgetsExact`, `SubmissionsStand` |
| `pipeline_run` | jobs with all stages and with some, hosts with and without tools, two failing writes; a session with up to two captures and three clicks | `RunAccounted`, `SessionShowsOneRun`, `RunsEnd` |
| `conclusions` | up to four trains of packets, or three batches of DNS lines, or three of both and clues; or two workers and two addresses on one cache, evidence up to three rows, prompts up to sixty bytes | `FlowsExact`, `DnsGrounded`, `VerdictsSound`; `AnswersStand`, `PromptCutLeast`, `ReportHonest` |
| `workbench` | one session, three captures, two cases, three analyses, two runs, five clicks | `ShownIsOneAnalysis`, `RunsReachTheirCase` |
| `interface` | the server, the workbench and a tab on two files, four budgets; or up to three of six kinds of captures, opened alone, merged in any order, or on the dashboard | `SecretsKept`, `TabTruthful`, `ShownJobSettles`; `BatchHonest`, `DashboardHonest` |
| `merged_yara` | the instance `MCViews` | finds a payload that YARA matched and the merged view does not show: section 6 |
| `flow_times` | the instance `MCFindings` | finds a flow that ends before its latest packet: section 6 |
| `lockout_unwarned` | the instance `MCKeyAccess` | finds the last key locked out by an expiry with an offset, and nobody warned: section 6 |

Each property with a general name is the conjunction of the named statements
before it in its module, each with a comment of its own:

| Property | Conjoins |
|---|---|
| `PagesWhole` | `PagesInOrder`, `CompleteUnlessPurged` |
| `FeedHonest` | `FeedMissesOnlyResighted`, `QuietFeedExact` |
| `CaseEditsMeant` | `OnlyAskedChanges`, `DeletesNoteMeant`, `DeletedWhenWarned` |
| `ReadersSettle` | `PagingEnds`, `DeletedReportsGo`, `OrphansSwept` |
| `UsageKept` | `UsageNeverLost`, `UsageExact`, `LastUseKept` |
| `BudgetsExact` | `ChargedAsLetIn`, `AnswersAudited` |
| `SubmissionsStand` | `SubmittedIsGranted`, `SubmittedOnce`, `QuotaHolds` |
| `RevocationsHold` | `LockoutWarned`, `RevokedKeysFallSilent`, `GoneSubmitNothing` |
| `RunAccounted` | `StagesAccounted`, `AnalysesInOrder`, `ProgressExact`, `CarveComplete`, `NothingLeftRunning`, `FailuresTolerated` |
| `SessionShowsOneRun` | `ShownOfOnePass`, `SkipsHonoured`, `OverallWithin`, `ReportOnShown` |
| `FlowsExact` | `FlowTotalsExact`, `UploadsExact`, `C2PortsListed`, `BusyFlowsReported`, `WindowHonest` |
| `DnsGrounded` | `WhitelistSpares`, `NxdomainBlamed`, `FluxNeedsTwoAddresses`, `TunnelsHaveNames` |
| `VerdictsSound` | `CriticalNeedsTwoSignals`, `TunnelsCorrelated`, `EvidenceNeverLowersVerdict`, `SeverityNeverFalls` |
| `ShownIsOneAnalysis` | `MarkerHonest`, `ReportOfShown`, `RegeneratesShown`, `DerivedFromShown` |
| `RunsReachTheirCase` | `InProgressHasJobs`, `OpenedWhenComplete`, `SavingKeepsDisplay`, `FinishedRunsShown` |
| `AnswersStand` | `BusiestAsked`, `AnswersKept`, `FailuresTold`, `NoHostNameLost`, `HostNamesStay`, `HostNamesRecent` |
| `PromptCutLeast` | `PromptFits`, `CutIsLeast` |
| `ReportHonest` | `NoFalseAllClear`, `RiskIsWorst`, `SectionsKept`, `ReportOrWarning`, `ReportNotBlanked` |
| `BatchHonest` | `MostSharedListed`, `RangeTight`, `StrongestDetectionsShown`, `AlertsAddUp`, `VerdictsKept`, `MalwareOfEveryLogShown`, `ReportsUnderTheirNames`, `GapsAreReal`, `WorstRuleDecides` |
| `DashboardHonest` | `ReplayKeepsEnds`, `CompleteMeansAll`, `SankeyBalanced`, `BusiestOnMap`, `ChartsCountAll`, `RiskHasReason` |
| `SecretsKept` | `SecretsReadable`, `SecretKept` |
| `TabTruthful` | `EditsSurvive`, `ModelsOfConnection` |

Four of them excuse what the code does: `LockoutWarned` (of `RevocationsHold`) is about
keys whose expiries name no offset, `WindowHonest` (of `FlowsExact`) bounds a window from
outside and fixes it for packets in order, `SeverityNeverFalls` (of `VerdictsSound`) is about
steps in which beacons keep their scores, and `UsageExact` (of `UsageKept`) about uses
no write of which failed. The three violation runs check `YaraMatchesAggregated`,
`FlowTimesExact` and `LockoutAlwaysWarned`, which have no such excuse.

Deadlock is checked for the spool, whose broker never rests, and for `conclusions`, whose
MC module adds an idle step for a session that is over and a capture that has been
read. All others may come to rest: a queue without jobs, a store nobody reads.

### Bounds, and why they are enough

* **Queue, spool.** Two or three jobs and two servers. `queue_report` has a pool process
  at each, one death and one job whose calls raise: a row failed by recovery under
  a live worker needs two servers and a start, a lost claim one worker and one deleter.
  `queue_uploads` asks what may go wrong without any death. Both uploads may be at one
  server or at two, and the depth is one, so the second server's count between the
  count and the insert of the first overshoots it by one, and a third row is
  refused; the pool is at the API, which is enough for a worker beside a rollback.
  The two jobs of its first upload are interchangeable and form a symmetry set. In
  the spool a leftover container needs one death of the launcher and its return, and
  with a second death the API may die around it.
* **Readers.** They never meet except through the store, so each behaviour has
  readers of one kind. The analysis without a snapshot takes the capture path
  of `manifest()`; the two report jobs on it can save the same contents twice,
  also after a deletion. Three records of 1, 2 and 1 units meet a response limit
  of 2, so pages are cut by limit and by size, and the other analysis has a
  record of 3 that must be refused. The feed has four indicators, one seen by
  both analyses, and pages of two. `MaxTime` bounds the clock.
* **Records.** Two sessions; six budgets, each with the clicks and writers one
  interplay needs (form and form, form and run, form and note, two notes of one
  page, drafts, a cleared database). Two titles, one tag and a blank.
* **Keys.** `Window` 2, `MaxDelay` 1, `MaxTime` 4: the window passes once and an
  entry may be late by half of it. `MaxUses` 3 per key, two failing writes: one
  per write of a flush. **Agents.** A minute of one tick, a day of two, so a day's quota
  runs over a minute's; two requests per minute, three per day, one submission; one failed
  audit or upload (`MaxSlips`).
* **Pipeline.** Five option sets, four captures, three hosts; two writes that raise,
  so that one thread may raise while another is already failing. A session has
  three clicks: start, cut, cut again. The tracker's stages are atomic there.
* **Findings.** Thresholds stay as they are where a train or batch carries a
  count; list lengths are scaled (`MaxPortReports`, `FAST_FLUX_TOP_DOMAINS`,
  `TUNNELING_MIN_SUBDOMAINS`, the steps that score the number of subdomains and
  addresses; one generated name, two failing sources and the ports of two flows,
  which three batches or four trains exceed, and one tunnel, which they do not: a
  second one takes four names). In mixtures a beacon has one of two scores, or none, after every train, so
  that a score may fall as well as rise. Three packets of one flow in two orders meet every branch of the
  window; four trains give two flows in both directions.
* **Workbench.** Two cases and three analyses let a marker name another case, a
  batch and an older analysis of the same case; five clicks reach load, start,
  leave, save, and open.
* **Narrative.** Any of the four derivations may fail, over evidence of up to two rows.
  Lifetimes, markers and overheads are scaled to a few units and
  the bisection is checked for all prompts up to sixty bytes and all budgets up
  to twenty; three of the nine section titles.
* **Views.** Each list has a limit of two to four entries (`MAX_EVENTS` 4 for
  2000, `MAX_COMMON_INDICATORS` 2, …) and captures that exceed it. Of three analyses the
  sweep takes at most one, which leaves merged views with and without a run directory.
* **Settings.** Two secrets (none, one), two connections; four budgets: two saves, two
  faults and an edit (who holds the key), a job with a fault and an answer that
  fails, a job with a save and an answer that fails (what is polled), and a save with two edits
  and two queries for models (what is typed, and during what). One save at a time.

## 4. Fairness

`JobQueue`: pool processes, handlers, a booting server and the hourly sweep
make progress (weak fairness): each is a loop or a straight-line function of a
running process, and compose restarts dead ones (`restart: unless-stopped`).
Nothing makes a client submit or delete, a stage raise or outlast its
heartbeat, or a process die. The heartbeat of a job without a process does age.
`JobsSettle` excuses executions with a death, because then a queued row has
lost its future for good, and the jobs of which a call raised uncaught; that
these are the only ways is `StrandedOnlyByFailure`.

`AgentSpool`: weak fairness for the handlers' remaining steps, the broker
thread, the launcher's loop and both restarts. Strong fairness for the budget
of a run, because the launcher checks the clock once in every turn of its
polling loop: a parser that never ends meets the deadline. No fairness for
clients, heartbeats, faults and tidying.

`CaseReads`, `CaseBook`: weak fairness for the steps of a request in progress,
for a client of the evidence API that has begun (following cursors is what
`PagingEnds` is about), for the sweep's removal of a cached PDF, whose age
grows until it is older than the retention time, and for its removal of
records without a case. The last two do not hold where
`PCAP_HUNTER_PRESERVE_SAVED_DATA` switches the sweep off. No writer has to do
anything.

`KeyAccess`: weak fairness for the threads of requests that have begun, which
run straight through. No request has to come, no flush, no administrator.

`PipelineRun`: weak fairness for the worker, each stage thread and the watchdog
timer. The carving tshark need not exit: it is the watchdog that makes
`RunEnds` hold. The parse pass has no watchdog, and a tshark that falls silent
there is left out (section 6).

`SessionRun`: weak fairness for the next step of the script. Clicks are
bounded, because a user who clicks for ever does keep a run from ending.

`Workbench`: weak fairness for a pass that is due and the fragment that comes
round, and for workers, which `JobQueue` justifies; a session need not click.

`SettingsTab` (stated again in `MCInterface` for the behaviours about it): weak
fairness for a server that starts again and goes on with what it does under the
locks, for the interval of the page, for jobs, and for each request to be answered
or to fail. `ShownJobSettles` excuses a state without a usable key, where the server
cannot answer.

The other modules state no liveness: they are functions over what was chosen.

## 5. Proofs

All theorems are about the modules TLC checks, for all values of the constants
that satisfy the assumptions their modules name. Most say that functions and
limits have their types, that `NoJob` is not a job, that a minute and a day
last, that there is a title, and that the session of a browser is not called as the
writer that stands for background runs; options are Booleans, a capture of a
session is a sequence of files, and a pipeline has a phase. The others are facts of the code: the requests, jobs and servers that exist
at once and the indicators on file are finitely many (a count of rows is a
number); an upload or a run from the workbench makes a case with an id of its own
(`uuid4`), and its jobs save their own analysis, while a report job saves one of
the same case (`QueueAssumption`); a clock read waits for the lock no longer than
the window lasts (`MaxDelay <= Window`); there is an API key at all; a packet is not
empty, a batch of lines or a train of packets has one at least, and the confidence
of AbuseIPDB and the score of a beacon are at most a hundred (`FindingsAssumption`);
steps that score a number rise (`DnsAssumption`).

`JobQueueProofs`: `QueueInvariant` is the inductive invariant `IInv`.
`DoneImpliesEvidence` is not inductive: a worker at "complete" could complete a
job whose analysis is gone. `SavedBeforeDone` says that it cannot, because
whatever removed the analysis since removed the row as well; this in turn needs
that nobody holds the id of a row that is not inserted yet
(`UnbornLeavesNoTrace`), or a worker could complete a row that did not exist
when it saved. `ClaimedJobsStayClaimed` needs `RecoveredJobsStarted`: rows that
recovery has selected can no longer be queued. From `IInv`: `TypeCorrect`,
`ClaimsAreForGood`, `DoneJobsHaveEvidence`, and with one lemma on how a step
moves a status, `QueueImplementsLifecycle`.

`UploadInvariant` is a second inductive invariant over the first, for what a
submission, the executors and a deletion owe each other. `ActiveJobsAreOwned`
rests on `ActiveAccounted`: without a death every server is up, no executor is
broken, and an active row is a future, in a worker's hands, or with the handler
that inserted it, unless a database call about this very job raised: a call that
raises strands no other row. `DeletionSeesSettledJobs` needs that rows a deletion passed had
been inserted (`PassedRowsSettled`): an unborn one could still become active.
`OvershootIsBounded` counts active rows and handlers between count and insert
together (`CountersBounded`). A handler that finds room joins at most one other
per further event loop (`OneOnLoop`) and the threaded requests, and an insert
turns one of them into a row, so the sum never exceeds the bound. This proof
found the bound checked before too small: it left out handlers that are threads,
of which the instance had none. `RefusedUploadsVanish`, of uploads whose rollback committed, needs what was never
dispatched to be untouched (`UndispatchedUntouched`): no process took it and no
report was asked of it, so the rollback leaves nothing to come back.

`AgentSpoolProofs`: `SpoolInvariant` is the inductive invariant.
`ParserGoneBeforeResult` rests on `OneContainer` (at most one container while
the launcher runs, none outside the polling loop and the removal) and on
`RunHasNoResult`. `ReceiptReady` rests on `ReceiptBeforeResult` and on
`FolderKept`: the launcher unlinks a receipt only when the folder of the job is
gone, and the folder of an unsettled job with a result is never removed.
`DoneAfterRemoval` adds `CollectedHasResult` and `CollectedInOrder`: what the
broker is about to complete still has its result, hence no parser, and its
evidence, or has been deleted and cannot be completed. `TableStep` is the one
lemma through which all of them see the job table: a row is left, inserted for
a new submission, started, settled, or deleted. `SpoolImplementsLifecycle`
shows that the spool, unlike the queue, settles a job once.

`CaseProofs`, first part, is about clients of the evidence pages among all the other
actions of `CaseReads`, for any record sizes, limits and numbers of actors.
`PagingInvariant` is the inductive invariant: a client has no record before it
has a snapshot and never changes it (`OneSnapshot`), has exactly the records
below its offset (`ReceivedInOrder`), and as long as the deletions of its case
have not been counted up the snapshot exists (`SnapshotKept`) and its total is
the inventory (`InventoryKept`). `StoreStep` reduces every writer to what
matters here: snapshots vanish only with a counted deletion.
`PagesComeInOrder`, `PagesAreComplete` and, from both, `PagesAreWhole` follow.
The bytes of a page are a recursive function, of which the proof needs nothing:
the number of records that fit is at most the number that was read.

`FeedInvariant` is about clients of the feed, in the same behaviours. A row of
the feed has a rank, the number of rows before it and one, and the lemmas from
`SeenTypes` to `PageIs` show that ranks number the feed from one and that a
page is the rows with the ranks of its offsets. While nothing is deleted an
indicator never leaves and never gets an older time (`StartKept`), because an analysis
is saved, and saved again, under the time it was stamped with (`TimesKnown`);
so an indicator that was not sighted again can only be pushed down, and one
the client has not received is still below its cursor (`NoneMissed`). In a feed that
did not move the client has all rows above its cursor (`AllAbove`). At the last page the
cursor is at the end, and `FeedIsHonest` follows.

`CaseProofs`, second part, is about the records of cases and the Cases page.
`BookInvariant` is the inductive invariant. `DraftAppendedOnce` rests on
`DraftOnFile`: a draft is among the notes only while the key of its request is
on file, and both go with the case in one transaction. `CaseEditsMeant` speaks
of the last step of a pass only; what it needs is carried from the reads
before it. `ReadIsCurrent` says that a pass which nobody disturbed holds the
title, status and tags the store has, though row and tags are read by two
statements; `PageOK` says that what was not edited holds nothing of its own, so a
save writes back what was read, that a case due for deletion was asked about, and
that the id of a note names one note for good (`AUTOINCREMENT`). The lemmas
from `QuietStores` to `SweepStores` reduce each of the writers to what a page can
notice (`Disturbs`): so `RecordsStayConsistent` and `ClicksDoWhatIsMeant`.

`AccessProofs`, second part, is about the submissions of any number of credentials and
requests in flight; its specification `AgentSpec` has no fairness.
`SubmissionInvariant` is the inductive invariant. `SubmittedOnce` and
`QuotaHolds` speak of cases, but the code decides on receipts, so the invariant
ties the two: a live case has its receipt (`ReceiptKept`), a key of a credential
has one receipt (`OneReceipt`), and the receipts of a day are within the quota
(`ReceiptsBounded`). The live cases of a credential and a day then inject into
its receipts, which bounds their number. `SubmittedIsGranted` needs that a
credential does not exist yet only with an empty grant (`NewGrantsEmpty`), for
`CreateAgent` starts a grant empty. From it: `AgentSubmissionsStand`.
`AgentBudgetsExact` keeps the times at which an agent was let in, as history: what a bucket
holds is how many of them fall into it, and a request that is let in adds one to
both its buckets or none. `GoneAgentsSubmitNothing` is a property of the step:
`Submit` checks again what `Admit` had checked.

`AccessProofs`, first part: `KeyInvariant` has three independent parts over the types.
`UsageInv` accounts for uses: what was served of a key is its total, what is pending,
the part of the batch not written yet, what failed and will be restored, and
what a crash lost; times of use travel in order (`UsesInOrder`), so the last is the
newest of them. `WindowInv` says that a window is the end of the requests let in,
each entered by a clock read at most `MaxDelay` before, and that what left it is
older than the window. The window need not be in order, so `CheckLimit` drops a
prefix, and `RateIsBounded` shows that no request of the last `Window - MaxDelay` is in the part
dropped. `WarningDue` follows administrators that are between their change and
their count: `LockoutsAreWarned`, of expiries without offsets; with one nobody
counts, and the statement is false (section 6). How many entries a prefix of a window has is
found by the least number that fails, since no induction is available.

`PagesProofs`, first part: `StoreInv` says that no process holds a key but the one on file,
and that whoever is in the middle of a request or a session holds it (`KeyHeld`);
and that what is written aside is sealed by whoever holds the lock, with a new
secret only if one was typed (`AsideSealed`). With these no other key takes the
place of the one that sealed a secret, and no save drops one: `SecretsAreKept`. `TabInv` says
of a tab that the draft on display is either untouched and what the server
last said, or kept, and that an open query for models of the current
generation asks about the connection in the draft: `TabIsTruthful`. What was
typed is kept apart from the draft in both, so that an answer which takes it away
shows; `late` and `raced` mark the two ways in which the end of a save may.

`PagesProofs`, second part: `WorkbenchInv` has two halves. `RowsOK` says that rows refer
to rows there are, and that a run has one result per job, a saved analysis as
soon as the job is done: so a finished run can be restored whole
(`RestoreRunSession`). `SessionOK` binds the display to its marker, ids and
report, and says that a display with evidence has a source to be saved under.
It speaks of a session and the numbers of rows only, so that one lemma,
`SessionKept`, carries it over every row that is added meanwhile: an analysis
never changes its evidence, only its report. `RestoredOK` shows that a restore
replaces all parts of the display together, whatever was there: from it
`DisplayIsOneAnalysis`. The safety parts of `RunsReachTheirCase` follow too:
`InProgressCasesHaveJobs`, `CasesOpenWhenComplete` and, because a saved row is the
newest of its case (`SaveAdds`), `SavesKeepDisplay`.

`RunProofs`, first part, is about one worker's run, for any options, captures
and tools, and any number `MaxFaults` of progress writes that raise. `RunInv` says
where the threads can be while the worker is at some stage (`ThreadsInPlace`):
those work that it waits for, and those that were due have been started. A child runs
only in the hands of its reader, and one that was killed has left the mark of its
watchdog (`ChildInHand`): so a carve without a mark saw its child exit. `ListsKnown`
bounds how often a stage is listed by the point its thread has reached, which the
final accounts (`StagesAccounted`) do not say before the end: a thread that has
recorded its stage may still raise when it closes its phase. `ParseKnown` is
the way in which a parse may be counted as run and yet be among the failed: its sets
are not turned to lists, and the write that tells of it fails.
`AnalysesInOrder` needs that `Assemble` adds each outcome once and to lists
without any (`AddAll`). From it: `RunIsAccounted`.

`RunProofs`, second part, is about the run a session does itself. `SessionInv`
follows what a pass replaces: features, then indicators, names and mapping
(`ShownSoFar`), each of the pass by the time the next is written. `GivenFresh` says
that what the phases gave was not skipped, and that hits of YARA are of this pass,
for its result is kept across passes; `PhasesCounted` that the phases a
pass has begun and those ahead are no more than its pipeline; `ReportSoFar` that a
run starts without a report and ends with one of its own or none. From it:
`SessionIsOneRun`.

`FindingsProofs`, second part, is about the enrichment and the report of any number of workers,
for any requests with finitely many flows, and any lengths and limits; the bounds
on time and renames are nowhere used but to say that both stay below them. Any of
the derivations of a report may fail.
`NarrInv` is the inductive invariant. Of a job it says what was asked about
(`Chosen`): the choice of `pick_top_public_ips` and the domains, part of it answered and
the rest still to do; that answers are the replies that could be used
(`RepliesKept`); and which names are known when (`NamesKept`). `NamesRecent` with
`CacheRecent` carries the age of names: an entry of the cache was looked up at most
`MaxBatch` before the time it is stamped with, because a job stores only what it
looked up itself. Of a story it says that the facts were computed of some evidence
(`FactsTold`), that the sections written so far stand in the report in order
(`Ranked`), that whoever writes knows the report it would replace, and that a
report is missing with a warning only (`WarnedElse`). The facts are of what the derivations left:
`ReportIsHonest` says that nothing was found by those that did not fail, that the
risk is never worse than the worst verdict, and milder only if the correlation or
the flows it goes by failed. From it: `AnswersDoStand` and
`ReportIsHonest`. That the busiest addresses are asked about needs sums over
sets of flows, counted by address in the code and by end in the property
(`SizesAdd`). `PromptCut`
shows for every prompt, budget, marker and overhead what
`PromptsAreCutLeast` states of those a run meets: the bisection of `_truncate_middle`
finds the longest middle that fits (`LargestFits`), since the number of tokens of a
text grows with its length.

`FindingsProofs`, first part, is about packets, DNS lines and clues in any order, and any limits
and lists. The inductive invariant `FindInv` has four parts, of which the flow table is the
one that needs it. `FlowTotalsExact` is not inductive: the property adds the packets of a
wire by conversation, uploads add them by pair of hosts, the metrics all of them. `Balanced`
says it for every set of conversations at once, so each of these is an instance.
`Begun`, `Ended` and `InOrder` keep which packet of a flow was first and last and that
flows stand in the order in which they began: from these come the window, and that
`Checked` takes a pair in the direction of its first packet. Sums over finite sets
are a recursive function, of which `SumSplit`, `SumMonotone` and the lemmas
around them say what is needed (any element may be added first); the second part
uses them too. `LeadCount` counts what a cut list keeps: C2 ports stand before all
other reports, so as many are listed as there are or as fit. From it:
`FlowsAlwaysExact`.

What is said of the DNS log holds of any log that is well typed. `BlamesSource`: were
every source at three tenths or below, so were their sum; the argument that the
source at fault is on the list needs a list with room for all that fail often,
and trying it showed that `NxdomainBlamed` does not hold without (twenty-one sources
may share the blame). `TunnelsAreNamed` shows that a domain whose examined names are few and
short scores at most 30 of the 50 that confirm; an average over lines is at most the
widest name. From these: `DnsAlwaysGrounded`. Both statements were sharper in an earlier
form and could not be proved: a busy flow may hide behind an earlier one that is not
between high ports but shares its key (`BusyFlowsReported` says which), and a tunnel is
counted by names of one grouping and scored by lines of another
(`TunnelsHaveNames` speaks of each).

`VerdictsOnlyWorsen` follows a verdict through its formula. Each factor of the product
falls with its signal though it is rounded (`StepFalls`), a floor never exceeds what
it lifts to, and the cap goes away with the first signal of the better tiers: so
`CompositeRises`. `LeftHalf` leaves half of the whole to any one signal,
which keeps it from being critical. `SeverityRises` compares matches by technique and tactic:
a match that stays or gets better outdoes what it was (`Outdone`). Beacons are ranked
anew with every packet, so the step is one in which none of them scores less
(`BeaconsHold`): a packet that breaks a rhythm does make a capture look milder. With
`TunnelsReach`: `VerdictsAlwaysSound`.

`ViewsProofs` is about any captures that a worker can hand over
(`CapturesAssumption`), any limits, and any number of analyses saved and opened.
The inductive invariant `ViewsInv` is small, for a view is a function of what it was made
of: analyses are those of captures, the ones swept are the oldest, and what is on display
was made of the analyses opened, at a time when no more of them had lost their run
directory than now. The work is in the operators. `ListingIs` says that a listing
by an order has every element once, and in order; the lemmas around it, which of
them a cut leaves out. Joined lists have the entries of their parts and the sum of
their lengths, so totals and alerts add up. An indicator of `Common` is in as many
captures as it says, and one that is left out is in no more. That no
fingerprint of malware is empty is an assumption (`DetectionsAssumption`): rows without a
fingerprint are left out before any is looked up.
Trying the proof showed that the arms of `SeverityOf` overlapped, and that a flow with times of
zero has a range that the code does not show. From it: `BatchAlwaysHonest`.

What the dashboard shows of one analysis is proved from the same invariant
(`DashboardAlwaysHonest`), for any sizes of its charts and any order of names that has
all those of the captures (`NamesAssumption`: without it two names could share a place
and a row would be lost). One lemma for each part:

* Sums: numbers that are added up in the row of their key add up to the same over the
  rows (`KeyedTotal`), so protocols count all packets and bytes (`CompleteIsAll`),
  the slices of an address hold all its packets, and bars, being a partition, all
  samples (`PartsCounted`, `LengthsJoined`). A sampled time has one cell of the heat
  map (`BarIsWhere`), so the cells count all samples too, and the shade of a cell is
  its count against that of the fullest (`HeatmapIs`, `ChartsCount`).
* Links: every edge adds as much on both sides of its service (`LinksAdd`), so what
  comes in goes out (`SankeyIsBalanced`).
* Cuts: of the addresses in falling order only the located ones are picked, and of these the
  first (`DrawnIs`), so one that is left off is after all that are drawn (`MapShowsBusiest`).
* The replay: representatives of slices are one for each, so not too many; the first
  slice keeps the first sample and the last slice the last (`RepresentativesAre`). When all
  samples have one time there is one slice, and the even positions, which number
  `MAX_EVENTS` and end with the last sample, are all taken before the list is full.
  What is still missing is filled from the front, and suffices (`FilledIs`, `EventsSelected`).
* The risk: behind each beacon of the list there is a flow of its own, and its score
  is a product that no factor raises (`ScoreNeeds`, `BeaconsAreFlows`, `RiskIsFounded`).

Only model-checked: the liveness properties and everything under fairness
(ENABLED is out of the prover's reach), `RevokedKeysFallSilent` and `RunsEnd` among them.
Every safety invariant that a run checks is a theorem. Statements about recursive operators
would need induction over data, which is out of reach too. Where a proof needs an induction
over numbers, the least number that fails is taken instead (`WFMin` of the library),
and over a finite set, the least number of elements that are left (`SetInduction`).

## 6. What the code does against its own words

The first three are runs with a counterexample; the others are modelled as the code
behaves. Of these `AllClearFounded` (`Narrative`) is stated and checked by no run; of
the rest no property is stated that they would break.

| Words | Code |
|---|---|
| `README.md:196`: the merged dashboard has "aggregated results" | `cases_tab.py:157` collects the key `matches` of each YARA result, which the scanner does not write (`matched`, `results`): a merged view shows no YARA hit (run `merged_yara`) |
| `README.md:190`: "first/last-seen times are kept exact"; `visibility.py:91` tells the model that they "remain authoritative", `docs/en/USER_MANUAL.md:154` the user | the packet read last sets the end of a flow, whatever its time (`pyshark_pass.py:163`): of packets out of order the flow ends too early, starts too late, or ends before it starts (run `flow_times`) |
| `admin.py:29`: "warn if no full-scope auth source remains" | an expiry with an offset is committed (`admin.py:161`, `key_repository.py:228`), then the answer raises (`key_models.py:65`), as does every later use of the key (`key_auth.py:100`), while it goes on counting as active: nobody can get in and nobody was warned (run `lockout_unwarned`) |
| `visibility.py:6`: the metrics "intentionally distinguish an observed zero from an unavailable detector"; `client.py:153`: what failed is "UNKNOWN coverage, not evidence of cleanliness" | a correlation that raises is only logged and leaves an empty list (`queue.py:299-311`), which counts as available (`visibility.py:80`): the risk is LOW, and the model is told that "No detector supplied a significant finding" (`client.py:949`), of a capture that has some. `AllClearFounded` is what the words promise; `NoFalseAllClear` what holds |
| `README.md:188`: uploads are told by their ratio "per src/dst pair (default threshold: 10:1, minimum 1 MB)" | a pair is weighed in the direction of its first packet only (`flow_analysis.py:148`), and listed from 5:1 on (`flow_analysis.py:171`); `UploadsExact` states what is |
| `docs/API.md:1489`: queue depth is the "Maximum active (queued + running) jobs" | `queue.py:609` counts and inserts in two transactions; two servers both take the last place |
| `docs/API.md:533`: a failed job never has a result | recovery fails a job whose stage outlasts 120 s; its worker then completes it (`repository.py:1038`) |
| `docs/API.md:578`: if persistence fails the job still completes | it fails (`queue.py:585`) |
| `docs/API.md:1624`: a job in flight when the process died is failed at start-up | recovery runs once and sees heartbeats older than 120 s only: a server that is back sooner leaves the job running (`queue.py:642`) |
| `docs/API.md:751`: a running job blocks the deletion of its case | rows are read once (`cases.py:130`): jobs inserted or started later do not block; a refused deletion has already cancelled queued jobs (`cases.py:146`); an agent job counts as queued until the broker meets its heartbeat |
| `docs/AGENTIC_RELEASE_PLAN.md:59`: deletion removes case evidence | the broker saves an analysis after the deletion (`spool.py:213`); the sweep collects it later |
| `docs/API.md:751`: leftover files age out | no sweep covers the inbox: the capture of a job deleted before it was collected stays (`spool.py:147`) |
| `docs/API.md:818`: stable ordering makes cursor pagination of the feed reliable | an indicator sighted again moves in front of the cursor (`feed.py:83`) |
| `docs/API.md:696`: the PDF is regenerated when a newer analysis lands | `analyzed_at` is stamped before the row is saved (`cases.py:52`): a PDF rendered between the two counts as fresh. A report job rewrites the text without a new stamp |
| `config.py:62`: a malformed capture must never hang the pipeline | the parse pass has no time limit and reads the errors of its tshark only at the end (`pyshark_pass.py:69`) |
| `docs/API.md:589`: a stage that fails or has no data does not abort the run | without tshark the parser returns sets, which cannot be saved as JSON, and the job fails (`pyshark_pass.py:34`) |
| `docs/en/USER_MANUAL.md:237`: "Load into Dashboard" restores a saved case | an older analysis is replaced by the newest in the next pass (`cases_tab.py:466`) |
| `batch.py:499`: too many captures raise a ValueError | they are dropped (`batch.py:506`) |

## 7. Further hazards

Besides those of `PROJECT.json`, met while reading the code. Some are
covered by parts of the properties above, the rest by none.

* `beacon.py:79`: `cv or 1.0` takes a perfectly regular beacon (cv 0) for an
  irregular one. Scores are given in `Detections`.
* `queue.py:543`, `551`, `592`: a database call that raises before the `try`, or in the
  error path, leaves its row queued or running until the server starts again, or for
  good. `JobQueue` has these steps (`faulted`); nothing in the code finds such a row.
* `queue.py:501`: a report job adds its warnings to those of the analysis it read, so
  warnings of earlier report jobs stay though the report is new.
* `spool.py:223`: the broker drops a result only for the exceptions it names. One whose
  handling raises another (an `OverflowError` of a number too large for a column) is met
  again in every pass, and its job never settles; `SpoolSettles` is about at most
  `MaxFaults` passes that are cut short.
* `rdns_cache.py:150`: names are stored with the time of the batch, so an older answer
  stored later replaces a newer one. `HostNamesRecent` bounds the age of both.
* `usage_tracker.py:60`: when the second write of a key fails its count, which is in the
  database, is put back and counted twice (`UsageExact` speaks of writes that did not fail).
* `carve.py:91`: a carve that ended as the watchdog fired is reported as timed out, though
  it is complete (`CarveComplete` says the opposite only).
* `main.py:952`: a click between the last phase and the storing of the report loses the
  report; `ReportOnShown` and `RunsEnd` allow it.
* `dns_analysis.py:776`: names are indexed by their last two labels and grouped
  by their registered domain: tunnels under a two-part suffix are missed.
  `TunnelsHaveNames` states that reported ones have names.
* `dns_analysis.py:580`: sources of failing queries are cut after sorting by their number
  of failures, not by their ratio, so a source at fault may be missing behind busier
  ones (`NxdomainBlamed` is about lists with room).
* `tls_certs.py:167`: tshark is asked to quote its fields, and the lines are
  split at `|` with the quotes on them.
* `repository.py:562`: every saved indicator is MEDIUM, so the dashboard's count
  of alerts is 0 and only YARA raises its risk (`RiskHasReason`).
* `visibility.py:73`: DNS and OSINT always count as available after a merge.
* `pipeline/state.py:163`: in a batch run of a session the Skip buttons of two
  captures have the same key, and Streamlit raises at the second.
* `main.py:968`: the summary of a batch stays over the results of a later
  single run.
* `background_analysis.py:140`: regenerating a report reopens a closed case;
  `queue.py:491`: two report jobs of an analysis each save the row they read.
* `cases_tab.py:660`: a title changed in another session resets what was typed;
  `repository.py:763`: notes are ordered by timestamps of two formats as text.
* `rate_limiter.py`: the API's window slides, the agents' minutes are fixed, and
  twice the budget passes around a boundary (`RateBound` and `BudgetsExact` say
  what each admits).
* `submission.py:65`: the deletion of a case frees the quota its submission used
  (`QuotaHolds` counts live cases).
* `agents/middleware.py:32`: the audit of an answer can fail after the request
  took effect; a request in flight keeps what it was admitted with.
* `App.jsx:1028`: what is typed while a save is under way is overwritten at its end,
  neither saved nor discarded by anybody (`EditsSurvive` excepts it by `late`). The
  models offered then may be those of another connection: after an edit of the
  connection during the save, after a refresh that failed, or after someone else's
  save (`ModelsOfConnection` excepts them by `raced`).
* `config_ui.py:159`: the settings page writes every value of its session over
  what others saved; `config_ui.py:640`: "Clear PCAP Data" removes everything in
  the data directory that is not a `.db`, the write-ahead log included.
* `config_manager.py:98`: a death between creating and writing the key leaves an
  empty key file. `ConfigStore` has the state; nothing repairs it.
* `osint_cache.py:139`: cached answers outlive a change of provider keys.
* `llm/client.py:1063`: the second line of an instruction is a statement of its
  own and is lost.
* `network_utils.py:24`: threads set and restore the process-wide socket timeout.
* `evidence.py:257`: without a cursor the newest snapshot row is taken, which
  need not be of the newest capture when contents repeat.

Code nothing calls: `ioc_scorer`, `ioc_export`, `stix_export`, `cef_export`,
`llm/qa.py`, `narrator.generate_narrative`, `create_comparison_layer`.

## 8. Not modelled

* The MCP adapter (`app/agents/mcp.py`): a stateless translation of calls.
* Layout, charts, maps, PDF drawing, CSS, the wording of prompts and messages,
  exports: they format what others decided and keep no state.
* Provider and Docker protocols, tar streams, hashes, GeoIP, certificates: only
  which outcome they lead to.
* Decoding of packets and Zeek's logs; regular expressions of artifacts.
* Floating point (beacon scores, entropy): given as hundredths.
* Contents of analyses, reports and snapshots; names, paths, JSON; filters and
  scores of the feed; ETags; listing and search handlers; statistics.
* In `CaseReads`: an analysis and its indicators are read as one, though
  `get_analysis` selects them one after the other; the retention time itself.
* In `AgentSpool`: the sweep (off in the compose file that starts the
  launcher), the Streamlit page (not part of that file), and the in-process jobs
  (the two kinds of rows share the depth limit only). In `JobQueue`: the agent
  jobs, for the same reason.
* In `AgentAccess`: uploaded files. In `KeyAccess`: daily counters, which are
  written in the transaction of the total.
* In `PipelineRun`: a tshark that falls silent in the parse pass. In
  `SessionRun`: what threads of a stage do, and anything after a background run
  begins.
* In `Workbench`: the Edit Case form, which may set any status (it is in `CaseBook`),
  the first click of a deletion, orphans of deleted cases (they
  are in `JobQueue`), the difference between queued and running.
* In `Narrative`: probes for a provider's models and context size.
* In `BatchMerge` and `Dashboard`: the aggregation of TLS.
* In `ConfigStore`: a key that is given in `PCAP_HUNTER_CONFIG_KEY`
  (`config_manager.py:82-86`), with which there is no key file to lose; fields beyond a connection and a secret, the data dialogs;
  a save is not interleaved with another of the same process.
* `clear_all` beside the job tables and the maintenance scripts: they run with the servers stopped.

## 9. Plan

What many actors share came first, then what decides on evidence. All modules
of section 2 are checked, and all but `ReportCache` have
proofs. Left, in this order:

1. A larger `AgentAccess` (two agents) and `Workbench` (two sessions).
2. The aggregation of TLS in the merged view, and the report of a case as a PDF.
