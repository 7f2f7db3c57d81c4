----------------------------- MODULE AgentSpool -----------------------------
(***************************************************************************)
(* Agent captures: app/agents/submission.py, spool.py, supervisor.py and   *)
(* the cancel route.  Three parties share two directories and one table.   *)
(*                                                                         *)
(*   API         stores the job, copies the capture to inbox/<job>/, and   *)
(*               writes inbox/<job>/cancel.json                            *)
(*   broker      a thread of the API process: every 2 s it dispatches      *)
(*               active jobs again and collects results/<job>.json         *)
(*   supervisor  a process of its own that cannot see the database: it     *)
(*               runs one container at a time for a request without a      *)
(*               result and publishes what the container left              *)
(*                                                                         *)
(* Every submission makes one case and one job, so a job also names its    *)
(* case and its analysis ("<job>_analysis").  The retention sweep is off   *)
(* in the compose file that starts these processes and is left out.        *)
(***************************************************************************)
EXTENDS JobTable, Naturals

CONSTANTS
  Jobs,      \* agent submissions
  NoJob,
  Retried,   \* the jobs whose submission is repeated,
  Cancelled, \* ... that their agent cancels,
  Deleted,   \* ... whose case an analyst deletes
  MaxFaults  \* bound on deaths, failed removals and aborted collections

ASSUME SpoolAssumption == NoJob \notin Jobs /\ MaxFaults \in Nat

VARIABLES
  jobs,        \* the rows of the agent jobs
  cases,       \* the jobs whose case row exists
  analyses,    \* the jobs whose analysis and evidence snapshot are saved
  inbox,       \* what inbox/<job> holds; {} when there is no such folder
  output,      \* results/<job>.json: "none", or what the broker will make of it
  receipts,    \* jobs with a results/<job>.isolation
  beats,       \* jobs with a fresh results/<job>.heartbeat
  containers,  \* jobs with a live parser container
  submit,      \* POST /agent/captures, per job
  cancel,      \* POST /agent/jobs/{id}/cancel, per job
  delete,      \* DELETE /cases/{id}, per job
  broker, supervisor,
  api,         \* the API process
  faults

table    == <<jobs, cases, analyses>>
results  == <<output, receipts, beats>>
handlers == <<submit, cancel, delete>>
vars == <<table, inbox, results, containers, handlers, broker, supervisor, api, faults>>

Outcomes == {"parsed", "refused", "stopped"}  \* a result to accept, bytes the broker
                                              \* refuses, {"ok": false} of the launcher
BrokerPC == {"idle", "dispatch", "send", "beat", "collect", "judge", "save", "complete", "clean"}
SupervisorPC == {"down", "idle", "open", "run", "beat", "remove", "receipt", "publish"}

IdleBroker == [pc |-> "idle", todo |-> {}, job |-> NoJob]
Supervisor(pc, j, o) == [pc |-> pc, job |-> j, outcome |-> o]

TypeOK ==
  /\ jobs \in Table(Jobs)
  /\ cases \subseteq Jobs /\ analyses \subseteq Jobs
  /\ inbox \in [Jobs -> SUBSET {"folder", "request", "cancel"}]
  /\ output \in [Jobs -> Outcomes \cup {"none"}]
  /\ receipts \subseteq Jobs /\ beats \subseteq Jobs /\ containers \subseteq Jobs
  /\ submit \in [Jobs -> {"new", "read", "dispatch", "answered", "lost"}]
  /\ cancel \in [Jobs -> {"idle", "write"}]
  /\ delete \in [Jobs -> {"idle", "cancel", "commit"}]
  /\ broker \in [pc : BrokerPC, todo : SUBSET Jobs, job : Jobs \cup {NoJob}]
  /\ supervisor \in [pc : SupervisorPC, job : Jobs \cup {NoJob}, outcome : Outcomes]
  /\ api \in {"up", "down"}
  /\ faults \in Nat

Init ==
  /\ jobs = [j \in Jobs |-> NoRow]
  /\ cases = {} /\ analyses = {}
  /\ inbox = [j \in Jobs |-> {}]
  /\ output = [j \in Jobs |-> "none"]
  /\ receipts = {} /\ beats = {} /\ containers = {}
  /\ submit = [j \in Jobs |-> "new"]
  /\ cancel = [j \in Jobs |-> "idle"]
  /\ delete = [j \in Jobs |-> "idle"]
  /\ broker = IdleBroker
  /\ supervisor = Supervisor("down", NoJob, "stopped")
  /\ api = "up"
  /\ faults = 0

AddFiles(j, files) == inbox' = [inbox EXCEPT ![j] = @ \cup files]
RemoveFolder(j)    == inbox' = [inbox EXCEPT ![j] = {}]

(* spool.dispatch: the folder, a copy of the capture, then the request.    *)
Dispatch(j) == AddFiles(j, {"folder", "request"})

-----------------------------------------------------------------------------
(***************************************************************************)
(* API handlers.                                                           *)
(***************************************************************************)
(* One transaction inserts the case and the job and remembers the answer   *)
(* under the idempotency key.                                              *)
SubmitCommit(j) ==
  /\ submit[j] = "new" /\ api = "up"
  /\ jobs' = CreateJob(jobs, j)
  /\ cases' = cases \cup {j}
  /\ submit' = [submit EXCEPT ![j] = "read"]
  /\ UNCHANGED <<analyses, inbox, results, containers, cancel, delete, broker, supervisor, api, faults>>

SubmitRead(j) ==
  /\ submit[j] = "read"
  /\ submit' = [submit EXCEPT ![j] = IF jobs[j].status = "queued" THEN "dispatch" ELSE "answered"]
  /\ UNCHANGED <<table, inbox, results, containers, cancel, delete, broker, supervisor, api, faults>>

(* The copy may fail after the folder was made: the client gets a 500 and  *)
(* the job stays queued.                                                   *)
SubmitDispatch(j) ==
  /\ submit[j] = "dispatch"
  /\ Dispatch(j) \/ AddFiles(j, {"folder"}) \/ UNCHANGED inbox
  /\ submit' = [submit EXCEPT ![j] = "answered"]
  /\ UNCHANGED <<table, results, containers, cancel, delete, broker, supervisor, api, faults>>

(* The same key again: the remembered job, dispatched if still queued.     *)
SubmitRetry(j) ==
  /\ submit[j] \in {"answered", "lost"} /\ api = "up"
  /\ j \in Retried \cap cases
  /\ submit' = [submit EXCEPT ![j] = "read"]
  /\ UNCHANGED <<table, inbox, results, containers, cancel, delete, broker, supervisor, api, faults>>

(* The row first, the file for the launcher after the commit.              *)
CancelCommit(j) ==
  /\ cancel[j] = "idle" /\ api = "up" /\ j \in Cancelled
  /\ jobs[j].status \in Active \cup {"cancelled"}
  /\ jobs' = CancelActiveJob(jobs, j)
  /\ cancel' = [cancel EXCEPT ![j] = "write"]
  /\ UNCHANGED <<cases, analyses, inbox, results, containers, submit, delete, broker, supervisor, api, faults>>

CancelWrite(j) ==
  /\ cancel[j] = "write"
  /\ AddFiles(j, {"folder", "cancel"})
  /\ cancel' = [cancel EXCEPT ![j] = "idle"]
  /\ UNCHANGED <<table, results, containers, submit, delete, broker, supervisor, api, faults>>

(* DELETE /cases/{id} on a case with one job: 409 for a running row, a     *)
(* compare-and-set cancel of a queued one, then the cascade.               *)
DeleteSelect(j) ==
  /\ delete[j] = "idle" /\ api = "up" /\ j \in Deleted
  /\ j \in cases /\ jobs[j].status # "running"
  /\ delete' = [delete EXCEPT ![j] = IF jobs[j].status = "queued" THEN "cancel" ELSE "commit"]
  /\ UNCHANGED <<table, inbox, results, containers, submit, cancel, broker, supervisor, api, faults>>

DeleteCancel(j) ==
  /\ delete[j] = "cancel"
  /\ jobs' = CancelJobIfQueued(jobs, j)
  /\ delete' = [delete EXCEPT ![j] = IF jobs[j].status = "queued" THEN "commit" ELSE "idle"]
  /\ UNCHANGED <<cases, analyses, inbox, results, containers, submit, cancel, broker, supervisor, api, faults>>

DeleteCommit(j) ==
  /\ delete[j] = "commit"
  /\ jobs' = DeleteJobs(jobs, {j})
  /\ cases' = cases \ {j} /\ analyses' = analyses \ {j}
  /\ delete' = [delete EXCEPT ![j] = "idle"]
  /\ UNCHANGED <<inbox, results, containers, submit, cancel, broker, supervisor, api, faults>>

HandlerNext(j) ==
  \/ SubmitCommit(j) \/ SubmitRead(j) \/ SubmitDispatch(j) \/ SubmitRetry(j)
  \/ CancelCommit(j) \/ CancelWrite(j)
  \/ DeleteSelect(j) \/ DeleteCancel(j) \/ DeleteCommit(j)

-----------------------------------------------------------------------------
(***************************************************************************)
(* The broker: spool.collect.                                              *)
(***************************************************************************)
At(pc, j)    == broker.pc = pc /\ broker.job = j
Step(pc)     == broker' = [broker EXCEPT !.pc = pc]
Take(pc, j)  == broker' = [broker EXCEPT !.pc = pc, !.job = j]
Drop(pc, j)  == broker' = [pc |-> pc, todo |-> broker.todo \ {j}, job |-> NoJob]

BrokerSelect ==
  /\ broker.pc = "idle" /\ api = "up"
  /\ broker' = [IdleBroker EXCEPT !.pc = "dispatch", !.todo = ActiveJobs(jobs)]
  /\ UNCHANGED <<table, inbox, results, containers, handlers, supervisor, api, faults>>

BrokerLook(j) ==
  /\ broker.pc = "dispatch" /\ j \in broker.todo
  /\ IF IsActive(jobs, j) THEN Take("send", j) ELSE Drop("dispatch", j)
  /\ UNCHANGED <<table, inbox, results, containers, handlers, supervisor, api, faults>>

(* What was sent before is not sent again: the request names the capture.  *)
BrokerSend(j) ==
  /\ At("send", j)
  /\ Dispatch(j)
  /\ Step("beat")
  /\ UNCHANGED <<table, results, containers, handlers, supervisor, api, faults>>

(* OSError: worker_input_unavailable.                                      *)
BrokerSendFails(j) ==
  /\ At("send", j)
  /\ "request" \notin inbox[j]
  /\ AddFiles(j, {"folder"}) \/ UNCHANGED inbox
  /\ jobs' = FailActiveJob(jobs, j)
  /\ Drop("dispatch", j)
  /\ UNCHANGED <<cases, analyses, results, containers, handlers, supervisor, api, faults>>

(* A live heartbeat file starts the row and refreshes it.                  *)
BrokerBeat(j) ==
  /\ At("beat", j)
  /\ jobs' = IF j \in beats THEN TouchHeartbeat(StartJobIfQueued(jobs, j), j) ELSE jobs
  /\ Drop("dispatch", j)
  /\ UNCHANGED <<cases, analyses, inbox, results, containers, handlers, supervisor, api, faults>>

BrokerGlob ==
  /\ broker.pc = "dispatch" /\ broker.todo = {}
  /\ broker' = [IdleBroker EXCEPT !.pc = "collect", !.todo = {j \in Jobs : output[j] # "none"}]
  /\ UNCHANGED <<table, inbox, results, containers, handlers, supervisor, api, faults>>

(* A result of a settled job is skipped; that of a cancelled one says that *)
(* its worker has stopped, and its folder goes.                            *)
BrokerRead(j) ==
  /\ broker.pc = "collect" /\ j \in broker.todo
  /\ IF IsActive(jobs, j)
       THEN Take("judge", j) /\ UNCHANGED inbox
       ELSE /\ Drop("collect", j)
            /\ IF jobs[j].status = "cancelled" THEN RemoveFolder(j) ELSE UNCHANGED inbox
  /\ UNCHANGED <<table, results, containers, handlers, supervisor, api, faults>>

(* The payload, its hash and the receipt are checked.  Anything wrong, or  *)
(* an original capture that cannot be read, fails the job if still active. *)
Acceptable(j) == output[j] = "parsed" /\ j \in receipts

BrokerJudge(j) ==
  /\ At("judge", j)
  /\ \/ Acceptable(j) /\ Step("save") /\ UNCHANGED jobs
     \/ Step("clean") /\ jobs' = FailActiveJob(jobs, j)
  /\ UNCHANGED <<cases, analyses, inbox, results, containers, handlers, supervisor, api, faults>>

(* Mutant: the row is completed first.                                     *)
BrokerSaveLater(j) ==
  /\ At("save", j)
  /\ Step("complete")
  /\ UNCHANGED <<table, inbox, results, containers, handlers, supervisor, api, faults>>

(* save_analysis: analysis, indicators and snapshot in one transaction,    *)
(* whatever became of the job and its case.                                *)
BrokerSave(j) ==
  /\ At("save", j)
  /\ analyses' = analyses \cup {j}
  /\ Step("complete")
  /\ UNCHANGED <<jobs, cases, inbox, results, containers, handlers, supervisor, api, faults>>

BrokerComplete(j) ==
  /\ At("complete", j)
  /\ jobs' = CompleteActiveJob(jobs, j)
  /\ Step("clean")
  /\ UNCHANGED <<cases, analyses, inbox, results, containers, handlers, supervisor, api, faults>>

BrokerClean(j) ==
  /\ At("clean", j)
  /\ RemoveFolder(j)
  /\ Drop("collect", j)
  /\ UNCHANGED <<table, results, containers, handlers, supervisor, api, faults>>

BrokerSleep ==
  /\ broker.pc = "collect" /\ broker.todo = {}
  /\ broker' = IdleBroker
  /\ UNCHANGED <<table, inbox, results, containers, handlers, supervisor, api, faults>>

(* broker_loop logs whatever collect raises and starts over.               *)
BrokerAborts ==
  /\ broker.pc # "idle"
  /\ faults < MaxFaults /\ faults' = faults + 1
  /\ broker' = IdleBroker
  /\ UNCHANGED <<table, inbox, results, containers, handlers, supervisor, api>>

BrokerWork(j) ==
  \/ BrokerLook(j) \/ BrokerSend(j) \/ BrokerBeat(j) \/ BrokerRead(j)
  \/ BrokerJudge(j) \/ BrokerSave(j) \/ BrokerComplete(j) \/ BrokerClean(j)

BrokerProgress == BrokerSelect \/ BrokerGlob \/ BrokerSleep \/ \E j \in Jobs : BrokerWork(j)

-----------------------------------------------------------------------------
(***************************************************************************)
(* The supervisor: serve and run_job.                                      *)
(***************************************************************************)
Doing(pc, j)   == supervisor.pc = pc /\ supervisor.job = j
Continue(pc)   == supervisor' = [supervisor EXCEPT !.pc = pc]
End(pc, o)     == supervisor' = [supervisor EXCEPT !.pc = pc, !.outcome = o]
Idle           == Supervisor("idle", NoJob, "stopped")

(* Mutant: no recovery of what a previous process left behind.             *)
SupervisorStartsDirty ==
  /\ supervisor.pc = "down"
  /\ supervisor' = Idle
  /\ UNCHANGED <<table, inbox, results, containers, handlers, broker, api, faults>>

(* recover removes every container of the owner before the first scan.     *)
SupervisorStarts ==
  /\ supervisor.pc = "down"
  /\ containers' = {}
  /\ supervisor' = Idle
  /\ UNCHANGED <<table, inbox, results, handlers, broker, api, faults>>

(* A folder with a request and without a result.                           *)
SupervisorScan(j) ==
  /\ supervisor.pc = "idle"
  /\ "request" \in inbox[j] /\ output[j] = "none"
  /\ supervisor' = Supervisor("open", j, "stopped")
  /\ UNCHANGED <<table, inbox, results, containers, handlers, broker, api, faults>>

(* A bad or vanished request, an engine timeout or a cancellation end the  *)
(* run before there is a container.                                        *)
SupervisorOpen(j) ==
  /\ Doing("open", j)
  /\ \/ End("publish", "stopped") /\ UNCHANGED containers
     \/ /\ "request" \in inbox[j] /\ "cancel" \notin inbox[j]
        /\ containers' = containers \cup {j}
        /\ Continue("run")
  /\ UNCHANGED <<table, inbox, results, handlers, broker, api, faults>>

(* One turn of the polling loop: cancelled? parser gone? else heartbeat ... *)
SupervisorPoll(j) ==
  /\ Doing("run", j)
  /\ IF "cancel" \in inbox[j]
       THEN End("remove", "stopped") /\ UNCHANGED beats
       ELSE \/ End("remove", "stopped") /\ UNCHANGED beats
            \/ Continue("beat") /\ beats' = beats \cup {j}
  /\ UNCHANGED <<table, inbox, output, receipts, containers, handlers, broker, api, faults>>

(* ... and the result, if the parser has left one.                         *)
SupervisorFetch(j) ==
  /\ Doing("beat", j)
  /\ \/ Continue("run")
     \/ \E o \in Outcomes : End("remove", o)
  /\ UNCHANGED <<table, inbox, results, containers, handlers, broker, api, faults>>

(* The ten-minute budget.                                                  *)
SupervisorBudget(j) ==
  /\ Doing("run", j)
  /\ End("remove", "stopped")
  /\ UNCHANGED <<table, inbox, results, containers, handlers, broker, api, faults>>

(* Mutant: the finally block without the removal of the container.         *)
SupervisorRemoveLater(j) ==
  /\ Doing("remove", j)
  /\ Continue(IF supervisor.outcome = "stopped" THEN "publish" ELSE "receipt")
  /\ UNCHANGED <<table, inbox, results, containers, handlers, broker, api, faults>>

(* finally: the container goes before anything is published.               *)
SupervisorRemove(j) ==
  /\ Doing("remove", j)
  /\ containers' = containers \ {j}
  /\ Continue(IF supervisor.outcome = "stopped" THEN "publish" ELSE "receipt")
  /\ UNCHANGED <<table, inbox, results, handlers, broker, api, faults>>

SupervisorReceipt(j) ==
  /\ Doing("receipt", j)
  /\ receipts' = receipts \cup {j}
  /\ Continue("publish")
  /\ UNCHANGED <<table, inbox, output, beats, containers, handlers, broker, api, faults>>

SupervisorPublish(j) ==
  /\ Doing("publish", j)
  /\ output' = [output EXCEPT ![j] = supervisor.outcome]
  /\ supervisor' = Idle
  /\ UNCHANGED <<table, inbox, receipts, beats, containers, handlers, broker, api, faults>>

(* Mutant: every old file is unlinked.                                     *)
SupervisorTidyAll(j) ==
  /\ supervisor.pc = "idle"
  /\ \/ output' = [output EXCEPT ![j] = "none"] /\ UNCHANGED receipts
     \/ receipts' = receipts \ {j} /\ UNCHANGED output
  /\ UNCHANGED <<table, inbox, beats, containers, handlers, broker, supervisor, api, faults>>

(* Files of a job without a folder are unlinked, each once it is 60 s old. *)
SupervisorTidy(j) ==
  /\ supervisor.pc = "idle" /\ inbox[j] = {}
  /\ \/ output' = [output EXCEPT ![j] = "none"] /\ UNCHANGED receipts
     \/ receipts' = receipts \ {j} /\ UNCHANGED output
  /\ UNCHANGED <<table, inbox, beats, containers, handlers, broker, supervisor, api, faults>>

(* SIGTERM in the polling loop: the container goes, nothing is published.  *)
SupervisorStops(j) ==
  /\ Doing("run", j)
  /\ faults < MaxFaults /\ faults' = faults + 1
  /\ containers' = containers \ {j}
  /\ supervisor' = Supervisor("down", NoJob, "stopped")
  /\ UNCHANGED <<table, inbox, results, handlers, broker, api>>

(* It is killed, or an engine error or CleanupError ends the process.      *)
SupervisorDies ==
  /\ supervisor.pc # "down"
  /\ faults < MaxFaults /\ faults' = faults + 1
  /\ supervisor' = Supervisor("down", NoJob, "stopped")
  /\ UNCHANGED <<table, inbox, results, containers, handlers, broker, api>>

SupervisorWork(j) ==
  \/ SupervisorScan(j) \/ SupervisorOpen(j) \/ SupervisorPoll(j) \/ SupervisorFetch(j)
  \/ SupervisorRemove(j) \/ SupervisorReceipt(j) \/ SupervisorPublish(j)

-----------------------------------------------------------------------------
(***************************************************************************)
(* Time and deaths.                                                        *)
(***************************************************************************)
(* 15 s without a poll, or the file is tidied away.                        *)
HeartbeatAges(j) ==
  /\ j \in beats
  /\ beats' = beats \ {j}
  /\ UNCHANGED <<table, inbox, output, receipts, containers, handlers, broker, supervisor, api, faults>>

ApiDies ==
  /\ api = "up"
  /\ faults < MaxFaults /\ faults' = faults + 1
  /\ api' = "down"
  /\ submit' = [j \in Jobs |-> IF submit[j] \in {"read", "dispatch"} THEN "lost" ELSE submit[j]]
  /\ cancel' = [j \in Jobs |-> "idle"]
  /\ delete' = [j \in Jobs |-> "idle"]
  /\ broker' = IdleBroker
  /\ UNCHANGED <<table, inbox, results, containers, supervisor>>

(* Start-up recovery leaves agent jobs alone.                              *)
ApiStarts ==
  /\ api = "down"
  /\ api' = "up"
  /\ UNCHANGED <<table, inbox, results, containers, handlers, broker, supervisor, faults>>

(* The results volume is a tmpfs: it lives while a process mounts it.      *)
ResultsVanish ==
  /\ api = "down" /\ supervisor.pc = "down"
  /\ output' = [j \in Jobs |-> "none"]
  /\ receipts' = {} /\ beats' = {}
  /\ UNCHANGED <<table, inbox, containers, handlers, broker, supervisor, api, faults>>

Next ==
  \/ \E j \in Jobs : \/ HandlerNext(j)
                     \/ BrokerWork(j) \/ BrokerSendFails(j)
                     \/ SupervisorWork(j) \/ SupervisorBudget(j)
                     \/ SupervisorTidy(j) \/ SupervisorStops(j) \/ HeartbeatAges(j)
  \/ BrokerSelect \/ BrokerGlob \/ BrokerSleep \/ BrokerAborts
  \/ SupervisorStarts \/ SupervisorDies
  \/ ApiDies \/ ApiStarts \/ ResultsVanish

Spec == Init /\ [][Next]_vars

(* The API's event loop, its broker thread and the supervisor's loop run;  *)
(* compose restarts a dead process; a parser that neither ends nor exits   *)
(* meets its deadline.  Nothing makes a client act or a heartbeat age.     *)
Fairness ==
  /\ \A j \in Jobs : /\ WF_vars(SubmitRead(j) \/ SubmitDispatch(j))
                    /\ WF_vars(CancelWrite(j))
                    /\ WF_vars(DeleteCancel(j) \/ DeleteCommit(j))
                    /\ SF_vars(SupervisorBudget(j))
  /\ WF_vars(BrokerProgress)
  /\ WF_vars(\E j \in Jobs : SupervisorWork(j))
  /\ WF_vars(SupervisorStarts)
  /\ WF_vars(ApiStarts)

FairSpec == Spec /\ Fairness

-----------------------------------------------------------------------------
(***************************************************************************)
(* Properties.                                                             *)
(***************************************************************************)
(* "A parser may still be alive; never publish a terminal acknowledgement" *)
(* (supervisor.py): through kills, failed removals and restarts of the     *)
(* launcher, a job with a published result has no container.               *)
ParserGoneBeforeResult == \A j \in Jobs : output[j] # "none" => j \notin containers

(* The receipt and the result are two files, written one after the other   *)
(* and unlinked one by one: the broker never meets a parser's result for   *)
(* an active job whose receipt is not there, and so never fails the job    *)
(* for that.                                                               *)
ReceiptReady ==
  \A j \in Jobs : IsActive(jobs, j) /\ output[j] \in {"parsed", "refused"} => j \in receipts

(* "completion only after container removal and evidence persistence"      *)
(* (AGENTIC_RELEASE_PLAN): a job that becomes done has its evidence saved  *)
(* and no parser running, at that very step.                               *)
CompletionAfterRemoval ==
  [][\A j \in Jobs : jobs[j].status # "done" /\ jobs'[j].status = "done"
       => j \in analyses /\ j \notin containers]_vars

(* "A concurrent cancellation must remain terminal" (fail_active): unlike  *)
(* the in-process queue, no write of the broker or of the API brings a     *)
(* settled agent job back or settles it twice.                             *)
AgentMoves ==
  {<<"absent", "queued">>, <<"queued", "running">>} \cup (Active \X Terminal)

Lifecycle == INSTANCE JobLifecycle WITH status <- [j \in Jobs |-> jobs[j].status],
                                        Moves <- AgentMoves

(* The spool implements the abstract lifecycle with these moves: broker,   *)
(* cancellation and deletion settle a row once (spool.py, submission.py).  *)
LifecycleRefined == Lifecycle!LifecycleSpec

(* Durable requests and results: an accepted capture settles although the  *)
(* API dies before it dispatched it, the launcher dies with the container  *)
(* running, or the results are lost with both.                             *)
JobsSettle == \A j \in Jobs : IsActive(jobs, j) ~> ~IsActive(jobs, j)

(* No container outlives its run: the launcher removes it, or removes it   *)
(* when it is started again.                                               *)
ContainersReclaimed == \A j \in Jobs : j \in containers ~> j \notin containers

(* What enters the spool leaves it: accepted captures settle and their     *)
(* containers go (spool.py:136, supervisor.py:225).                        *)
SpoolSettles == JobsSettle /\ ContainersReclaimed

-----------------------------------------------------------------------------
(***************************************************************************)
(* The inductive invariant behind the safety properties above.             *)
(***************************************************************************)
(* Job ids are uuids: before its submission commits, nobody knows one.     *)
UnsubmittedLeavesNoTrace ==
  \A j \in Jobs : submit[j] = "new" =>
    /\ ~Present(jobs, j) /\ j \notin cases
    /\ inbox[j] = {} /\ output[j] = "none" /\ cancel[j] = "idle"
    /\ broker.job # j /\ j \notin broker.todo /\ supervisor.job # j

(* The launcher works on a job without a result, on one at a time, and its *)
(* container is gone before there is a receipt.                            *)
RunPC == {"open", "run", "beat", "remove", "receipt", "publish"}

RunHasNoResult ==
  supervisor.pc \in RunPC => supervisor.job \in Jobs /\ output[supervisor.job] = "none"

OneContainer ==
  /\ supervisor.pc \in {"idle", "open", "receipt", "publish"} => containers = {}
  /\ supervisor.pc \in {"run", "beat", "remove"} => containers \subseteq {supervisor.job}

ReceiptBeforeResult ==
  supervisor.pc = "publish" /\ supervisor.outcome # "stopped" => supervisor.job \in receipts

(* The folder of a job stays until the job has settled.                    *)
FolderKept ==
  \A j \in Jobs : IsActive(jobs, j) /\ (output[j] # "none" \/ supervisor.job = j) => inbox[j] # {}

(* What the broker collects keeps its result until the job has settled, is *)
(* saved before it is completed, and is settled before its folder goes.    *)
CollectPC == {"collect", "judge", "save", "complete", "clean"}

CollectedHasResult ==
  broker.pc \in CollectPC =>
    \A j \in Jobs : IsActive(jobs, j) /\ (j \in broker.todo \/ broker.job = j) => output[j] # "none"

CollectedInOrder ==
  \A j \in Jobs : IsActive(jobs, j) => /\ At("complete", j) => j \in analyses
                                      /\ ~At("clean", j)

BrokerNeedsApi == api = "down" => broker.pc = "idle"

IInv == /\ TypeOK /\ UnsubmittedLeavesNoTrace
        /\ RunHasNoResult /\ OneContainer /\ ReceiptBeforeResult
        /\ FolderKept /\ CollectedHasResult /\ CollectedInOrder /\ BrokerNeedsApi
        /\ ParserGoneBeforeResult /\ ReceiptReady

-----------------------------------------------------------------------------
=============================================================================
