------------------------------ MODULE JobQueue ------------------------------
(***************************************************************************)
(* The in-process job queue: app/api/queue.py with the request handlers    *)
(* that feed it (API upload, workbench batch upload, Streamlit batch,      *)
(* report regeneration), the handlers that delete cases, the recovery run  *)
(* at start-up and the retention sweep.                                    *)
(*                                                                         *)
(* Several server processes (the API, the workbench, Streamlit) share one  *)
(* SQLite database.  Each has its own ProcessPoolExecutor; a submitted     *)
(* future lives only in the memory of its process, the job row only in the *)
(* database.  Every action below is at most one committed transaction, so  *)
(* all the check-then-act windows of the handlers are steps apart.         *)
(***************************************************************************)
EXTENDS JobTable, Naturals, FiniteSets

CONSTANTS
  Hosts,        \* server processes that own a queue
  ApiHost,      \* the one that serves DELETE /cases and runs the hourly sweep
  Recovers,     \* the hosts that recover stale jobs when they start
  Workers,      \* pool processes
  HostOf,       \* the host whose pool a worker belongs to
  Cases, Jobs,
  NoJob,        \* "no job" in the local state of handlers and processes
  Requests,     \* submissions
  Kind,         \* "upload", "streamlit" or "report"
  CaseOf,       \* the case a request creates, or that a report belongs to
  RequestOf,    \* the request that enqueues a job
  EvidenceOf,   \* the job whose analysis row a job writes: itself, or for a
                \* report job the upload job whose analysis it rewrites
  MaxDepth,     \* queue_depth
  MaxCrashes,   \* bound on process and pool deaths
  MaxFaults     \* bound on the jobs whose database calls raise

ASSUME QueueAssumption ==
  /\ ApiHost \in Hosts
  /\ Recovers \subseteq Hosts
  /\ HostOf \in [Workers -> Hosts]
  /\ Kind \in [Requests -> {"upload", "streamlit", "report"}]
  /\ CaseOf \in [Requests -> Cases]
  /\ RequestOf \in [Jobs -> Requests]
  /\ EvidenceOf \in [Jobs -> Jobs]
  /\ \A j \in Jobs : CaseOf[RequestOf[EvidenceOf[j]]] = CaseOf[RequestOf[j]]
  /\ \A j \in Jobs : Kind[RequestOf[j]] # "report" => EvidenceOf[j] = j
  /\ \A p, q \in Requests :
       Kind[p] # "report" /\ Kind[q] # "report" /\ CaseOf[p] = CaseOf[q] => p = q
  /\ NoJob \notin Jobs
  /\ IsFiniteSet(Hosts) /\ IsFiniteSet(Requests) /\ IsFiniteSet(Jobs)
  /\ MaxDepth \in Nat \ {0}
  /\ MaxCrashes \in Nat /\ MaxFaults \in Nat

VARIABLES
  jobs,       \* the jobs table
  cases,      \* the rows of the cases table
  analyses,   \* the rows of the analyses table, named by the job that made them
  request,    \* program counter and local state of each submission handler
  host,       \* "up", "down" or "boot" (start-up recovery running)
  toFail,     \* stale jobs a booting host has selected and not yet failed
  pending,    \* futures in the executor of a host
  broken,     \* the executor lost a process: submit() raises from now on
  worker,     \* program counter and job of each pool process
  deleter,    \* DELETE /cases/{id} in flight, per case
  crashes,    \* deaths so far
  faulted     \* jobs a worker or handler lost to a raising database call

vars == <<jobs, cases, analyses, request, host, toFail, pending, broken,
          worker, deleter, crashes, faulted>>

CaseOfJob(j)  == CaseOf[RequestOf[j]]
JobsOf(q)     == {j \in Jobs : RequestOf[j] = q}
CaseJobs(c)   == {j \in Jobs : CaseOfJob(j) = c}
IsReport(j)   == Kind[RequestOf[j]] = "report"

RequestPC == {"new", "open", "counted", "inserted", "rollback", "accepted", "rejected", "undeleted", "lost"}
WorkerPC  == {"idle", "guarded", "run", "saving", "complete", "unsaved", "fail"}

RequestState == [pc : RequestPC, host : Hosts, job : Jobs \cup {NoJob}, enqueued : SUBSET Jobs]
WorkerState  == [pc : WorkerPC, job : Jobs \cup {NoJob}]
DeleterState == [pc : {"idle", "rows"}, rows : SUBSET Jobs,
                 queued : SUBSET Jobs, running : SUBSET Jobs]

IdleWorker  == [pc |-> "idle", job |-> NoJob]
IdleDeleter == [pc |-> "idle", rows |-> {}, queued |-> {}, running |-> {}]

TypeOK ==
  /\ jobs \in Table(Jobs)
  /\ cases \subseteq Cases
  /\ analyses \subseteq Jobs
  /\ request \in [Requests -> RequestState]
  /\ host \in [Hosts -> {"up", "down", "boot"}]
  /\ toFail \in [Hosts -> SUBSET Jobs]
  /\ pending \in [Hosts -> SUBSET Jobs]
  /\ broken \in [Hosts -> BOOLEAN]
  /\ worker \in [Workers -> WorkerState]
  /\ deleter \in [Cases -> DeleterState]
  /\ crashes \in Nat
  /\ faulted \subseteq Jobs

Init ==
  /\ jobs = [j \in Jobs |-> NoRow]
  /\ cases = {}
  /\ analyses = {}
  /\ request = [q \in Requests |-> [pc |-> "new", host |-> ApiHost, job |-> NoJob, enqueued |-> {}]]
  /\ host = [h \in Hosts |-> "up"]
  /\ toFail = [h \in Hosts |-> {}]
  /\ pending = [h \in Hosts |-> {}]
  /\ broken = [h \in Hosts |-> FALSE]
  /\ worker = [w \in Workers |-> IdleWorker]
  /\ deleter = [c \in Cases |-> IdleDeleter]
  /\ crashes = 0
  /\ faulted = {}

-----------------------------------------------------------------------------
(* repository.delete_case: one transaction over every table of the case.   *)
DeleteCaseRows(c) ==
  /\ jobs' = DeleteJobs(jobs, CaseJobs(c))
  /\ cases' = cases \ {c}
  /\ analyses' = analyses \ CaseJobs(c)

-----------------------------------------------------------------------------
(***************************************************************************)
(* Database calls may raise anywhere (a locked or full database).  Most    *)
(* are caught, and then are the error paths of the actions below.  Those   *)
(* that are not leave the row of j behind with nobody to answer for it.    *)
(***************************************************************************)
Fault(j) ==
  /\ Cardinality(faulted \cup {j}) <= MaxFaults
  /\ faulted' = faulted \cup {j}

-----------------------------------------------------------------------------
(***************************************************************************)
(* Submission handlers.  enqueue() is three transactions: count, insert,   *)
(* read back and submit.                                                   *)
(***************************************************************************)
GoTo(q, r) == request' = [request EXCEPT ![q] = r]

(* The upload handlers are coroutines that await only while they read a    *)
(* file: between two awaits no other upload of the same process runs.      *)
(* Streamlit sessions are threads and keep no such discipline.             *)
LoopFree(q, h) ==
  Kind[q] = "upload" =>
    \A p \in Requests \ {q} :
      Kind[p] = "upload" /\ request[p].host = h
        => request[p].pc \notin {"counted", "inserted", "rollback"}

SourcesSaved(q) == \A j \in JobsOf(q) : EvidenceOf[j] \in analyses

(* The handler creates the case row; a report request instead checks that  *)
(* the analyses it will rewrite exist.                                     *)
SubmitOpen(q, h) ==
  /\ request[q].pc = "new"
  /\ host[h] = "up"
  /\ LoopFree(q, h)
  /\ IF Kind[q] = "report"
       THEN SourcesSaved(q) /\ UNCHANGED cases
       ELSE cases' = cases \cup {CaseOf[q]}
  /\ GoTo(q, [request[q] EXCEPT !.pc = "open", !.host = h])
  /\ UNCHANGED <<jobs, analyses, host, toFail, pending, broken, worker, deleter, crashes, faulted>>

(* Mutant: the depth is checked once per batch, before its first capture.  *)
SubmitCountBatchOnce(q, j) ==
  /\ request[q].pc = "open"
  /\ LoopFree(q, request[q].host)
  /\ j \in JobsOf(q) \ request[q].enqueued
  /\ IF request[q].enqueued = {} /\ Cardinality(ActiveJobs(jobs)) >= MaxDepth
       THEN GoTo(q, [request[q] EXCEPT !.pc = "rollback"])
       ELSE GoTo(q, [request[q] EXCEPT !.pc = "counted", !.job = j])
  /\ UNCHANGED <<jobs, cases, analyses, host, toFail, pending, broken, worker, deleter, crashes, faulted>>

(* count_active_jobs and the depth check for the next capture.             *)
SubmitCount(q, j) ==
  /\ request[q].pc = "open"
  /\ LoopFree(q, request[q].host)
  /\ j \in JobsOf(q) \ request[q].enqueued
  /\ IF Cardinality(ActiveJobs(jobs)) >= MaxDepth
       THEN GoTo(q, [request[q] EXCEPT !.pc = "rollback"])
       ELSE GoTo(q, [request[q] EXCEPT !.pc = "counted", !.job = j])
  /\ UNCHANGED <<jobs, cases, analyses, host, toFail, pending, broken, worker, deleter, crashes, faulted>>

SubmitInsert(q) ==
  /\ request[q].pc = "counted"
  /\ jobs' = CreateJob(jobs, request[q].job)
  /\ GoTo(q, [request[q] EXCEPT !.pc = "inserted"])
  /\ UNCHANGED <<cases, analyses, host, toFail, pending, broken, worker, deleter, crashes, faulted>>

(* Mutant: a busy pool is expected to find the row by itself.              *)
SubmitDispatchIfIdle(q) ==
  LET j == request[q].job
      h == request[q].host
      enqueued == request[q].enqueued \cup {j}
  IN  /\ request[q].pc = "inserted"
      /\ pending' = IF pending[h] = {} THEN [pending EXCEPT ![h] = {j}] ELSE pending
      /\ GoTo(q, [request[q] EXCEPT
                   !.pc = IF enqueued = JobsOf(q) THEN "accepted" ELSE "open",
                   !.job = NoJob, !.enqueued = enqueued])
      /\ UNCHANGED <<jobs, cases, analyses, host, toFail, broken, worker, deleter, crashes, faulted>>

(* dispatch() reads the row back and submits a future only while it is     *)
(* queued; a broken executor raises.  After the last capture the client    *)
(* gets its 202.                                                           *)
SubmitDispatch(q) ==
  LET j == request[q].job
      h == request[q].host
      enqueued == request[q].enqueued \cup {j}
      raises == jobs[j].status = "queued" /\ broken[h]
  IN  /\ request[q].pc = "inserted"
      /\ pending' = IF jobs[j].status = "queued" /\ ~broken[h]
                      THEN [pending EXCEPT ![h] = @ \cup {j}]
                      ELSE pending
      /\ GoTo(q, IF raises
                   THEN [request[q] EXCEPT !.pc = "rollback", !.job = NoJob]
                   ELSE [request[q] EXCEPT
                          !.pc = IF enqueued = JobsOf(q) THEN "accepted" ELSE "open",
                          !.job = NoJob, !.enqueued = enqueued])
      /\ UNCHANGED <<jobs, cases, analyses, host, toFail, broken, worker, deleter, crashes, faulted>>

(* count_active_jobs has passed and create_job raises: there is no row.    *)
SubmitInsertRaises(q) ==
  /\ request[q].pc = "counted"
  /\ GoTo(q, [request[q] EXCEPT !.pc = "rollback", !.job = NoJob])
  /\ UNCHANGED <<jobs, cases, analyses, host, toFail, pending, broken, worker, deleter, crashes, faulted>>

(* The row is in the table, and reading it back or handing it to the       *)
(* executor raises.                                                        *)
SubmitDispatchRaises(q) ==
  /\ request[q].pc = "inserted"
  /\ Fault(request[q].job)
  /\ GoTo(q, [request[q] EXCEPT !.pc = "rollback", !.job = NoJob])
  /\ UNCHANGED <<jobs, cases, analyses, host, toFail, pending, broken, worker, deleter, crashes>>

(* A later step of the handler raises (a rejected file, a lost client).    *)
SubmitAbort(q) ==
  /\ request[q].pc = "open"
  /\ Kind[q] = "upload"
  /\ LoopFree(q, request[q].host)
  /\ GoTo(q, [request[q] EXCEPT !.pc = "rollback"])
  /\ UNCHANGED <<jobs, cases, analyses, host, toFail, pending, broken, worker, deleter, crashes, faulted>>

(* Mutant: only an upload that enqueued something has a case to delete.    *)
SubmitRollbackIfEnqueued(q) ==
  /\ request[q].pc = "rollback"
  /\ IF request[q].enqueued # {}
       THEN DeleteCaseRows(CaseOf[q])
       ELSE UNCHANGED <<jobs, cases, analyses>>
  /\ GoTo(q, [request[q] EXCEPT !.pc = "rejected"])
  /\ UNCHANGED <<host, toFail, pending, broken, worker, deleter, crashes, faulted>>

(* The error path.  An upload deletes its case whatever it enqueued before; *)
(* the Streamlit batch only when it enqueued nothing; a report never.      *)
DropsCase(q) ==
  \/ Kind[q] = "upload"
  \/ Kind[q] = "streamlit" /\ request[q].enqueued = {}

SubmitRollback(q) ==
  /\ request[q].pc = "rollback"
  /\ IF DropsCase(q)
       THEN DeleteCaseRows(CaseOf[q])
       ELSE UNCHANGED <<jobs, cases, analyses>>
  /\ GoTo(q, [request[q] EXCEPT !.pc = "rejected"])
  /\ UNCHANGED <<host, toFail, pending, broken, worker, deleter, crashes, faulted>>

(* delete_case answers False when its transaction fails, and the handlers  *)
(* go on without looking: the refused submission keeps case and rows.      *)
SubmitRollbackFails(q) ==
  /\ request[q].pc = "rollback"
  /\ DropsCase(q)
  /\ GoTo(q, [request[q] EXCEPT !.pc = "undeleted"])
  /\ UNCHANGED <<jobs, cases, analyses, host, toFail, pending, broken, worker, deleter, crashes, faulted>>

-----------------------------------------------------------------------------
(***************************************************************************)
(* Pool processes: _worker_run.                                            *)
(***************************************************************************)
WorkerAt(w, pc) == worker[w].pc = pc
Goto(w, pc, j)  == worker' = [worker EXCEPT ![w] = [pc |-> pc, job |-> j]]

(* Take a future and read its row: a missing or cancelled job is skipped.  *)
WorkerTake(w, j) ==
  LET h == HostOf[w]
  IN  /\ WorkerAt(w, "idle")
      /\ host[h] = "up"
      /\ j \in pending[h]
      /\ pending' = [pending EXCEPT ![h] = @ \ {j}]
      /\ IF jobs[j].status \in {"absent", "cancelled"}
           THEN UNCHANGED worker
           ELSE Goto(w, "guarded", j)
      /\ UNCHANGED <<jobs, cases, analyses, request, host, toFail, broken, deleter, crashes, faulted>>

(* The repository or its get_job raises before the row is looked at: the   *)
(* future ends with the exception, which nobody reads, and the row waits.  *)
WorkerTakeRaises(w, j) ==
  LET h == HostOf[w]
  IN  /\ WorkerAt(w, "idle")
      /\ host[h] = "up"
      /\ j \in pending[h]
      /\ pending' = [pending EXCEPT ![h] = @ \ {j}]
      /\ Fault(j)
      /\ UNCHANGED <<jobs, cases, analyses, request, host, toFail, broken, worker, deleter, crashes>>

(* Mutant: the result of the claim is not looked at.                       *)
WorkerClaimUnchecked(w) ==
  /\ WorkerAt(w, "guarded")
  /\ jobs' = StartJobIfQueued(jobs, worker[w].job)
  /\ Goto(w, "run", worker[w].job)
  /\ UNCHANGED <<cases, analyses, request, host, toFail, pending, broken, deleter, crashes, faulted>>

(* The compare-and-set claim; losing it skips the job.                     *)
WorkerClaim(w) ==
  LET j == worker[w].job
  IN  /\ WorkerAt(w, "guarded")
      /\ jobs' = StartJobIfQueued(jobs, j)
      /\ IF jobs[j].status = "queued" THEN Goto(w, "run", j) ELSE Goto(w, "idle", NoJob)
      /\ UNCHANGED <<cases, analyses, request, host, toFail, pending, broken, deleter, crashes, faulted>>

(* The claim is outside the try as well.                                   *)
WorkerClaimRaises(w) ==
  /\ WorkerAt(w, "guarded")
  /\ Fault(worker[w].job)
  /\ Goto(w, "idle", NoJob)
  /\ UNCHANGED <<jobs, cases, analyses, request, host, toFail, pending, broken, deleter, crashes>>

(* A stage starts or ends: progress columns and heartbeat are rewritten.   *)
WorkerBeat(w) ==
  /\ worker[w].pc \in {"run", "saving"}
  /\ jobs' = TouchHeartbeat(jobs, worker[w].job)
  /\ UNCHANGED <<cases, analyses, request, host, toFail, pending, broken, worker, deleter, crashes, faulted>>

(* The pipeline ends.  A report job has read the analysis it rewrites by   *)
(* then, and fails without it.                                             *)
WorkerLoad(w) ==
  LET j == worker[w].job
  IN  /\ WorkerAt(w, "run")
      /\ Goto(w, IF IsReport(j) /\ EvidenceOf[j] \notin analyses THEN "fail" ELSE "saving", j)
      /\ UNCHANGED <<jobs, cases, analyses, request, host, toFail, pending, broken, deleter, crashes, faulted>>

(* save_analysis commits: an upsert that does not look at the case.        *)
WorkerPersist(w) ==
  LET j == worker[w].job
  IN  /\ WorkerAt(w, "saving")
      /\ analyses' = analyses \cup {EvidenceOf[j]}
      /\ Goto(w, "complete", j)
      /\ UNCHANGED <<jobs, cases, request, host, toFail, pending, broken, deleter, crashes, faulted>>

(* A stage raises, or a report job cannot save, or the result cannot be    *)
(* serialised or stored.                                                   *)
WorkerError(w) ==
  /\ worker[w].pc \in {"run", "saving", "complete"}
  /\ Goto(w, "fail", worker[w].job)
  /\ UNCHANGED <<jobs, cases, analyses, request, host, toFail, pending, broken, deleter, crashes, faulted>>

(* Mutant: the worker completes the job without an analysis_id.            *)
WorkerPersistFailsQuietly(w) ==
  /\ WorkerAt(w, "saving")
  /\ ~IsReport(worker[w].job)
  /\ Goto(w, "complete", worker[w].job)
  /\ UNCHANGED <<jobs, cases, analyses, request, host, toFail, pending, broken, deleter, crashes, faulted>>

(* _persist_analysis swallows the exception of save_analysis; the worker   *)
(* sees no analysis_id and raises EvidencePersistenceError.                *)
WorkerPersistFails(w) ==
  /\ WorkerAt(w, "saving")
  /\ ~IsReport(worker[w].job)
  /\ Goto(w, "unsaved", worker[w].job)
  /\ UNCHANGED <<jobs, cases, analyses, request, host, toFail, pending, broken, deleter, crashes, faulted>>

WorkerComplete(w) ==
  /\ WorkerAt(w, "complete")
  /\ jobs' = CompleteJob(jobs, worker[w].job)
  /\ Goto(w, "idle", NoJob)
  /\ UNCHANGED <<cases, analyses, request, host, toFail, pending, broken, deleter, crashes, faulted>>

(* Mutant: the exception is logged and the row left as it is.              *)
WorkerFailSilently(w) ==
  /\ worker[w].pc \in {"fail", "unsaved"}
  /\ Goto(w, "idle", NoJob)
  /\ UNCHANGED <<jobs, cases, analyses, request, host, toFail, pending, broken, deleter, crashes, faulted>>

WorkerFail(w) ==
  /\ worker[w].pc \in {"fail", "unsaved"}
  /\ jobs' = FailJob(jobs, worker[w].job)
  /\ Goto(w, "idle", NoJob)
  /\ UNCHANGED <<cases, analyses, request, host, toFail, pending, broken, deleter, crashes, faulted>>

(* The write of the error path raises: the row stays running until a       *)
(* server starts and finds its heartbeat stale.                            *)
WorkerFailRaises(w) ==
  /\ worker[w].pc \in {"fail", "unsaved"}
  /\ Fault(worker[w].job)
  /\ Goto(w, "idle", NoJob)
  /\ UNCHANGED <<jobs, cases, analyses, request, host, toFail, pending, broken, deleter, crashes>>

-----------------------------------------------------------------------------
(***************************************************************************)
(* DELETE /cases/{id}: read the rows, cancel the queued ones one by one,   *)
(* refuse on a running one, then delete.                                   *)
(***************************************************************************)
DeleteSelect(c) ==
  /\ deleter[c].pc = "idle"
  /\ host[ApiHost] = "up"
  /\ c \in cases
  /\ deleter' = [deleter EXCEPT ![c] =
       [pc |-> "rows",
        rows    |-> {j \in CaseJobs(c) : Present(jobs, j)},
        queued  |-> {j \in CaseJobs(c) : jobs[j].status = "queued"},
        running |-> {j \in CaseJobs(c) : jobs[j].status = "running"}]]
  /\ UNCHANGED <<jobs, cases, analyses, request, host, toFail, pending, broken, worker, crashes, faulted>>

(* 409 case_has_running_job for a row that was running in the SELECT.      *)
DeleteRefuse(c) ==
  /\ deleter[c].pc = "rows"
  /\ deleter[c].running # {}
  /\ deleter' = [deleter EXCEPT ![c] = IdleDeleter]
  /\ UNCHANGED <<jobs, cases, analyses, request, host, toFail, pending, broken, worker, crashes, faulted>>

(* A cancel or the cascade itself raises or answers False: the request     *)
(* ends, and what it has cancelled so far stays cancelled.                 *)
DeleteRaises(c) ==
  /\ deleter[c].pc = "rows"
  /\ deleter' = [deleter EXCEPT ![c] = IdleDeleter]
  /\ UNCHANGED <<jobs, cases, analyses, request, host, toFail, pending, broken, worker, crashes, faulted>>

(* Mutant: the outcome of the cancel is not looked at.                     *)
DeleteCancelUnchecked(c, j) ==
  /\ deleter[c].pc = "rows"
  /\ j \in deleter[c].queued
  /\ jobs' = CancelJobIfQueued(jobs, j)
  /\ deleter' = [deleter EXCEPT ![c].queued = @ \ {j}]
  /\ UNCHANGED <<cases, analyses, request, host, toFail, pending, broken, worker, crashes, faulted>>

(* Cancel a row that was queued in the SELECT; 409 if it no longer is.     *)
DeleteCancel(c, j) ==
  /\ deleter[c].pc = "rows"
  /\ j \in deleter[c].queued
  /\ jobs' = CancelJobIfQueued(jobs, j)
  /\ deleter' = [deleter EXCEPT ![c] =
       IF jobs[j].status = "queued" THEN [deleter[c] EXCEPT !.queued = @ \ {j}]
                                   ELSE IdleDeleter]
  /\ UNCHANGED <<cases, analyses, request, host, toFail, pending, broken, worker, crashes, faulted>>

(* All rows passed: the cascade (404 when the case is already gone).       *)
DeleteCommit(c) ==
  /\ deleter[c].pc = "rows"
  /\ deleter[c].queued = {} /\ deleter[c].running = {}
  /\ DeleteCaseRows(c)
  /\ deleter' = [deleter EXCEPT ![c] = IdleDeleter]
  /\ UNCHANGED <<request, host, toFail, pending, broken, worker, crashes, faulted>>

(* The Streamlit case page calls repository.delete_case with no look at    *)
(* the jobs of the case.                                                   *)
DirectDelete(c) ==
  /\ c \in cases
  /\ DeleteCaseRows(c)
  /\ UNCHANGED <<request, host, toFail, pending, broken, worker, deleter, crashes, faulted>>

-----------------------------------------------------------------------------
(***************************************************************************)
(* The retention sweep.                                                    *)
(***************************************************************************)
GcOldJobs(S) ==
  /\ host[ApiHost] = "up"
  /\ S # {}
  /\ \A j \in S : jobs[j].finished
  /\ jobs' = DeleteJobs(jobs, S)
  /\ UNCHANGED <<cases, analyses, request, host, toFail, pending, broken, worker, deleter, crashes, faulted>>

OrphanJobs == {j \in Jobs : CaseOfJob(j) \notin cases}

GcOrphans ==
  /\ host[ApiHost] = "up"
  /\ \E j \in OrphanJobs : Present(jobs, j) \/ j \in analyses
  /\ jobs' = DeleteJobs(jobs, OrphanJobs)
  /\ analyses' = analyses \ OrphanJobs
  /\ UNCHANGED <<cases, request, host, toFail, pending, broken, worker, deleter, crashes, faulted>>

-----------------------------------------------------------------------------
(***************************************************************************)
(* Time, deaths and restarts.                                              *)
(***************************************************************************)
HeartbeatAges(j) ==
  /\ jobs[j].status = "running" /\ jobs[j].fresh
  /\ jobs' = AgeHeartbeat(jobs, j)
  /\ UNCHANGED <<cases, analyses, request, host, toFail, pending, broken, worker, deleter, crashes, faulted>>

PoolStopped(h) ==
  /\ pending' = [pending EXCEPT ![h] = {}]
  /\ worker' = [w \in Workers |-> IF HostOf[w] = h THEN IdleWorker ELSE worker[w]]
  /\ crashes < MaxCrashes
  /\ crashes' = crashes + 1

(* A pool process is killed: the executor fails every future, terminates   *)
(* its other processes and refuses later submissions.                      *)
PoolBreaks(h) ==
  /\ host[h] = "up" /\ ~broken[h]
  /\ PoolStopped(h)
  /\ broken' = [broken EXCEPT ![h] = TRUE]
  /\ UNCHANGED <<jobs, cases, analyses, request, host, toFail, deleter, faulted>>

InFlight == {"open", "counted", "inserted", "rollback"}

(* The whole server process dies, and its handlers with it.                *)
HostCrash(h) ==
  /\ host[h] # "down"
  /\ PoolStopped(h)
  /\ host' = [host EXCEPT ![h] = "down"]
  /\ toFail' = [toFail EXCEPT ![h] = {}]
  /\ broken' = [broken EXCEPT ![h] = FALSE]
  /\ request' = [q \in Requests |->
       IF request[q].host = h /\ request[q].pc \in InFlight
         THEN [request[q] EXCEPT !.pc = "lost", !.job = NoJob]
         ELSE request[q]]
  /\ deleter' = IF h = ApiHost THEN [c \in Cases |-> IdleDeleter] ELSE deleter
  /\ UNCHANGED <<jobs, cases, analyses, faulted>>

(* recover_stale_running_jobs: one SELECT, then one unconditional UPDATE   *)
(* per selected row.                                                       *)
HostBoot(h) ==
  /\ host[h] = "down"
  /\ host' = [host EXCEPT ![h] = "boot"]
  /\ toFail' = [toFail EXCEPT ![h] = IF h \in Recovers THEN StaleRunningJobs(jobs) ELSE {}]
  /\ UNCHANGED <<jobs, cases, analyses, request, pending, broken, worker, deleter, crashes, faulted>>

HostRecover(h, j) ==
  /\ j \in toFail[h]
  /\ jobs' = FailJob(jobs, j)
  /\ toFail' = [toFail EXCEPT ![h] = @ \ {j}]
  /\ UNCHANGED <<cases, analyses, request, host, pending, broken, worker, deleter, crashes, faulted>>

HostUp(h) ==
  /\ host[h] = "boot" /\ toFail[h] = {}
  /\ host' = [host EXCEPT ![h] = "up"]
  /\ UNCHANGED <<jobs, cases, analyses, request, toFail, pending, broken, worker, deleter, crashes, faulted>>

-----------------------------------------------------------------------------
WorkerNext(w) ==
  \/ \E j \in Jobs : WorkerTake(w, j) \/ WorkerTakeRaises(w, j)
  \/ WorkerClaimRaises(w) \/ WorkerFailRaises(w)
  \/ WorkerClaim(w) \/ WorkerBeat(w) \/ WorkerLoad(w) \/ WorkerPersist(w)
  \/ WorkerError(w) \/ WorkerPersistFails(w) \/ WorkerComplete(w) \/ WorkerFail(w)

SubmitNext(q) ==
  \/ \E h \in Hosts : SubmitOpen(q, h)
  \/ \E j \in Jobs : SubmitCount(q, j)
  \/ SubmitInsert(q) \/ SubmitDispatch(q) \/ SubmitAbort(q) \/ SubmitRollback(q)
  \/ SubmitInsertRaises(q) \/ SubmitDispatchRaises(q) \/ SubmitRollbackFails(q)

DeleteNext(c) ==
  \/ DeleteSelect(c) \/ DeleteRefuse(c) \/ DeleteRaises(c) \/ DeleteCommit(c) \/ DirectDelete(c)
  \/ \E j \in Jobs : DeleteCancel(c, j)

HostNext(h) ==
  \/ PoolBreaks(h) \/ HostCrash(h) \/ HostBoot(h) \/ HostUp(h)
  \/ \E j \in Jobs : HostRecover(h, j)

Next ==
  \/ \E w \in Workers : WorkerNext(w)
  \/ \E q \in Requests : SubmitNext(q)
  \/ \E c \in Cases : DeleteNext(c)
  \/ \E h \in Hosts : HostNext(h)
  \/ \E S \in SUBSET Jobs : GcOldJobs(S)
  \/ GcOrphans
  \/ \E j \in Jobs : HeartbeatAges(j)

Spec == Init /\ [][Next]_vars

-----------------------------------------------------------------------------
(***************************************************************************)
(* Scheduling.  Pool processes, request handlers and a booting server run  *)
(* until they finish; the sweep runs every hour; the heartbeat of a job no *)
(* process works on ages.  Nothing makes a client submit or delete, a      *)
(* stage outlast the heartbeat, a stage raise or a process die.            *)
(***************************************************************************)
WorkerProgress(w) ==
  \/ \E j \in Jobs : WorkerTake(w, j)
  \/ WorkerClaim(w) \/ WorkerLoad(w) \/ WorkerPersist(w) \/ WorkerComplete(w) \/ WorkerFail(w)

SubmitProgress(q) ==
  \/ \E j \in Jobs : SubmitCount(q, j)
  \/ SubmitInsert(q) \/ SubmitDispatch(q) \/ SubmitRollback(q)

DeleteProgress(c) == DeleteRefuse(c) \/ DeleteCommit(c) \/ \E j \in Jobs : DeleteCancel(c, j)

AbandonedAges(j) == HeartbeatAges(j) /\ \A w \in Workers : worker[w].job # j

HostProgress(h) == HostBoot(h) \/ HostUp(h) \/ \E j \in Jobs : HostRecover(h, j)

Fairness ==
  /\ \A w \in Workers : WF_vars(WorkerProgress(w))
  /\ \A q \in Requests : WF_vars(SubmitProgress(q))
  /\ \A c \in Cases : WF_vars(DeleteProgress(c))
  /\ \A h \in Hosts : WF_vars(HostProgress(h))
  /\ \A j \in Jobs : WF_vars(AbandonedAges(j))
  /\ WF_vars(GcOrphans)

FairSpec == Spec /\ Fairness

-----------------------------------------------------------------------------
(***************************************************************************)
(* Properties.                                                             *)
(***************************************************************************)
WorkingPC == {"run", "saving", "complete", "unsaved", "fail"}

(* The claim is a compare-and-set so that a cancel that wins the race wins *)
(* it for good: a process past the claim of _worker_run never works on a   *)
(* row that is still queued or was cancelled.                              *)
ClaimedJobsStayClaimed ==
  \A w \in Workers : worker[w].pc \in WorkingPC =>
    jobs[worker[w].job].status \notin {"queued", "cancelled"}

(* "the job cannot be marked done" without stored evidence (queue.py): a   *)
(* done job has its analysis row, whatever deletions and sweeps ran        *)
(* between save_analysis, complete_job and now.                            *)
DoneImpliesEvidence ==
  \A j \in Jobs : jobs[j].status = "done" => EvidenceOf[j] \in analyses

(* enqueue() checks the depth and inserts in two transactions.  Uploads of *)
(* one process cannot interleave between them, so the queue overshoots its *)
(* depth by at most one row per other process, and one per request of the  *)
(* other kinds, whose handlers are threads.                                *)
Threaded == {q \in Requests : Kind[q] # "upload"}

QueueOvershootBounded ==
  Cardinality(ActiveJobs(jobs)) <= MaxDepth + Cardinality(Hosts) - 1 + Cardinality(Threaded)

Owned(j) ==
  \/ \E h \in Hosts : j \in pending[h]
  \/ \E w \in Workers : worker[w].job = j
  \/ \E q \in Requests : request[q].pc = "inserted" /\ request[q].job = j

(* Futures live in memory and nothing re-submits a queued row: an active   *)
(* job that no future, process or handler accounts for exists only after   *)
(* some process died, or when a database call about that very job raised   *)
(* where nobody catches it (queue.py:543, 551, 592, 617).  A race between  *)
(* claims, cancels, deletions and rollbacks strands none, and a call that  *)
(* raises strands no other job.                                            *)
StrandedOnlyByFailure ==
  \A j \in Jobs : IsActive(jobs, j) /\ ~Owned(j) => crashes > 0 \/ j \in faulted

(* "queue or persistence failures remove the provisional file and case     *)
(* instead of leaving orphans" (README): once the rollback of a refused    *)
(* upload has committed, its case and all its job rows are gone for good,  *)
(* those of the captures that were already dispatched and may be running   *)
(* too; of the captures that were not, no analysis or future ever shows.   *)
RefusedUploadLeavesNothing ==
  \A q \in Requests :
    Kind[q] = "upload" /\ request[q].pc = "rejected" =>
      /\ CaseOf[q] \notin cases
      /\ \A j \in JobsOf(q) : ~Present(jobs, j)
      /\ \A j \in JobsOf(q) \ request[q].enqueued : j \notin analyses /\ ~Owned(j)

(* DELETE /cases cascades only when every job row it read has settled: the *)
(* ones it saw queued lost the race to it, and none of them can start.     *)
SeenJobsSettledAtDelete ==
  \A c \in Cases :
    deleter[c].pc = "rows" /\ deleter[c].queued = {} /\ deleter[c].running = {} =>
      \A j \in deleter[c].rows : ~IsActive(jobs, j)

(* The job rows of the queue move only along this graph.  The two last     *)
(* moves come from the unconditional writes: a worker completing a job     *)
(* that recovery failed, and recovery failing a job that just completed.   *)
QueueMoves ==
  {<<"absent", "queued">>, <<"queued", "running">>, <<"queued", "cancelled">>,
   <<"running", "done">>, <<"running", "failed">>,
   <<"failed", "done">>, <<"done", "failed">>}

Lifecycle == INSTANCE JobLifecycle WITH status <- [j \in Jobs |-> jobs[j].status],
                                        Moves <- QueueMoves

(* The queue implements the abstract lifecycle with these moves: whatever  *)
(* servers, workers, deletions and recoveries do to a row, its status      *)
(* follows the graph (queue.py, repository.py).                            *)
LifecycleRefined == Lifecycle!LifecycleSpec

(* Every active job settles (it is done, failed, cancelled or deleted with *)
(* its case) unless a process dies, or the call that should have started   *)
(* or failed that very job raises.                                         *)
JobsSettle ==
  \A j \in Jobs : IsActive(jobs, j) ~> ~IsActive(jobs, j) \/ crashes > 0 \/ j \in faulted

(* Rows left behind by a deleted case, such as the analysis a worker saves *)
(* after the deletion, do not stay: the sweep collects them.               *)
OrphansCollected ==
  \A j \in Jobs : j \in analyses /\ CaseOfJob(j) \notin cases
                   ~> j \notin analyses \/ CaseOfJob(j) \in cases

(* What enters the queue leaves it: active jobs settle, and what a deleted *)
(* case left behind goes (queue.py:544-597, gc.py:101).                    *)
QueueSettles == JobsSettle /\ OrphansCollected

-----------------------------------------------------------------------------
(***************************************************************************)
(* The inductive invariant behind the safety properties above.             *)
(***************************************************************************)
LocalsOK ==
  /\ \A w \in Workers : worker[w].pc # "idle" => worker[w].job \in Jobs
  /\ \A q \in Requests :
       /\ request[q].pc \in {"counted", "inserted"} => request[q].job \in JobsOf(q)
       /\ request[q].pc = "counted" => request[q].job \notin request[q].enqueued

(* Its handler has not inserted the row of j yet, and still may.           *)
Unborn(j) ==
  LET r == request[RequestOf[j]]
  IN  /\ r.pc \in {"new", "open", "counted", "inserted"}
      /\ j \notin r.enqueued
      /\ ~(r.pc = "inserted" /\ r.job = j)

(* Job ids are uuids: a row is inserted once, before anyone holds its id.  *)
UnbornLeavesNoTrace ==
  \A j \in Jobs : Unborn(j) =>
    /\ ~Present(jobs, j)
    /\ \A h \in Hosts : j \notin pending[h] /\ j \notin toFail[h]
    /\ \A w \in Workers : worker[w].job # j

(* Recovery selects running rows, and a started row never waits again.     *)
RecoveredJobsStarted ==
  \A h \in Hosts : \A j \in toFail[h] : jobs[j].status \notin {"queued", "cancelled"}

(* A process about to complete a job has saved its analysis, and whatever  *)
(* removed the analysis since then removed the row of the job as well.     *)
SavedBeforeDone ==
  \A w \in Workers :
    worker[w].pc = "complete" /\ Present(jobs, worker[w].job)
      => EvidenceOf[worker[w].job] \in analyses

IInv == /\ TypeOK /\ LocalsOK /\ UnbornLeavesNoTrace
        /\ ClaimedJobsStayClaimed /\ RecoveredJobsStarted
        /\ SavedBeforeDone /\ DoneImpliesEvidence

(* Without a death or a raising call every queued row has its future, a    *)
(* process about to claim it, or its handler; every running row a process. *)
QueuedOwner(j) ==
  \/ \E h \in Hosts : j \in pending[h]
  \/ \E w \in Workers : worker[w] = [pc |-> "guarded", job |-> j]
  \/ \E q \in Requests : request[q].pc = "inserted" /\ request[q].job = j

RunningOwner(j) == \E w \in Workers : worker[w].pc \in WorkingPC /\ worker[w].job = j

Accounted(j) == /\ jobs[j].status = "queued" => QueuedOwner(j)
                /\ jobs[j].status = "running" => RunningOwner(j)

ActiveAccounted ==
  crashes = 0 => /\ \A h \in Hosts : host[h] = "up" /\ ~broken[h]
                 /\ \A j \in Jobs \ faulted : Accounted(j)

(* Rows a deletion has passed had a row then, and have settled since.      *)
PassedRowsSettled ==
  \A c \in Cases : deleter[c].pc = "rows" =>
    \A j \in deleter[c].rows :
      /\ ~Unborn(j)
      /\ j \in deleter[c].queued \cup deleter[c].running \/ ~IsActive(jobs, j)

(* Between its count and its insert a handler is alone on its event loop.  *)
OneOnLoop ==
  \A p, q \in Requests :
    /\ Kind[p] = "upload" /\ Kind[q] = "upload" /\ request[p].host = request[q].host
    /\ request[p].pc \in {"counted", "inserted", "rollback"}
    /\ request[q].pc \in {"counted", "inserted", "rollback"}
    => p = q

(* Handlers that have counted will insert, whatever has become active.     *)
Counters == {q \in Requests : request[q].pc = "counted"}

CountersBounded ==
  Cardinality(ActiveJobs(jobs)) + Cardinality(Counters)
    <= MaxDepth + Cardinality(Hosts) - 1 + Cardinality(Threaded)

(* A handler that has not come to its end has captures left to enqueue.    *)
EnqueuedOK ==
  \A q \in Requests :
    /\ request[q].enqueued \subseteq JobsOf(q)
    /\ request[q].pc = "new" => request[q].enqueued = {}
    /\ request[q].pc \notin {"accepted", "lost"} /\ JobsOf(q) # {} => request[q].enqueued # JobsOf(q)

(* What was never dispatched no process ever took: it has no analysis, and *)
(* nobody could ask for a report of it.                                    *)
Undispatched(j) == j \notin request[RequestOf[j]].enqueued

UndispatchedUntouched ==
  \A j \in Jobs : Undispatched(j) =>
    /\ \A h \in Hosts : j \notin pending[h]
    /\ \A w \in Workers : worker[w].job # j
    /\ j \notin analyses
    /\ \A k \in Jobs : IsReport(k) /\ EvidenceOf[k] = j => request[RequestOf[k]].pc = "new"

(* The case and the rows of a refused upload are gone for good.            *)
RefusedRowsGone ==
  \A q \in Requests : Kind[q] = "upload" /\ request[q].pc = "rejected" =>
    /\ CaseOf[q] \notin cases
    /\ \A j \in JobsOf(q) : ~Present(jobs, j)

UploadInv == /\ ActiveAccounted /\ PassedRowsSettled /\ OneOnLoop /\ CountersBounded
             /\ EnqueuedOK /\ UndispatchedUntouched /\ RefusedRowsGone

-----------------------------------------------------------------------------
=============================================================================
