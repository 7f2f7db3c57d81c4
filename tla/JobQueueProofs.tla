--------------------------- MODULE JobQueueProofs ---------------------------
(***************************************************************************)
(* The safety properties of JobQueue for every set of servers, processes,  *)
(* requests and jobs.  IInv is inductive; the properties are its parts.    *)
(***************************************************************************)
EXTENDS JobQueue, FiniteSetTheorems, TLAPS

(* The columns of a row have their types, and only NoRow is absent.        *)
LEMMA RowLemma ==
  ASSUME NEW S, NEW t \in Table(S), NEW j \in S
  PROVE  /\ t[j].fresh \in BOOLEAN
         /\ t[j].finished \in BOOLEAN
         /\ t[j].status \in Statuses \cup {"absent"}
         /\ Present(t, j) <=> t[j].status \in Statuses
<1>1. t[j] \in Row \/ t[j] = NoRow
  BY DEF Table
<1>2. CASE t[j] \in Row
  BY <1>2 DEF Row, Present, Statuses, Active, Terminal
<1>3. CASE t[j] = NoRow
  BY <1>3 DEF NoRow, Present, Statuses, Active, Terminal
<1> QED BY <1>1, <1>2, <1>3

(* Replacing a row gives a table in which only its status may differ.      *)
LEMMA PutLemma ==
  ASSUME NEW S, NEW t \in Table(S), NEW j \in S, NEW r \in Row
  PROVE  LET u == [t EXCEPT ![j] = r] IN
         u \in Table(S) /\ \A k \in S : u[k].status = IF k = j THEN r.status ELSE t[k].status
<1> DEFINE u == [t EXCEPT ![j] = r]
<1>1. u \in Table(S) /\ u[j] = r /\ \A k \in S \ {j} : u[k] = t[k]
  BY DEF Table
<1> QED BY <1>1

(* INSERT: the row of j is queued, the others are as before.               *)
LEMMA CreateJobLemma ==
  ASSUME NEW S, NEW t \in Table(S), NEW j \in S
  PROVE  /\ CreateJob(t, j) \in Table(S)
         /\ \A k \in S : CreateJob(t, j)[k].status = IF k = j THEN "queued" ELSE t[k].status
<1> DEFINE r == [status |-> "queued", fresh |-> TRUE, finished |-> FALSE]
           u == [t EXCEPT ![j] = r]
<1>1. r \in Row /\ r.status = "queued"
  BY RowLemma DEF Row, Statuses, Active, Terminal, Present
<1>2. CreateJob(t, j) = u
  BY DEF CreateJob, Update
<1> HIDE DEF r
<1>3. u \in Table(S) /\ \A k \in S : u[k].status = IF k = j THEN r.status ELSE t[k].status
  BY <1>1, PutLemma
<1> HIDE DEF u
<1> QED BY <1>1, <1>2, <1>3, RowLemma DEF Present, Active

(* The claim moves queued to running and nothing else.                     *)
LEMMA StartLemma ==
  ASSUME NEW S, NEW t \in Table(S), NEW j \in S
  PROVE  /\ StartJobIfQueued(t, j) \in Table(S)
         /\ \A k \in S : StartJobIfQueued(t, j)[k].status =
              IF k = j /\ t[k].status = "queued" THEN "running" ELSE t[k].status
<1> DEFINE r == [status |-> "running", fresh |-> TRUE, finished |-> t[j].finished]
           u == [t EXCEPT ![j] = r]
<1>1. t[j].status = "queued" => r \in Row /\ r.status = "running"
  BY RowLemma DEF Row, Statuses, Active, Terminal, Present
<1>2. StartJobIfQueued(t, j) = IF t[j].status = "queued" THEN u ELSE t
  BY DEF StartJobIfQueued, Update
<1> HIDE DEF r
<1>3. t[j].status = "queued" => u \in Table(S) /\ \A k \in S : u[k].status = IF k = j THEN r.status ELSE t[k].status
  BY <1>1, PutLemma
<1> HIDE DEF u
<1> QED BY <1>1, <1>2, <1>3, RowLemma DEF Present, Active

(* The cancel moves queued to cancelled and nothing else.                  *)
LEMMA CancelLemma ==
  ASSUME NEW S, NEW t \in Table(S), NEW j \in S
  PROVE  /\ CancelJobIfQueued(t, j) \in Table(S)
         /\ \A k \in S : CancelJobIfQueued(t, j)[k].status =
              IF k = j /\ t[k].status = "queued" THEN "cancelled" ELSE t[k].status
<1> DEFINE r == [status |-> "cancelled", fresh |-> t[j].fresh, finished |-> TRUE]
           u == [t EXCEPT ![j] = r]
<1>1. t[j].status = "queued" => r \in Row /\ r.status = "cancelled"
  BY RowLemma DEF Row, Statuses, Active, Terminal, Present
<1>2. CancelJobIfQueued(t, j) = IF t[j].status = "queued" THEN u ELSE t
  BY DEF CancelJobIfQueued, Update
<1> HIDE DEF r
<1>3. t[j].status = "queued" => u \in Table(S) /\ \A k \in S : u[k].status = IF k = j THEN r.status ELSE t[k].status
  BY <1>1, PutLemma
<1> HIDE DEF u
<1> QED BY <1>1, <1>2, <1>3, RowLemma DEF Present, Active

(* complete_job makes whatever row exists done.                            *)
LEMMA CompleteLemma ==
  ASSUME NEW S, NEW t \in Table(S), NEW j \in S
  PROVE  /\ CompleteJob(t, j) \in Table(S)
         /\ \A k \in S : CompleteJob(t, j)[k].status =
              IF k = j /\ t[k].status # "absent" THEN "done" ELSE t[k].status
<1> DEFINE r == [status |-> "done", fresh |-> TRUE, finished |-> TRUE]
           u == [t EXCEPT ![j] = r]
<1>1. Present(t, j) => r \in Row /\ r.status = "done"
  BY RowLemma DEF Row, Statuses, Active, Terminal, Present
<1>2. CompleteJob(t, j) = IF Present(t, j) THEN u ELSE t
  BY DEF CompleteJob, Update
<1> HIDE DEF r
<1>3. Present(t, j) => u \in Table(S) /\ \A k \in S : u[k].status = IF k = j THEN r.status ELSE t[k].status
  BY <1>1, PutLemma
<1> HIDE DEF u
<1> QED BY <1>1, <1>2, <1>3, RowLemma DEF Present, Active

(* update_job_status(FAILED) makes whatever row exists failed.             *)
LEMMA FailLemma ==
  ASSUME NEW S, NEW t \in Table(S), NEW j \in S
  PROVE  /\ FailJob(t, j) \in Table(S)
         /\ \A k \in S : FailJob(t, j)[k].status =
              IF k = j /\ t[k].status # "absent" THEN "failed" ELSE t[k].status
<1> DEFINE r == [status |-> "failed", fresh |-> t[j].fresh, finished |-> TRUE]
           u == [t EXCEPT ![j] = r]
<1>1. Present(t, j) => r \in Row /\ r.status = "failed"
  BY RowLemma DEF Row, Statuses, Active, Terminal, Present
<1>2. FailJob(t, j) = IF Present(t, j) THEN u ELSE t
  BY DEF FailJob, Update
<1> HIDE DEF r
<1>3. Present(t, j) => u \in Table(S) /\ \A k \in S : u[k].status = IF k = j THEN r.status ELSE t[k].status
  BY <1>1, PutLemma
<1> HIDE DEF u
<1> QED BY <1>1, <1>2, <1>3, RowLemma DEF Present, Active

(* Heartbeats change no status.                                            *)
LEMMA TouchLemma ==
  ASSUME NEW S, NEW t \in Table(S), NEW j \in S
  PROVE  /\ TouchHeartbeat(t, j) \in Table(S)
         /\ \A k \in S : TouchHeartbeat(t, j)[k].status = t[k].status
<1> DEFINE r == [status |-> t[j].status, fresh |-> TRUE, finished |-> t[j].finished]
           u == [t EXCEPT ![j] = r]
<1>1. Present(t, j) => r \in Row /\ r.status = t[j].status
  BY RowLemma DEF Row, Statuses, Active, Terminal, Present
<1>2. TouchHeartbeat(t, j) = IF Present(t, j) THEN u ELSE t
  BY DEF TouchHeartbeat, Update
<1> HIDE DEF r
<1>3. Present(t, j) => u \in Table(S) /\ \A k \in S : u[k].status = IF k = j THEN r.status ELSE t[k].status
  BY <1>1, PutLemma
<1> HIDE DEF u
<1> QED BY <1>1, <1>2, <1>3, RowLemma DEF Present, Active

(* ... nor does their ageing.                                              *)
LEMMA AgeLemma ==
  ASSUME NEW S, NEW t \in Table(S), NEW j \in S
  PROVE  /\ AgeHeartbeat(t, j) \in Table(S)
         /\ \A k \in S : AgeHeartbeat(t, j)[k].status = t[k].status
<1> DEFINE r == [status |-> t[j].status, fresh |-> FALSE, finished |-> t[j].finished]
           u == [t EXCEPT ![j] = r]
<1>1. Present(t, j) => r \in Row /\ r.status = t[j].status
  BY RowLemma DEF Row, Statuses, Active, Terminal, Present
<1>2. AgeHeartbeat(t, j) = IF Present(t, j) THEN u ELSE t
  BY DEF AgeHeartbeat, Update
<1> HIDE DEF r
<1>3. Present(t, j) => u \in Table(S) /\ \A k \in S : u[k].status = IF k = j THEN r.status ELSE t[k].status
  BY <1>1, PutLemma
<1> HIDE DEF u
<1> QED BY <1>1, <1>2, <1>3, RowLemma DEF Present, Active

(* DELETE removes the rows of D and keeps the others.                      *)
LEMMA DeleteLemma ==
  ASSUME NEW S, NEW t \in Table(S), NEW D
  PROVE  /\ DeleteJobs(t, D) \in Table(S)
         /\ \A k \in S : DeleteJobs(t, D)[k].status = IF k \in D THEN "absent" ELSE t[k].status
BY DEF DeleteJobs, Table, NoRow

(* The local states of processes and handlers that the actions build.      *)
LEMMA LocalStates ==
  /\ \A p \in WorkerPC, j \in Jobs \cup {NoJob} : [pc |-> p, job |-> j] \in WorkerState
  /\ IdleWorker \in WorkerState
  /\ IdleDeleter \in DeleterState
  /\ {"guarded", "run", "saving", "complete", "unsaved", "fail", "idle"} \subseteq WorkerPC
BY DEF WorkerState, DeleterState, IdleWorker, IdleDeleter, WorkerPC

(* Type correctness, one step per action.                                  *)
LEMMA TypeStep ==
  ASSUME TypeOK, LocalsOK, Next
  PROVE  TypeOK'
<1> USE QueueAssumption DEF QueueAssumption
<1>0. jobs \in Table(Jobs)
  BY DEF TypeOK
<1>1. ASSUME NEW w \in Workers, NEW j \in Jobs, WorkerTake(w, j) PROVE TypeOK'
  BY <1>0, <1>1, LocalStates DEF TypeOK, LocalsOK, WorkerTake, WorkerAt, Goto
<1>2. ASSUME NEW w \in Workers, WorkerClaim(w) PROVE TypeOK'
  <2>1. worker[w].job \in Jobs
    BY <1>2 DEF LocalsOK, WorkerClaim, WorkerAt
  <2>2. jobs' \in Table(Jobs)
    BY <1>0, <1>2, <2>1, StartLemma DEF WorkerClaim
  <2>3. worker' \in [Workers -> WorkerState]
    BY <1>2, <2>1, LocalStates DEF TypeOK, WorkerClaim, Goto
  <2> QED BY <1>2, <2>2, <2>3 DEF TypeOK, WorkerClaim
<1>3. ASSUME NEW w \in Workers, WorkerBeat(w) PROVE TypeOK'
  BY <1>0, <1>3, LocalStates, TouchLemma DEF TypeOK, LocalsOK, WorkerBeat
<1>4. ASSUME NEW w \in Workers, WorkerLoad(w) PROVE TypeOK'
  BY <1>0, <1>4, LocalStates DEF TypeOK, LocalsOK, WorkerLoad, WorkerAt, Goto
<1>5. ASSUME NEW w \in Workers, WorkerPersist(w) PROVE TypeOK'
  BY <1>0, <1>5, LocalStates DEF TypeOK, LocalsOK, WorkerPersist, WorkerAt, Goto
<1>6. ASSUME NEW w \in Workers, WorkerError(w) PROVE TypeOK'
  BY <1>0, <1>6, LocalStates DEF TypeOK, LocalsOK, WorkerError, Goto
<1>7. ASSUME NEW w \in Workers, WorkerPersistFails(w) PROVE TypeOK'
  BY <1>0, <1>7, LocalStates DEF TypeOK, LocalsOK, WorkerPersistFails, WorkerAt, Goto
<1>8. ASSUME NEW w \in Workers, WorkerComplete(w) PROVE TypeOK'
  BY <1>0, <1>8, LocalStates, CompleteLemma DEF TypeOK, LocalsOK, WorkerComplete, WorkerAt, Goto
<1>9. ASSUME NEW w \in Workers, WorkerFail(w) PROVE TypeOK'
  BY <1>0, <1>9, LocalStates, FailLemma DEF TypeOK, LocalsOK, WorkerFail, Goto
<1>10. ASSUME NEW q \in Requests, NEW h \in Hosts, SubmitOpen(q, h) PROVE TypeOK'
  <2>1. request[q] \in RequestState
    BY DEF TypeOK
  <2>2. /\ [request[q] EXCEPT !.pc = "open", !.host = h] \in RequestState
    BY <2>1 DEF RequestState, RequestPC
  <2> QED BY <1>0, <1>10, <2>1, <2>2 DEF TypeOK, SubmitOpen, GoTo
<1>11. ASSUME NEW q \in Requests, NEW j \in Jobs, SubmitCount(q, j) PROVE TypeOK'
  <2>1. request[q] \in RequestState
    BY DEF TypeOK
  <2>2. /\ [request[q] EXCEPT !.pc = "rollback"] \in RequestState
        /\ [request[q] EXCEPT !.pc = "counted", !.job = j] \in RequestState
    BY <2>1 DEF RequestState, RequestPC
  <2>3. request' \in [Requests -> RequestState]
    BY <1>11, <2>2, ZenonT(30) DEF TypeOK, SubmitCount, GoTo
  <2> QED BY <1>11, <2>3 DEF TypeOK, SubmitCount
<1>12. ASSUME NEW q \in Requests, SubmitInsert(q) PROVE TypeOK'
  <2>1. request[q] \in RequestState /\ request[q].job \in Jobs
    BY <1>12 DEF TypeOK, LocalsOK, JobsOf, SubmitInsert
  <2>2. [request[q] EXCEPT !.pc = "inserted"] \in RequestState
    BY <2>1 DEF RequestState, RequestPC
  <2>3. jobs' \in Table(Jobs)
    BY <1>0, <1>12, <2>1, CreateJobLemma DEF SubmitInsert
  <2> QED BY <1>12, <2>2, <2>3 DEF TypeOK, SubmitInsert, GoTo
<1>13. ASSUME NEW q \in Requests, SubmitDispatch(q) PROVE TypeOK'
  <2> DEFINE j == request[q].job
             h == request[q].host
  <2>1. request[q] \in RequestState /\ h \in Hosts /\ j \in Jobs
    BY <1>13 DEF TypeOK, LocalsOK, JobsOf, SubmitDispatch, RequestState
  <2>2. pending' \in [Hosts -> SUBSET Jobs]
    BY <1>13, <2>1 DEF TypeOK, SubmitDispatch
  <2>3. \A p \in {"rollback", "accepted", "open"} :
          /\ [request[q] EXCEPT !.pc = p, !.job = NoJob] \in RequestState
          /\ [request[q] EXCEPT !.pc = p, !.job = NoJob,
                                 !.enqueued = request[q].enqueued \cup {j}] \in RequestState
    BY <2>1 DEF RequestState, RequestPC
  <2>4. request' \in [Requests -> RequestState]
    BY <1>13, <2>3 DEF TypeOK, SubmitDispatch, GoTo
  <2> QED BY <1>13, <2>2, <2>4 DEF TypeOK, SubmitDispatch
<1>14. ASSUME NEW q \in Requests, SubmitAbort(q) PROVE TypeOK'
  <2>1. request[q] \in RequestState
    BY DEF TypeOK
  <2>2. /\ [request[q] EXCEPT !.pc = "rollback"] \in RequestState
    BY <2>1 DEF RequestState, RequestPC
  <2> QED BY <1>0, <1>14, <2>1, <2>2 DEF TypeOK, SubmitAbort, GoTo
<1>15. ASSUME NEW q \in Requests, SubmitRollback(q) PROVE TypeOK'
  <2>1. request[q] \in RequestState
    BY DEF TypeOK
  <2>2. /\ [request[q] EXCEPT !.pc = "rejected"] \in RequestState
    BY <2>1 DEF RequestState, RequestPC
  <2> QED BY <1>0, <1>15, <2>1, <2>2, DeleteLemma DEF TypeOK, SubmitRollback, DeleteCaseRows, GoTo
<1>16. ASSUME NEW c \in Cases, DeleteSelect(c) PROVE TypeOK'
  <2>1. deleter'[c] \in DeleterState
    BY <1>16 DEF TypeOK, DeleteSelect, DeleterState, CaseJobs
  <2>2. deleter' \in [Cases -> DeleterState]
    BY <1>16, <2>1 DEF TypeOK, DeleteSelect
  <2> QED BY <1>16, <2>2 DEF TypeOK, DeleteSelect
<1>17. ASSUME NEW c \in Cases, DeleteRefuse(c) PROVE TypeOK'
  BY <1>0, <1>17, LocalStates DEF TypeOK, DeleteRefuse
<1>18. ASSUME NEW c \in Cases, DeleteCommit(c) PROVE TypeOK'
  BY <1>0, <1>18, LocalStates, DeleteLemma DEF TypeOK, DeleteCommit, DeleteCaseRows
<1>19. ASSUME NEW c \in Cases, DirectDelete(c) PROVE TypeOK'
  BY <1>0, <1>19, DeleteLemma DEF TypeOK, DirectDelete, DeleteCaseRows
<1>20. ASSUME NEW c \in Cases, NEW j \in Jobs, DeleteCancel(c, j) PROVE TypeOK'
  <2>0. deleter[c] \in DeleterState
    BY DEF TypeOK
  <2>1. [deleter[c] EXCEPT !.queued = deleter[c].queued \ {j}] \in DeleterState
    BY <2>0 DEF DeleterState
  <2>2. \/ deleter' = [deleter EXCEPT ![c] = IdleDeleter]
        \/ deleter' = [deleter EXCEPT ![c] = [deleter[c] EXCEPT !.queued = deleter[c].queued \ {j}]]
    <3>1. CASE jobs[j].status = "queued"
      BY <1>20, <3>1 DEF TypeOK, DeleteCancel
    <3>2. CASE jobs[j].status # "queued"
      BY <1>20, <3>2 DEF TypeOK, DeleteCancel
    <3> QED BY <3>1, <3>2
  <2>3. deleter' \in [Cases -> DeleterState]
    BY <1>20, <2>1, <2>2, LocalStates DEF TypeOK, DeleteCancel
  <2>4. jobs' \in Table(Jobs)
    BY <1>0, <1>20, CancelLemma DEF DeleteCancel
  <2> QED BY <1>20, <2>3, <2>4 DEF TypeOK, DeleteCancel
<1>21. ASSUME NEW h \in Hosts, PoolBreaks(h) PROVE TypeOK'
  BY <1>0, <1>21, LocalStates DEF TypeOK, PoolBreaks, PoolStopped
<1>22. ASSUME NEW h \in Hosts, HostCrash(h) PROVE TypeOK'
  <2>0. \A q \in Requests : request[q] \in RequestState
    BY DEF TypeOK
  <2>1. ASSUME NEW q \in Requests
        PROVE  [request[q] EXCEPT !.pc = "lost", !.job = NoJob] \in RequestState
    <3>1. request[q] \in RequestState
      BY <2>0, <2>1
    <3>2. "lost" \in RequestPC /\ NoJob \in Jobs \cup {NoJob}
      BY DEF RequestPC
    <3> QED BY <3>1, <3>2 DEF RequestState
  <2>2. request' \in [Requests -> RequestState]
    BY <1>22, <2>1 DEF TypeOK, HostCrash
  <2>3. deleter' \in [Cases -> DeleterState]
    BY <1>22, LocalStates DEF TypeOK, HostCrash
  <2>4. worker' \in [Workers -> WorkerState]
    BY <1>22, LocalStates DEF TypeOK, HostCrash, PoolStopped
  <2>5. /\ pending' \in [Hosts -> SUBSET Jobs]
        /\ toFail' \in [Hosts -> SUBSET Jobs]
        /\ host' \in [Hosts -> {"up", "down", "boot"}]
        /\ broken' \in [Hosts -> BOOLEAN]
    BY <1>22 DEF TypeOK, HostCrash, PoolStopped
  <2>6. PoolStopped(h)
    BY <1>22 DEF HostCrash
  <2>7. crashes' \in Nat
    BY <2>6 DEF TypeOK, PoolStopped
  <2> QED BY <1>22, <2>2, <2>3, <2>4, <2>5, <2>7 DEF TypeOK, HostCrash
<1>23. ASSUME NEW h \in Hosts, HostBoot(h) PROVE TypeOK'
  <2>1. StaleRunningJobs(jobs) \subseteq Jobs
    BY <1>0 DEF StaleRunningJobs, Table
  <2> QED BY <1>23, <2>1 DEF TypeOK, HostBoot
<1>24. ASSUME NEW h \in Hosts, HostUp(h) PROVE TypeOK'
  BY <1>0, <1>24 DEF TypeOK, HostUp
<1>25. ASSUME NEW h \in Hosts, NEW j \in Jobs, HostRecover(h, j) PROVE TypeOK'
  BY <1>0, <1>25, FailLemma DEF TypeOK, HostRecover
<1>26. ASSUME NEW S \in SUBSET Jobs, GcOldJobs(S) PROVE TypeOK'
  BY <1>0, <1>26, DeleteLemma DEF TypeOK, GcOldJobs
<1>27. ASSUME GcOrphans PROVE TypeOK'
  BY <1>0, <1>27, DeleteLemma DEF TypeOK, GcOrphans
<1>28. ASSUME NEW j \in Jobs, HeartbeatAges(j) PROVE TypeOK'
  BY <1>0, <1>28, AgeLemma DEF TypeOK, HeartbeatAges
<1>29. ASSUME NEW w \in Workers, NEW j \in Jobs, WorkerTakeRaises(w, j) PROVE TypeOK'
  BY <1>0, <1>29 DEF TypeOK, WorkerTakeRaises, Fault
<1>30. ASSUME NEW w \in Workers, WorkerClaimRaises(w) PROVE TypeOK'
  BY <1>0, <1>30, LocalStates DEF TypeOK, LocalsOK, WorkerClaimRaises, WorkerAt, Goto, Fault
<1>31. ASSUME NEW w \in Workers, WorkerFailRaises(w) PROVE TypeOK'
  BY <1>0, <1>31, LocalStates DEF TypeOK, LocalsOK, WorkerFailRaises, Goto, Fault
<1>32. ASSUME NEW q \in Requests, NEW p \in {"rollback", "undeleted"}
       PROVE  /\ [request[q] EXCEPT !.pc = p] \in RequestState
              /\ [request[q] EXCEPT !.pc = p, !.job = NoJob] \in RequestState
  <2>1. request[q] \in RequestState
    BY DEF TypeOK
  <2> QED BY <1>32, <2>1 DEF RequestState, RequestPC
<1>33. ASSUME NEW q \in Requests, SubmitInsertRaises(q) PROVE TypeOK'
  BY <1>0, <1>32, <1>33 DEF TypeOK, SubmitInsertRaises, GoTo
<1>34. ASSUME NEW q \in Requests, SubmitDispatchRaises(q) PROVE TypeOK'
  <2>1. request[q].job \in Jobs
    BY <1>34 DEF LocalsOK, SubmitDispatchRaises, JobsOf
  <2> QED BY <1>0, <1>32, <1>34, <2>1 DEF TypeOK, SubmitDispatchRaises, GoTo, Fault
<1>35. ASSUME NEW q \in Requests, SubmitRollbackFails(q) PROVE TypeOK'
  BY <1>0, <1>32, <1>35 DEF TypeOK, SubmitRollbackFails, GoTo
<1>36. ASSUME NEW c \in Cases, DeleteRaises(c) PROVE TypeOK'
  BY <1>0, <1>36, LocalStates DEF TypeOK, DeleteRaises
<1> QED
  BY <1>1, <1>2, <1>3, <1>4, <1>5, <1>6, <1>7, <1>8, <1>9, <1>10, <1>11, <1>12,
     <1>13, <1>14, <1>15, <1>16, <1>17, <1>18, <1>19, <1>20, <1>21, <1>22, <1>23, <1>24,
     <1>25, <1>26, <1>27, <1>28, <1>29, <1>30, <1>31, <1>33, <1>34, <1>35, <1>36
     DEF Next, WorkerNext, SubmitNext, DeleteNext, HostNext

(* How one step changes the status of a job: the moves of the lifecycle,   *)
(* its removal, or the insertion of a row nobody knows of.                 *)
LEMMA StatusStep ==
  ASSUME IInv, Next, NEW k \in Jobs
  PROVE  \/ jobs'[k].status \in {jobs[k].status, "absent"}
         \/ jobs[k].status = "queued" /\ jobs'[k].status \in {"running", "cancelled"}
         \/ jobs[k].status \in {"running", "failed", "done"} /\ jobs'[k].status \in {"failed", "done"}
         \/ Unborn(k) /\ ~Unborn(k)' /\ jobs'[k].status = "queued"
<1> DEFINE Goal == \/ jobs'[k].status \in {jobs[k].status, "absent"}
                   \/ jobs[k].status = "queued" /\ jobs'[k].status \in {"running", "cancelled"}
                   \/ /\ jobs[k].status \in {"running", "failed", "done"}
                      /\ jobs'[k].status \in {"failed", "done"}
                   \/ Unborn(k) /\ ~Unborn(k)' /\ jobs'[k].status = "queued"
<1>0. jobs \in Table(Jobs)
  BY DEF IInv, TypeOK
<1>1. TypeOK /\ LocalsOK
  BY DEF IInv
<1>2. jobs[k].status \in {"absent", "queued", "running", "done", "failed", "cancelled"}
  BY <1>0, RowLemma DEF Statuses, Active, Terminal
<1>3. \A w \in Workers : worker[w].pc # "idle" => worker[w].job \in Jobs
  BY <1>1 DEF LocalsOK
<1>4. \A w \in Workers : worker[w].pc \in WorkingPC =>
        jobs[worker[w].job].status \notin {"queued", "cancelled"}
  BY DEF IInv, ClaimedJobsStayClaimed
<1>5. CASE UNCHANGED jobs
  BY <1>5
<1>6. ASSUME NEW w \in Workers, WorkerClaim(w) PROVE Goal
  <2>1. jobs'[k].status = IF k = worker[w].job /\ jobs[k].status = "queued"
                            THEN "running" ELSE jobs[k].status
    BY <1>0, <1>3, <1>6, StartLemma DEF WorkerClaim, WorkerAt
  <2> QED BY <2>1
<1>7. ASSUME NEW w \in Workers, WorkerBeat(w) PROVE Goal
  <2>1. jobs'[k].status = jobs[k].status
    BY <1>0, <1>3, <1>7, TouchLemma DEF WorkerBeat
  <2> QED BY <2>1
<1>8. ASSUME NEW w \in Workers, WorkerComplete(w) PROVE Goal
  <2>1. jobs'[k].status = IF k = worker[w].job /\ jobs[k].status # "absent"
                            THEN "done" ELSE jobs[k].status
    BY <1>0, <1>3, <1>8, CompleteLemma DEF WorkerComplete, WorkerAt
  <2>2. jobs[worker[w].job].status \notin {"queued", "cancelled"}
    BY <1>4, <1>8 DEF WorkerComplete, WorkerAt, WorkingPC
  <2> QED BY <1>2, <2>1, <2>2
<1>9. ASSUME NEW w \in Workers, WorkerFail(w) PROVE Goal
  <2>1. jobs'[k].status = IF k = worker[w].job /\ jobs[k].status # "absent"
                            THEN "failed" ELSE jobs[k].status
    BY <1>0, <1>3, <1>9, FailLemma DEF WorkerFail
  <2>2. jobs[worker[w].job].status \notin {"queued", "cancelled"}
    BY <1>4, <1>9 DEF WorkerFail, WorkingPC
  <2> QED BY <1>2, <2>1, <2>2
<1>10. ASSUME NEW q \in Requests, SubmitInsert(q) PROVE Goal
  <2>1. request[q].job \in Jobs /\ RequestOf[request[q].job] = q
    BY <1>1, <1>10 DEF LocalsOK, SubmitInsert, JobsOf
  <2>2. jobs'[k].status = IF k = request[q].job THEN "queued" ELSE jobs[k].status
    BY <1>0, <1>10, <2>1, CreateJobLemma DEF SubmitInsert
  <2>3. CASE k = request[q].job
    <3>1. Unborn(k)
      BY <1>1, <1>10, <2>1, <2>3 DEF LocalsOK, SubmitInsert, Unborn
    <3>2. ~Unborn(k)'
      BY <1>1, <1>10, <2>1, <2>3 DEF TypeOK, SubmitInsert, GoTo, RequestState, Unborn
    <3> QED BY <2>2, <2>3, <3>1, <3>2
  <2> QED BY <2>2, <2>3
<1>11. ASSUME NEW c \in Cases, DeleteCaseRows(c) PROVE Goal
  BY <1>0, <1>11, DeleteLemma DEF DeleteCaseRows
<1>12. ASSUME NEW c \in Cases, NEW j \in Jobs, DeleteCancel(c, j) PROVE Goal
  <2>1. jobs'[k].status = IF k = j /\ jobs[k].status = "queued"
                            THEN "cancelled" ELSE jobs[k].status
    BY <1>0, <1>12, CancelLemma DEF DeleteCancel
  <2> QED BY <2>1
<1>13. ASSUME NEW h \in Hosts, NEW j \in Jobs, HostRecover(h, j) PROVE Goal
  <2>1. jobs[j].status \notin {"queued", "cancelled"}
    BY <1>13 DEF IInv, RecoveredJobsStarted, HostRecover
  <2>2. jobs'[k].status = IF k = j /\ jobs[k].status # "absent"
                            THEN "failed" ELSE jobs[k].status
    BY <1>0, <1>13, FailLemma DEF HostRecover
  <2> QED BY <1>2, <2>1, <2>2
<1>14. ASSUME NEW S \in SUBSET Jobs, GcOldJobs(S) PROVE Goal
  BY <1>0, <1>14, DeleteLemma DEF GcOldJobs
<1>15. CASE GcOrphans
  BY <1>0, <1>15, DeleteLemma DEF GcOrphans
<1>16. ASSUME NEW j \in Jobs, HeartbeatAges(j) PROVE Goal
  <2>1. jobs'[k].status = jobs[k].status
    BY <1>0, <1>16, AgeLemma DEF HeartbeatAges
  <2> QED BY <2>1
<1>17. ASSUME NEW q \in Requests, SubmitNext(q) PROVE Goal
  <2>1. CASE SubmitRollback(q)
    <3>1. CaseOf[q] \in Cases
      BY QueueAssumption DEF QueueAssumption
    <3> QED BY <1>5, <1>11, <2>1, <3>1 DEF SubmitRollback
  <2> QED BY <1>5, <1>10, <1>17, <2>1
          DEF SubmitNext, SubmitOpen, SubmitCount, SubmitDispatch, SubmitAbort, SubmitInsertRaises,
              SubmitDispatchRaises, SubmitRollbackFails
<1>18. ASSUME NEW c \in Cases, DeleteNext(c) PROVE Goal
  BY <1>5, <1>11, <1>12, <1>18
     DEF DeleteNext, DeleteSelect, DeleteRefuse, DeleteCommit, DirectDelete, DeleteRaises
<1>19. ASSUME NEW w \in Workers, WorkerNext(w) PROVE Goal
  BY <1>5, <1>6, <1>7, <1>8, <1>9, <1>19
     DEF WorkerNext, WorkerTake, WorkerLoad, WorkerPersist, WorkerError, WorkerPersistFails,
         WorkerTakeRaises, WorkerClaimRaises, WorkerFailRaises
<1>20. ASSUME NEW h \in Hosts, HostNext(h) PROVE Goal
  BY <1>5, <1>13, <1>20 DEF HostNext, PoolBreaks, HostCrash, HostBoot, HostUp
<1> QED
  BY <1>14, <1>15, <1>16, <1>17, <1>18, <1>19, <1>20 DEF Next

(* How one step changes a pool process: it takes a future, claims the job  *)
(* it holds, goes on working on it, or is idle.                            *)
LEMMA WorkerStep ==
  ASSUME IInv, Next, NEW w \in Workers
  PROVE  \/ worker'[w] = worker[w]
         \/ worker'[w] = IdleWorker
         \/ /\ worker'[w].pc = "guarded"
            /\ worker'[w].job \in pending[HostOf[w]]
         \/ /\ worker[w].pc = "guarded"
            /\ worker'[w] = [pc |-> "run", job |-> worker[w].job]
            /\ jobs'[worker[w].job].status = "running"
         \/ /\ worker[w].pc \in WorkingPC /\ worker'[w].pc \in WorkingPC
            /\ worker'[w].job = worker[w].job
            /\ worker'[w].pc = "complete" => EvidenceOf[worker[w].job] \in analyses'
<1> USE QueueAssumption DEF QueueAssumption
<1> DEFINE Goal == \/ worker'[w] = worker[w]
                   \/ worker'[w] = IdleWorker
                   \/ /\ worker'[w].pc = "guarded"
                      /\ worker'[w].job \in pending[HostOf[w]]
                   \/ /\ worker[w].pc = "guarded"
                      /\ worker'[w] = [pc |-> "run", job |-> worker[w].job]
                      /\ jobs'[worker[w].job].status = "running"
                   \/ /\ worker[w].pc \in WorkingPC /\ worker'[w].pc \in WorkingPC
                      /\ worker'[w].job = worker[w].job
                      /\ worker'[w].pc = "complete" => EvidenceOf[worker[w].job] \in analyses'
<1>1. TypeOK /\ LocalsOK /\ jobs \in Table(Jobs) /\ worker \in [Workers -> WorkerState]
  BY DEF IInv, TypeOK
<1>2. CASE UNCHANGED worker
  BY <1>2
<1>3. ASSUME NEW v \in Workers, WorkerNext(v) PROVE Goal
  <2>1. ASSUME NEW j \in Jobs, WorkerTake(v, j) PROVE Goal
    BY <1>1, <2>1 DEF WorkerTake, Goto
  <2>2. CASE WorkerClaim(v)
    <3>1. worker[v].job \in Jobs
      BY <1>1, <2>2 DEF LocalsOK, WorkerClaim, WorkerAt
    <3>2. jobs'[worker[v].job].status = IF jobs[worker[v].job].status = "queued"
                                          THEN "running" ELSE jobs[worker[v].job].status
      BY <1>1, <2>2, <3>1, StartLemma DEF WorkerClaim
    <3> QED BY <1>1, <2>2, <3>2 DEF WorkerClaim, WorkerAt, Goto, IdleWorker
  <2>3. CASE WorkerLoad(v)
    BY <1>1, <2>3 DEF WorkerLoad, WorkerAt, Goto, WorkingPC
  <2>4. CASE WorkerPersist(v)
    BY <1>1, <2>4 DEF WorkerPersist, WorkerAt, Goto, WorkingPC
  <2>5. CASE WorkerError(v)
    BY <1>1, <2>5 DEF WorkerError, Goto, WorkingPC
  <2>6. CASE WorkerPersistFails(v)
    BY <1>1, <2>6 DEF WorkerPersistFails, WorkerAt, Goto, WorkingPC
  <2>7. CASE WorkerComplete(v)
    BY <1>1, <2>7 DEF WorkerComplete, Goto, IdleWorker
  <2>8. CASE WorkerFail(v)
    BY <1>1, <2>8 DEF WorkerFail, Goto, IdleWorker
  <2>9. CASE WorkerBeat(v)
    BY <1>2, <2>9 DEF WorkerBeat
  <2>10. ASSUME NEW j \in Jobs, WorkerTakeRaises(v, j) PROVE Goal
    BY <1>2, <2>10 DEF WorkerTakeRaises
  <2>11. CASE WorkerClaimRaises(v) \/ WorkerFailRaises(v)
    BY <1>1, <2>11 DEF WorkerClaimRaises, WorkerFailRaises, Goto, IdleWorker
  <2> QED BY <1>3, <2>1, <2>2, <2>3, <2>4, <2>5, <2>6, <2>7, <2>8, <2>9, <2>10, <2>11 DEF WorkerNext
<1>4. ASSUME NEW h \in Hosts, PoolStopped(h) PROVE Goal
  BY <1>4 DEF PoolStopped
<1>5. ASSUME NEW h \in Hosts, HostNext(h) PROVE Goal
  BY <1>2, <1>4, <1>5 DEF HostNext, PoolBreaks, HostCrash, HostBoot, HostUp, HostRecover
<1>6. ASSUME NEW q \in Requests, SubmitNext(q) PROVE UNCHANGED worker
  BY <1>6 DEF SubmitNext, SubmitOpen, SubmitCount, SubmitInsert, SubmitDispatch,
              SubmitAbort, SubmitRollback, SubmitInsertRaises, SubmitDispatchRaises,
              SubmitRollbackFails
<1>7. ASSUME NEW c \in Cases, DeleteNext(c) PROVE UNCHANGED worker
  BY <1>7 DEF DeleteNext, DeleteSelect, DeleteRefuse, DeleteCommit, DirectDelete, DeleteCancel,
              DeleteRaises
<1> QED
  BY <1>2, <1>3, <1>5, <1>6, <1>7 DEF Next, GcOldJobs, GcOrphans, HeartbeatAges

(* A server selects rows for recovery only while it boots, and they are    *)
(* running then.                                                           *)
LEMMA RecoveryStep ==
  ASSUME IInv, Next, NEW h \in Hosts
  PROVE  \/ toFail'[h] \subseteq toFail[h]
         \/ toFail'[h] \subseteq StaleRunningJobs(jobs) /\ UNCHANGED jobs
<1> DEFINE Goal == \/ toFail'[h] \subseteq toFail[h]
                   \/ toFail'[h] \subseteq StaleRunningJobs(jobs) /\ UNCHANGED jobs
<1>1. toFail \in [Hosts -> SUBSET Jobs]
  BY DEF IInv, TypeOK
<1>2. CASE UNCHANGED toFail
  BY <1>2
<1>3. ASSUME NEW g \in Hosts, HostNext(g) PROVE Goal
  <2>1. CASE HostBoot(g)
    BY <1>1, <2>1 DEF HostBoot
  <2>2. ASSUME NEW j \in Jobs, HostRecover(g, j) PROVE Goal
    BY <1>1, <2>2 DEF HostRecover
  <2>3. CASE HostCrash(g)
    BY <1>1, <2>3 DEF HostCrash
  <2> QED BY <1>2, <1>3, <2>1, <2>2, <2>3 DEF HostNext, PoolBreaks, HostUp
<1>4. ASSUME NEW w \in Workers, WorkerNext(w) PROVE UNCHANGED toFail
  BY <1>4 DEF WorkerNext, WorkerTake, WorkerClaim, WorkerBeat, WorkerLoad, WorkerPersist,
              WorkerError, WorkerPersistFails, WorkerComplete, WorkerFail, WorkerTakeRaises,
              WorkerClaimRaises, WorkerFailRaises
<1>5. ASSUME NEW c \in Cases, DeleteNext(c) PROVE UNCHANGED toFail
  BY <1>5 DEF DeleteNext, DeleteSelect, DeleteRefuse, DeleteCommit, DirectDelete, DeleteCancel,
              DeleteRaises
<1>6. ASSUME NEW q \in Requests, SubmitNext(q) PROVE UNCHANGED toFail
  BY <1>6 DEF SubmitNext, SubmitOpen, SubmitCount, SubmitInsert, SubmitDispatch,
              SubmitAbort, SubmitRollback, SubmitInsertRaises, SubmitDispatchRaises,
              SubmitRollbackFails
<1> QED BY <1>2, <1>3, <1>4, <1>5, <1>6 DEF Next, GcOldJobs, GcOrphans, HeartbeatAges

(* How one step changes a submission handler that may still enqueue.       *)
LEMMA RequestStep ==
  ASSUME IInv, Next, NEW q \in Requests
  PROVE  \/ request'[q] = request[q]
         \/ request'[q].pc \notin {"new", "open", "counted", "inserted"}
         \/ /\ request[q].pc = "new" /\ request'[q].pc = "open"
            /\ request'[q].enqueued = request[q].enqueued
         \/ /\ request[q].pc = "open" /\ request'[q].pc = "counted"
            /\ request'[q].enqueued = request[q].enqueued
            /\ request'[q].job \in JobsOf(q) \ request[q].enqueued
         \/ /\ request[q].pc = "counted" /\ request'[q].pc = "inserted"
            /\ request'[q].enqueued = request[q].enqueued
            /\ request'[q].job = request[q].job
         \/ /\ request[q].pc = "inserted" /\ request'[q].pc = "open"
            /\ request'[q].enqueued = request[q].enqueued \cup {request[q].job}
<1> DEFINE Goal ==
       \/ request'[q] = request[q]
       \/ request'[q].pc \notin {"new", "open", "counted", "inserted"}
       \/ /\ request[q].pc = "new" /\ request'[q].pc = "open"
          /\ request'[q].enqueued = request[q].enqueued
       \/ /\ request[q].pc = "open" /\ request'[q].pc = "counted"
          /\ request'[q].enqueued = request[q].enqueued
          /\ request'[q].job \in JobsOf(q) \ request[q].enqueued
       \/ /\ request[q].pc = "counted" /\ request'[q].pc = "inserted"
          /\ request'[q].enqueued = request[q].enqueued
          /\ request'[q].job = request[q].job
       \/ /\ request[q].pc = "inserted" /\ request'[q].pc = "open"
          /\ request'[q].enqueued = request[q].enqueued \cup {request[q].job}
<1>1. request \in [Requests -> RequestState]
  BY DEF IInv, TypeOK
<1>2. request[q] \in RequestState
  BY <1>1
<1>3. ASSUME NEW p \in Requests, p # q, SubmitNext(p) PROVE request'[q] = request[q]
  BY <1>1, <1>3 DEF SubmitNext, SubmitOpen, SubmitCount, SubmitInsert,
        SubmitDispatch, SubmitAbort, SubmitRollback, GoTo, SubmitInsertRaises, SubmitDispatchRaises,
                    SubmitRollbackFails
<1>4. CASE SubmitNext(q)
  <2>1. ASSUME NEW h \in Hosts, SubmitOpen(q, h) PROVE Goal
    BY <1>1, <1>2, <2>1 DEF SubmitOpen, GoTo, RequestState
  <2>2. ASSUME NEW j \in Jobs, SubmitCount(q, j) PROVE Goal
    <3>1. \/ request'[q] = [request[q] EXCEPT !.pc = "rollback"]
          \/ request'[q] = [request[q] EXCEPT !.pc = "counted", !.job = j]
      BY <1>1, <2>2 DEF SubmitCount, GoTo
    <3>2. j \in JobsOf(q) \ request[q].enqueued /\ request[q].pc = "open"
      BY <2>2 DEF SubmitCount
    <3> QED BY <1>2, <3>1, <3>2 DEF RequestState
  <2>3. CASE SubmitInsert(q)
    BY <1>1, <1>2, <2>3 DEF SubmitInsert, GoTo, RequestState
  <2>4. CASE SubmitDispatch(q)
    BY <1>1, <1>2, <2>4 DEF SubmitDispatch, GoTo, RequestState
  <2>5. CASE SubmitAbort(q) \/ SubmitRollback(q)
    BY <1>1, <1>2, <2>5 DEF SubmitAbort, SubmitRollback, GoTo, RequestState
  <2>6. CASE SubmitInsertRaises(q) \/ SubmitDispatchRaises(q) \/ SubmitRollbackFails(q)
    <3>1. \/ request'[q] = [request[q] EXCEPT !.pc = "rollback", !.job = NoJob]
          \/ request'[q] = [request[q] EXCEPT !.pc = "undeleted"]
      BY <1>1, <2>6 DEF SubmitInsertRaises, SubmitDispatchRaises, SubmitRollbackFails, GoTo
    <3>2. request'[q].pc \in {"rollback", "undeleted"}
      BY <1>2, <3>1 DEF RequestState
    <3> QED BY <3>2
  <2> QED BY <1>4, <2>1, <2>2, <2>3, <2>4, <2>5, <2>6 DEF SubmitNext
<1>5. ASSUME NEW w \in Workers, WorkerNext(w) PROVE UNCHANGED request
  BY <1>5 DEF WorkerNext, WorkerTake, WorkerClaim, WorkerBeat, WorkerLoad, WorkerPersist,
              WorkerError, WorkerPersistFails, WorkerComplete, WorkerFail, WorkerTakeRaises,
              WorkerClaimRaises, WorkerFailRaises
<1>6. ASSUME NEW c \in Cases, DeleteNext(c) PROVE UNCHANGED request
  BY <1>6 DEF DeleteNext, DeleteSelect, DeleteRefuse, DeleteCommit, DirectDelete, DeleteCancel,
              DeleteRaises
<1>7. ASSUME NEW h \in Hosts, HostNext(h) PROVE Goal
  <2>1. CASE HostCrash(h)
    BY <1>2, <2>1 DEF HostCrash, RequestState
  <2>2. CASE UNCHANGED request
    BY <2>2
  <2> QED BY <1>7, <2>1, <2>2 DEF HostNext, PoolBreaks, HostBoot, HostUp, HostRecover
<1>8. CASE UNCHANGED request
  BY <1>8
<1> QED
  BY <1>3, <1>4, <1>5, <1>6, <1>7, <1>8 DEF Next, GcOldJobs, GcOrphans, HeartbeatAges

(* Local states stay well-formed: a process that is not idle holds a job,  *)
(* a handler about to insert holds one it has not enqueued.                *)
LEMMA LocalsStep ==
  ASSUME IInv, Next
  PROVE  LocalsOK'
<1>1. TypeOK /\ LocalsOK
  BY DEF IInv
<1>2. HostOf \in [Workers -> Hosts]
  BY QueueAssumption DEF QueueAssumption
<1>3. ASSUME NEW w \in Workers, worker'[w].pc # "idle"
      PROVE  worker'[w].job \in Jobs
  <2>1. worker[w].pc # "idle" => worker[w].job \in Jobs
    BY <1>1 DEF LocalsOK
  <2>2. pending[HostOf[w]] \subseteq Jobs
    BY <1>1, <1>2 DEF TypeOK
  <2>3. \/ worker'[w] = worker[w]
        \/ worker'[w].job \in pending[HostOf[w]]
        \/ worker[w].pc # "idle" /\ worker'[w].job = worker[w].job
    <3>1. \/ worker'[w] = worker[w]
          \/ worker'[w].job \in pending[HostOf[w]]
          \/ /\ worker[w].pc = "guarded"
             /\ worker'[w] = [pc |-> "run", job |-> worker[w].job]
          \/ worker[w].pc \in WorkingPC /\ worker'[w].job = worker[w].job
      BY <1>3, WorkerStep DEF IdleWorker
    <3> QED BY <3>1 DEF WorkingPC
  <2> QED BY <1>3, <2>1, <2>2, <2>3
<1>4. ASSUME NEW q \in Requests
      PROVE  /\ request'[q].pc \in {"counted", "inserted"} => request'[q].job \in JobsOf(q)
             /\ request'[q].pc = "counted" => request'[q].job \notin request'[q].enqueued
  <2>1. /\ request[q].pc \in {"counted", "inserted"} => request[q].job \in JobsOf(q)
        /\ request[q].pc = "counted" => request[q].job \notin request[q].enqueued
    BY <1>1 DEF LocalsOK
  <2> QED BY <2>1, RequestStep
<1> QED BY <1>3, <1>4 DEF LocalsOK, JobsOf

(* A job becomes known to others only by its insertion.                    *)
LEMMA UnbornStep ==
  ASSUME IInv, Next
  PROVE  UnbornLeavesNoTrace'
<1> USE QueueAssumption DEF QueueAssumption
<1> SUFFICES ASSUME NEW j \in Jobs, Unborn(j)'
             PROVE  /\ ~Present(jobs', j)
                    /\ \A h \in Hosts : j \notin pending'[h] /\ j \notin toFail'[h]
                    /\ \A w \in Workers : worker'[w].job # j
  BY DEF UnbornLeavesNoTrace
<1>1. TypeOK /\ LocalsOK /\ UnbornLeavesNoTrace
  BY DEF IInv
<1>2. RequestOf[j] \in Requests
  OBVIOUS
<1>3. Unborn(j)
  BY <1>2, RequestStep DEF Unborn
<1>4. /\ jobs[j].status = "absent"
      /\ \A h \in Hosts : j \notin pending[h] /\ j \notin toFail[h]
      /\ \A w \in Workers : worker[w].job # j
  BY <1>1, <1>3 DEF UnbornLeavesNoTrace, Present
<1>5. ~Present(jobs', j)
  BY <1>4, StatusStep DEF Present
<1>6. ASSUME NEW w \in Workers PROVE worker'[w].job # j
  <2>1. worker[w].job # j /\ j \notin pending[HostOf[w]]
    BY <1>4
  <2>2. \/ worker'[w] = worker[w]
        \/ worker'[w] = IdleWorker
        \/ worker'[w].job \in pending[HostOf[w]]
        \/ worker'[w] = [pc |-> "run", job |-> worker[w].job]
        \/ worker'[w].job = worker[w].job
    BY WorkerStep
  <2> QED BY <2>1, <2>2 DEF IdleWorker
<1>7. ASSUME NEW h \in Hosts PROVE j \notin pending'[h]
  <2>1. j \notin pending[h] /\ pending \in [Hosts -> SUBSET Jobs]
    BY <1>1, <1>4 DEF TypeOK
  <2>2. ASSUME NEW q \in Requests, SubmitDispatch(q) PROVE j \notin pending'[h]
    <3>1. request[q].job # j
      BY <1>1, <1>3, <2>2 DEF LocalsOK, JobsOf, SubmitDispatch, Unborn
    <3> QED BY <2>1, <2>2, <3>1 DEF SubmitDispatch
  <2>3. ASSUME NEW g \in Hosts, PoolStopped(g) PROVE j \notin pending'[h]
    BY <2>1, <2>3 DEF PoolStopped
  <2>4. ASSUME NEW w \in Workers, NEW k \in Jobs, WorkerTake(w, k) PROVE j \notin pending'[h]
    BY <2>1, <2>4 DEF WorkerTake
  <2>10. ASSUME NEW w \in Workers, NEW k \in Jobs, WorkerTakeRaises(w, k) PROVE j \notin pending'[h]
    BY <2>1, <2>10 DEF WorkerTakeRaises
  <2>5. CASE UNCHANGED pending
    BY <2>1, <2>5
  <2>6. ASSUME NEW q \in Requests, SubmitNext(q) PROVE j \notin pending'[h]
    BY <2>2, <2>5, <2>6 DEF SubmitNext, SubmitOpen, SubmitCount, SubmitInsert, SubmitAbort, SubmitRollback,
                            SubmitInsertRaises, SubmitDispatchRaises, SubmitRollbackFails
  <2>7. ASSUME NEW w \in Workers, WorkerNext(w) PROVE j \notin pending'[h]
    BY <2>4, <2>5, <2>7, <2>10 DEF WorkerNext, WorkerClaim, WorkerBeat, WorkerLoad, WorkerPersist,
                            WorkerError, WorkerPersistFails, WorkerComplete, WorkerFail,
                            WorkerTakeRaises, WorkerClaimRaises, WorkerFailRaises
  <2>8. ASSUME NEW g \in Hosts, HostNext(g) PROVE j \notin pending'[h]
    BY <2>3, <2>5, <2>8 DEF HostNext, PoolBreaks, HostCrash, HostBoot, HostUp, HostRecover
  <2>9. ASSUME NEW c \in Cases, DeleteNext(c) PROVE UNCHANGED pending
    BY <2>9 DEF DeleteNext, DeleteSelect, DeleteRefuse, DeleteCommit, DirectDelete, DeleteCancel,
                DeleteRaises
  <2> QED BY <2>5, <2>6, <2>7, <2>8, <2>9 DEF Next, GcOldJobs, GcOrphans, HeartbeatAges
<1>8. ASSUME NEW h \in Hosts PROVE j \notin toFail'[h]
  BY <1>4, RecoveryStep DEF StaleRunningJobs
<1> QED BY <1>5, <1>6, <1>7, <1>8

(* The claim is for good.                                                  *)
LEMMA ClaimedStep ==
  ASSUME IInv, Next
  PROVE  ClaimedJobsStayClaimed'
<1> SUFFICES ASSUME NEW w \in Workers, worker'[w].pc \in WorkingPC
             PROVE  jobs'[worker'[w].job].status \notin {"queued", "cancelled"}
  BY DEF ClaimedJobsStayClaimed
<1>1. LocalsOK /\ ClaimedJobsStayClaimed /\ UnbornLeavesNoTrace
  BY DEF IInv
<1>2. CASE worker[w].pc = "guarded" /\ worker'[w] = [pc |-> "run", job |-> worker[w].job]
           /\ jobs'[worker[w].job].status = "running"
  BY <1>2
<1>3. CASE worker[w].pc \in WorkingPC /\ worker'[w].job = worker[w].job
  <2>1. worker[w].job \in Jobs
    BY <1>1, <1>3 DEF LocalsOK, WorkingPC
  <2>2. jobs[worker[w].job].status \notin {"queued", "cancelled"}
    BY <1>1, <1>3 DEF ClaimedJobsStayClaimed
  <2>3. ~Unborn(worker[w].job)
    BY <1>1, <2>1 DEF UnbornLeavesNoTrace
  <2>4. jobs'[worker[w].job].status \in {jobs[worker[w].job].status, "absent", "failed", "done"}
    BY <2>1, <2>2, <2>3, StatusStep
  <2> QED BY <1>3, <2>2, <2>4
<1> QED
  BY <1>2, <1>3, WorkerStep DEF IdleWorker, WorkingPC

(* A job that recovery is about to fail has been started.                  *)
LEMMA RecoveredStep ==
  ASSUME IInv, Next
  PROVE  RecoveredJobsStarted'
<1> SUFFICES ASSUME NEW h \in Hosts, NEW j \in toFail'[h]
             PROVE  jobs'[j].status \notin {"queued", "cancelled"}
  BY DEF RecoveredJobsStarted
<1>1. TypeOK /\ UnbornLeavesNoTrace /\ RecoveredJobsStarted
  BY DEF IInv
<1>2. CASE j \in toFail[h]
  <2>1. j \in Jobs
    BY <1>1, <1>2 DEF TypeOK
  <2>2. ~Unborn(j) /\ jobs[j].status \notin {"queued", "cancelled"}
    BY <1>1, <1>2, <2>1 DEF UnbornLeavesNoTrace, RecoveredJobsStarted
  <2> QED BY <2>1, <2>2, StatusStep
<1>3. CASE j \in StaleRunningJobs(jobs) /\ UNCHANGED jobs
  BY <1>3 DEF StaleRunningJobs
<1> QED BY <1>2, <1>3, RecoveryStep

(* Whoever removes the analysis a job wrote removes the job too.           *)
LEMMA EvidenceStep ==
  ASSUME IInv, Next, NEW j \in Jobs,
         EvidenceOf[j] \in analyses, EvidenceOf[j] \notin analyses'
  PROVE  jobs'[j].status = "absent"
<1> USE QueueAssumption DEF QueueAssumption
<1>1. jobs \in Table(Jobs)
  BY DEF IInv, TypeOK
<1>2. EvidenceOf[j] \in Jobs /\ CaseOfJob(EvidenceOf[j]) = CaseOfJob(j)
  BY DEF CaseOfJob
<1>3. ASSUME NEW c \in Cases, DeleteCaseRows(c) PROVE jobs'[j].status = "absent"
  <2>1. j \in CaseJobs(c)
    BY <1>2, <1>3 DEF DeleteCaseRows, CaseJobs
  <2> QED BY <1>1, <1>3, <2>1, DeleteLemma DEF DeleteCaseRows
<1>4. CASE GcOrphans
  <2>1. j \in OrphanJobs
    BY <1>2, <1>4 DEF GcOrphans, OrphanJobs
  <2> QED BY <1>1, <1>4, <2>1, DeleteLemma DEF GcOrphans
<1>5. ~UNCHANGED analyses
  OBVIOUS
<1>6. ASSUME NEW q \in Requests, SubmitNext(q) PROVE \E c \in Cases : DeleteCaseRows(c)
  BY <1>5, <1>6 DEF SubmitNext, SubmitOpen, SubmitCount, SubmitInsert, SubmitDispatch,
                    SubmitAbort, SubmitRollback, SubmitInsertRaises, SubmitDispatchRaises,
                    SubmitRollbackFails
<1>7. ASSUME NEW c \in Cases, DeleteNext(c) PROVE DeleteCaseRows(c)
  BY <1>5, <1>7 DEF DeleteNext, DeleteSelect, DeleteRefuse, DeleteCommit, DirectDelete, DeleteCancel,
                    DeleteRaises
<1>8. ASSUME NEW w \in Workers, WorkerNext(w) PROVE FALSE
  BY <1>5, <1>8 DEF WorkerNext, WorkerTake, WorkerClaim, WorkerBeat, WorkerLoad, WorkerPersist,
                    WorkerError, WorkerPersistFails, WorkerComplete, WorkerFail, WorkerTakeRaises,
                    WorkerClaimRaises, WorkerFailRaises
<1>9. ASSUME NEW h \in Hosts, HostNext(h) PROVE FALSE
  BY <1>5, <1>9 DEF HostNext, PoolBreaks, HostCrash, HostBoot, HostUp, HostRecover
<1> QED
  BY <1>3, <1>4, <1>5, <1>6, <1>7, <1>8, <1>9 DEF Next, GcOldJobs, HeartbeatAges

(* A job that becomes done in a step is completed by a process that holds  *)
(* it and has saved, or was done and failed and is completed late.         *)
LEMMA DoneStep ==
  ASSUME IInv, Next, NEW j \in Jobs, jobs'[j].status = "done", jobs[j].status # "done"
  PROVE  \E w \in Workers : worker[w] = [pc |-> "complete", job |-> j]
                            /\ jobs[j].status # "absent" /\ UNCHANGED analyses
<1> DEFINE Goal == \E w \in Workers : worker[w] = [pc |-> "complete", job |-> j]
                                      /\ jobs[j].status # "absent" /\ UNCHANGED analyses
<1>1. TypeOK /\ LocalsOK
  BY DEF IInv
<1>2. jobs \in Table(Jobs)
  BY <1>1 DEF TypeOK
<1>3. ~UNCHANGED jobs
  OBVIOUS
<1>4. ASSUME NEW w \in Workers, WorkerComplete(w) PROVE Goal
  <2>1. worker[w].job \in Jobs /\ worker[w].pc = "complete" /\ worker[w] \in WorkerState
    BY <1>1, <1>4 DEF TypeOK, LocalsOK, WorkerComplete, WorkerAt
  <2>2. jobs'[j].status = IF j = worker[w].job /\ jobs[j].status # "absent"
                            THEN "done" ELSE jobs[j].status
    BY <1>2, <1>4, <2>1, CompleteLemma DEF WorkerComplete
  <2>3. worker[w] = [pc |-> "complete", job |-> j]
    BY <2>1, <2>2 DEF WorkerState
  <2> QED BY <1>4, <2>2, <2>3 DEF WorkerComplete
<1>5. ASSUME NEW w \in Workers, WorkerNext(w), ~WorkerComplete(w) PROVE FALSE
  <2>1. worker[w].pc # "idle" => worker[w].job \in Jobs
    BY <1>1 DEF LocalsOK
  <2>2. CASE WorkerClaim(w)
    BY <1>2, <2>1, <2>2, StartLemma DEF WorkerClaim, WorkerAt
  <2>3. CASE WorkerBeat(w)
    BY <1>2, <2>1, <2>3, TouchLemma DEF WorkerBeat
  <2>4. CASE WorkerFail(w)
    BY <1>2, <2>1, <2>4, FailLemma DEF WorkerFail
  <2> QED BY <1>3, <1>5, <2>2, <2>3, <2>4
          DEF WorkerNext, WorkerTake, WorkerLoad, WorkerPersist, WorkerError, WorkerPersistFails,
              WorkerTakeRaises, WorkerClaimRaises, WorkerFailRaises
<1>6. ASSUME NEW c \in Cases, DeleteCaseRows(c) PROVE FALSE
  BY <1>2, <1>6, DeleteLemma DEF DeleteCaseRows
<1>7. ASSUME NEW q \in Requests, SubmitNext(q) PROVE FALSE
  <2>1. CASE SubmitInsert(q)
    <3>1. request[q].job \in Jobs
      BY <1>1, <2>1 DEF LocalsOK, JobsOf, SubmitInsert
    <3> QED BY <1>2, <2>1, <3>1, CreateJobLemma DEF SubmitInsert
  <2>2. CASE SubmitRollback(q)
    BY <1>3, <1>6, <2>2, QueueAssumption DEF SubmitRollback, QueueAssumption
  <2> QED BY <1>3, <1>7, <2>1, <2>2 DEF SubmitNext, SubmitOpen, SubmitCount, SubmitDispatch, SubmitAbort,
                                        SubmitInsertRaises, SubmitDispatchRaises,
                                        SubmitRollbackFails
<1>8. ASSUME NEW c \in Cases, DeleteNext(c) PROVE FALSE
  <2>1. ASSUME NEW k \in Jobs, DeleteCancel(c, k) PROVE FALSE
    BY <1>2, <2>1, CancelLemma DEF DeleteCancel
  <2> QED BY <1>3, <1>6, <1>8, <2>1 DEF DeleteNext, DeleteSelect, DeleteRefuse, DeleteCommit, DirectDelete,
                                        DeleteRaises
<1>9. ASSUME NEW h \in Hosts, HostNext(h) PROVE FALSE
  <2>1. ASSUME NEW k \in Jobs, HostRecover(h, k) PROVE FALSE
    BY <1>2, <2>1, FailLemma DEF HostRecover
  <2> QED BY <1>3, <1>9, <2>1 DEF HostNext, PoolBreaks, HostCrash, HostBoot, HostUp
<1>10. ASSUME NEW S, jobs' = DeleteJobs(jobs, S) PROVE FALSE
  BY <1>2, <1>10, DeleteLemma
<1>11. ASSUME NEW k \in Jobs, HeartbeatAges(k) PROVE FALSE
  BY <1>2, <1>11, AgeLemma DEF HeartbeatAges
<1> QED
  BY <1>4, <1>5, <1>7, <1>8, <1>9, <1>10, <1>11 DEF Next, GcOldJobs, GcOrphans

(* A process about to complete a job has its analysis stored, or no row.   *)
LEMMA SavedStep ==
  ASSUME IInv, Next
  PROVE  SavedBeforeDone'
<1> SUFFICES ASSUME NEW w \in Workers, worker'[w].pc = "complete",
                    Present(jobs', worker'[w].job)
             PROVE  EvidenceOf[worker'[w].job] \in analyses'
  BY DEF SavedBeforeDone
<1>1. LocalsOK /\ SavedBeforeDone /\ UnbornLeavesNoTrace
  BY DEF IInv
<1>2. CASE worker'[w] = worker[w]
  <2>1. worker[w].job \in Jobs /\ ~Unborn(worker[w].job)
    BY <1>1, <1>2 DEF LocalsOK, UnbornLeavesNoTrace
  <2>2. jobs'[worker[w].job].status # "absent"
    BY <1>2 DEF Present
  <2>3. jobs[worker[w].job].status # "absent"
    BY <2>1, <2>2, StatusStep
  <2>4. EvidenceOf[worker[w].job] \in analyses
    BY <1>1, <1>2, <2>3 DEF SavedBeforeDone, Present
  <2> QED BY <1>2, <2>1, <2>2, <2>4, EvidenceStep
<1>3. CASE worker'[w].job = worker[w].job /\ EvidenceOf[worker[w].job] \in analyses'
  BY <1>3
<1>4. \/ worker'[w] = worker[w]
      \/ worker'[w].job = worker[w].job /\ EvidenceOf[worker[w].job] \in analyses'
  <2>1. worker'[w].pc \notin {"idle", "guarded", "run"}
    OBVIOUS
  <2>2. \/ worker'[w] = worker[w]
        \/ worker'[w] = IdleWorker
        \/ worker'[w].pc = "guarded"
        \/ worker'[w] = [pc |-> "run", job |-> worker[w].job]
        \/ worker'[w].job = worker[w].job /\ EvidenceOf[worker[w].job] \in analyses'
    BY WorkerStep
  <2> QED BY <2>1, <2>2 DEF IdleWorker
<1> QED BY <1>2, <1>3, <1>4

(* A done job has its analysis.                                            *)
LEMMA DoneEvidenceStep ==
  ASSUME IInv, Next
  PROVE  DoneImpliesEvidence'
<1> SUFFICES ASSUME NEW j \in Jobs, jobs'[j].status = "done"
             PROVE  EvidenceOf[j] \in analyses'
  BY DEF DoneImpliesEvidence
<1>1. SavedBeforeDone /\ DoneImpliesEvidence
  BY DEF IInv
<1>2. EvidenceOf[j] \in analyses
  <2>1. CASE jobs[j].status = "done"
    BY <1>1, <2>1 DEF DoneImpliesEvidence
  <2>2. CASE jobs[j].status # "done"
    <3>1. PICK w \in Workers : /\ worker[w] = [pc |-> "complete", job |-> j]
                              /\ jobs[j].status # "absent"
      BY <2>2, DoneStep
    <3>2. worker[w].pc = "complete" /\ worker[w].job = j
      BY <3>1
    <3> QED BY <1>1, <3>1, <3>2 DEF SavedBeforeDone, Present
  <2> QED BY <2>1, <2>2
<1> QED BY <1>2, EvidenceStep

(* The initial state.                                                      *)
LEMMA InvariantInit == Init => IInv
<1> SUFFICES ASSUME Init PROVE IInv
  OBVIOUS
<1> USE QueueAssumption DEF QueueAssumption, Init
<1>1. TypeOK
  <2>1. jobs \in Table(Jobs)
    BY DEF Table
  <2>2. [pc |-> "new", host |-> ApiHost, job |-> NoJob, enqueued |-> {}] \in RequestState
    BY DEF RequestState, RequestPC
  <2> QED BY <2>1, <2>2, LocalStates DEF TypeOK
<1>2. LocalsOK
  BY DEF LocalsOK, IdleWorker
<1>3. UnbornLeavesNoTrace
  BY DEF UnbornLeavesNoTrace, Present, NoRow, IdleWorker
<1>4. ClaimedJobsStayClaimed /\ SavedBeforeDone
  BY DEF ClaimedJobsStayClaimed, SavedBeforeDone, IdleWorker, WorkingPC
<1>5. RecoveredJobsStarted
  BY DEF RecoveredJobsStarted
<1>6. DoneImpliesEvidence
  BY DEF DoneImpliesEvidence, NoRow
<1> QED BY <1>1, <1>2, <1>3, <1>4, <1>5, <1>6 DEF IInv

(* Every step preserves the invariant.                                     *)
LEMMA InvariantStep == IInv /\ [Next]_vars => IInv'
<1> SUFFICES ASSUME IInv, [Next]_vars PROVE IInv'
  OBVIOUS
<1>1. CASE Next
  <2>1. TypeOK'
    BY <1>1, TypeStep DEF IInv
  <2> QED BY <1>1, <2>1, LocalsStep, UnbornStep, ClaimedStep, RecoveredStep, SavedStep,
             DoneEvidenceStep DEF IInv
<1>2. CASE UNCHANGED vars
  <2>1. UNCHANGED <<TypeOK, LocalsOK, UnbornLeavesNoTrace>>
    BY <1>2 DEF vars, TypeOK, LocalsOK, UnbornLeavesNoTrace, Unborn
  <2>2. UNCHANGED <<ClaimedJobsStayClaimed, RecoveredJobsStarted, SavedBeforeDone, DoneImpliesEvidence>>
    BY <1>2 DEF vars, ClaimedJobsStayClaimed, RecoveredJobsStarted, SavedBeforeDone, DoneImpliesEvidence
  <2> QED BY <2>1, <2>2 DEF IInv
<1> QED BY <1>1, <1>2

(* IInv holds of every state of the queue.                                 *)
THEOREM QueueInvariant == Spec => []IInv
BY InvariantInit, InvariantStep, PTL DEF Spec

(* Every variable of the queue keeps its type, for every instance.         *)
THEOREM TypeCorrect == Spec => []TypeOK
<1>1. IInv => TypeOK
  BY DEF IInv
<1> QED BY <1>1, QueueInvariant, PTL

(* A cancel that wins the race against the claim of _worker_run wins it    *)
(* for good: no pool process works on a queued or cancelled row.           *)
THEOREM ClaimsAreForGood == Spec => []ClaimedJobsStayClaimed
<1>1. IInv => ClaimedJobsStayClaimed
  BY DEF IInv
<1> QED BY <1>1, QueueInvariant, PTL

(* Evidence before done: whatever deletions, sweeps, recoveries and deaths *)
(* interleave with the workers, a done job has its analysis row.           *)
THEOREM DoneJobsHaveEvidence == Spec => []DoneImpliesEvidence
<1>1. IInv => DoneImpliesEvidence
  BY DEF IInv
<1> QED BY <1>1, QueueInvariant, PTL

-----------------------------------------------------------------------------
(***************************************************************************)
(* The queue implements the job lifecycle.                                 *)
(***************************************************************************)
Status == [j \in Jobs |-> jobs[j].status]

(* A step touches the status of one job, or removes a set of rows.         *)
LEMMA OneJobStep ==
  ASSUME IInv, Next
  PROVE  \/ \E S \in SUBSET Jobs : Lifecycle!Remove(S)
         \/ \E j \in Jobs : \A k \in Jobs \ {j} : jobs'[k].status = jobs[k].status
         \/ UNCHANGED jobs
<1> DEFINE One == \E j \in Jobs : \A k \in Jobs \ {j} : jobs'[k].status = jobs[k].status
           Rem == \E S \in SUBSET Jobs : Lifecycle!Remove(S)
<1>1. TypeOK /\ LocalsOK /\ jobs \in Table(Jobs)
  BY DEF IInv, TypeOK
<1>2. ASSUME NEW S \in SUBSET Jobs, jobs' = DeleteJobs(jobs, S) PROVE Rem
  <2>1. \A k \in Jobs : jobs'[k].status = IF k \in S THEN "absent" ELSE jobs[k].status
    BY <1>1, <1>2, DeleteLemma
  <2>2. Lifecycle!Remove(S)
    BY <2>1 DEF Lifecycle!Remove
  <2> QED BY <2>2
<1>3. ASSUME NEW c \in Cases, DeleteCaseRows(c) PROVE Rem
  BY <1>2, <1>3 DEF DeleteCaseRows, CaseJobs
<1>4. ASSUME NEW w \in Workers, WorkerNext(w) PROVE One \/ UNCHANGED jobs
  <2>1. worker[w].pc # "idle" => worker[w].job \in Jobs
    BY <1>1 DEF LocalsOK
  <2>2. CASE WorkerClaim(w)
    <3>1. \A k \in Jobs \ {worker[w].job} : jobs'[k].status = jobs[k].status
      BY <1>1, <2>1, <2>2, StartLemma DEF WorkerClaim, WorkerAt
    <3> QED BY <2>1, <2>2, <3>1 DEF WorkerClaim, WorkerAt
  <2>3. CASE WorkerBeat(w)
    BY <1>1, <2>1, <2>3, TouchLemma DEF WorkerBeat
  <2>4. CASE WorkerComplete(w)
    <3>1. \A k \in Jobs \ {worker[w].job} : jobs'[k].status = jobs[k].status
      BY <1>1, <2>1, <2>4, CompleteLemma DEF WorkerComplete, WorkerAt
    <3> QED BY <2>1, <2>4, <3>1 DEF WorkerComplete, WorkerAt
  <2>5. CASE WorkerFail(w)
    <3>1. \A k \in Jobs \ {worker[w].job} : jobs'[k].status = jobs[k].status
      BY <1>1, <2>1, <2>5, FailLemma DEF WorkerFail
    <3> QED BY <2>1, <2>5, <3>1 DEF WorkerFail
  <2> QED BY <1>4, <2>2, <2>3, <2>4, <2>5
          DEF WorkerNext, WorkerTake, WorkerLoad, WorkerPersist, WorkerError, WorkerPersistFails,
              WorkerTakeRaises, WorkerClaimRaises, WorkerFailRaises
<1>5. ASSUME NEW q \in Requests, SubmitNext(q) PROVE Rem \/ One \/ UNCHANGED jobs
  <2>1. CASE SubmitInsert(q)
    <3>1. request[q].job \in Jobs
      BY <1>1, <2>1 DEF LocalsOK, JobsOf, SubmitInsert
    <3>2. \A k \in Jobs \ {request[q].job} : jobs'[k].status = jobs[k].status
      BY <1>1, <2>1, <3>1, CreateJobLemma DEF SubmitInsert
    <3> QED BY <3>1, <3>2
  <2>2. CASE SubmitRollback(q)
    BY <1>3, <2>2, QueueAssumption DEF SubmitRollback, QueueAssumption
  <2> QED BY <1>5, <2>1, <2>2 DEF SubmitNext, SubmitOpen, SubmitCount, SubmitDispatch, SubmitAbort,
                                  SubmitInsertRaises, SubmitDispatchRaises, SubmitRollbackFails
<1>6. ASSUME NEW c \in Cases, DeleteNext(c) PROVE Rem \/ One \/ UNCHANGED jobs
  <2>1. ASSUME NEW j \in Jobs, DeleteCancel(c, j) PROVE One
    <3>1. \A k \in Jobs \ {j} : jobs'[k].status = jobs[k].status
      BY <1>1, <2>1, CancelLemma DEF DeleteCancel
    <3> QED BY <3>1
  <2> QED BY <1>3, <1>6, <2>1 DEF DeleteNext, DeleteSelect, DeleteRefuse, DeleteCommit, DirectDelete,
                                  DeleteRaises
<1>7. ASSUME NEW h \in Hosts, HostNext(h) PROVE One \/ UNCHANGED jobs
  <2>1. ASSUME NEW j \in Jobs, HostRecover(h, j) PROVE One
    <3>1. \A k \in Jobs \ {j} : jobs'[k].status = jobs[k].status
      BY <1>1, <2>1, FailLemma DEF HostRecover
    <3> QED BY <3>1
  <2> QED BY <1>7, <2>1 DEF HostNext, PoolBreaks, HostCrash, HostBoot, HostUp
<1>8. ASSUME NEW j \in Jobs, HeartbeatAges(j) PROVE One
  <2>1. \A k \in Jobs \ {j} : jobs'[k].status = jobs[k].status
    BY <1>1, <1>8, AgeLemma DEF HeartbeatAges
  <2> QED BY <2>1
<1>9. CASE GcOrphans
  BY <1>2, <1>9 DEF GcOrphans, OrphanJobs
<1> QED
  BY <1>2, <1>4, <1>5, <1>6, <1>7, <1>8, <1>9 DEF Next, GcOldJobs

(* A step of the queue is a step of the lifecycle or leaves it alone.      *)
LEMMA LifecycleStep ==
  ASSUME IInv, [Next]_vars
  PROVE  Lifecycle!LifecycleNext \/ UNCHANGED Status
<1>1. CASE UNCHANGED jobs
  BY <1>1 DEF Status
<1>2. ASSUME Next, NEW j \in Jobs, \A k \in Jobs \ {j} : jobs'[k].status = jobs[k].status
      PROVE  Lifecycle!LifecycleNext \/ UNCHANGED Status
  <2>1. CASE jobs'[j].status = jobs[j].status
    BY <1>2, <2>1 DEF Status
  <2>2. CASE jobs'[j].status = "absent"
    <3>1. Lifecycle!Remove({j})
      BY <1>2, <2>2 DEF Lifecycle!Remove
    <3> QED BY <3>1 DEF Lifecycle!LifecycleNext
  <2>3. CASE <<jobs[j].status, jobs'[j].status>> \in QueueMoves
    <3>1. Status' = [Status EXCEPT ![j] = jobs'[j].status]
      BY <1>2 DEF Status
    <3>2. Lifecycle!Move(j)
      BY <2>3, <3>1 DEF Lifecycle!Move, Status
    <3> QED BY <3>2 DEF Lifecycle!LifecycleNext
  <2>4. Unborn(j) => jobs[j].status = "absent"
    BY DEF IInv, UnbornLeavesNoTrace, Present
  <2> QED BY <1>2, <2>1, <2>2, <2>3, <2>4, StatusStep DEF QueueMoves
<1>3. CASE Next
  BY <1>1, <1>2, <1>3, OneJobStep DEF Lifecycle!LifecycleNext
<1> QED BY <1>1, <1>3 DEF vars

(* The detailed queue implements the abstract lifecycle, with the moves of *)
(* QueueMoves: every status a client polls is reached along them.          *)
THEOREM QueueImplementsLifecycle == Spec => LifecycleRefined
<1>1. Init => Lifecycle!LifecycleInit
  BY DEF Init, Lifecycle!LifecycleInit, NoRow
<1>2. IInv /\ [Next]_vars => [Lifecycle!LifecycleNext]_Status
  BY LifecycleStep
<1> QED
  BY <1>1, <1>2, QueueInvariant, PTL DEF Spec, LifecycleRefined, Lifecycle!LifecycleSpec, Status

-----------------------------------------------------------------------------
(***************************************************************************)
(* The invariant behind uploads, deletions and the queue bound: who holds  *)
(* which active job, and how many handlers have counted.                   *)
(***************************************************************************)
(* Deletions, the sweep, recovery and heartbeats: the rows that stay keep  *)
(* or settle their status, and what processes and handlers hold stays.     *)
Bystander == /\ UNCHANGED <<pending, worker, request, crashes, faulted>>
             /\ \A j \in Jobs : IsActive(jobs', j) => jobs'[j].status = jobs[j].status

(* A step is one of a worker other than its beat, one of a handler, a      *)
(* crash, or one of a bystander.                                           *)
LEMMA BystanderStep ==
  ASSUME IInv, Next
  PROVE  \/ \E w \in Workers : WorkerNext(w) /\ ~WorkerBeat(w)
         \/ \E q \in Requests : SubmitNext(q)
         \/ \E h \in Hosts : PoolBreaks(h) \/ HostCrash(h)
         \/ Bystander
<1>1. jobs \in Table(Jobs) /\ TypeOK /\ LocalsOK
  BY DEF IInv, TypeOK
<1>2. ASSUME NEW S, jobs' = DeleteJobs(jobs, S) PROVE \A j \in Jobs : IsActive(jobs', j) => jobs'[j].status = jobs[j].status
  BY <1>1, <1>2, DeleteLemma DEF IsActive, Active
<1>3. ASSUME NEW w \in Workers, WorkerBeat(w) PROVE Bystander
  <2>1. worker[w].job \in Jobs
    BY <1>1, <1>3 DEF LocalsOK, WorkerBeat
  <2> QED BY <1>1, <1>3, <2>1, TouchLemma DEF WorkerBeat, Bystander
<1>4. ASSUME NEW c \in Cases, DeleteNext(c) PROVE Bystander
  <2>1. ASSUME NEW j \in Jobs, DeleteCancel(c, j) PROVE Bystander
    BY <1>1, <2>1, CancelLemma DEF DeleteCancel, Bystander, IsActive, Active
  <2>2. CASE DeleteCommit(c) \/ DirectDelete(c)
    BY <1>2, <2>2 DEF DeleteCommit, DirectDelete, DeleteCaseRows, Bystander
  <2>3. CASE DeleteSelect(c) \/ DeleteRefuse(c) \/ DeleteRaises(c)
    BY <2>3 DEF DeleteSelect, DeleteRefuse, DeleteRaises, Bystander
  <2> QED BY <1>4, <2>1, <2>2, <2>3 DEF DeleteNext
<1>5. ASSUME NEW h \in Hosts, HostNext(h), ~PoolBreaks(h), ~HostCrash(h) PROVE Bystander
  <2>1. ASSUME NEW j \in Jobs, HostRecover(h, j) PROVE Bystander
    BY <1>1, <2>1, FailLemma DEF HostRecover, Bystander, IsActive, Active
  <2>2. CASE HostBoot(h) \/ HostUp(h)
    BY <2>2 DEF HostBoot, HostUp, Bystander
  <2> QED BY <1>5, <2>1, <2>2 DEF HostNext
<1>6. ASSUME NEW S \in SUBSET Jobs, GcOldJobs(S) PROVE Bystander
  BY <1>2, <1>6 DEF GcOldJobs, Bystander
<1>7. CASE GcOrphans
  BY <1>2, <1>7 DEF GcOrphans, Bystander
<1>8. ASSUME NEW j \in Jobs, HeartbeatAges(j) PROVE Bystander
  BY <1>1, <1>8, AgeLemma DEF HeartbeatAges, Bystander
<1> QED
  BY <1>3, <1>4, <1>5, <1>6, <1>7, <1>8 DEF Next

-----------------------------------------------------------------------------
(* A pool process takes its job from the executor, and lets go of it only  *)
(* when its row has settled or is somebody else's.                         *)
LEMMA AccountedByWorkers ==
  ASSUME IInv, NEW w \in Workers, WorkerNext(w), ~WorkerBeat(w), NEW j \in Jobs, Accounted(j)
  PROVE  Accounted(j)' \/ j \in faulted'
<1>1. /\ TypeOK /\ LocalsOK /\ jobs \in Table(Jobs)
      /\ worker \in [Workers -> WorkerState] /\ pending \in [Hosts -> SUBSET Jobs]
  BY DEF IInv, TypeOK
<1>2. UNCHANGED request
  BY DEF WorkerNext, WorkerTake, WorkerClaim, WorkerBeat, WorkerLoad, WorkerPersist, WorkerError,
         WorkerPersistFails, WorkerComplete, WorkerFail, WorkerTakeRaises, WorkerClaimRaises,
         WorkerFailRaises
<1>3. ASSUME NEW k \in Jobs, WorkerTake(w, k) PROVE Accounted(j)'
  <2>1. UNCHANGED jobs /\ worker[w].pc = "idle" /\ \A v \in Workers \ {w} : worker'[v] = worker[v]
    BY <1>1, <1>3 DEF WorkerTake, WorkerAt, Goto
  <2>2. jobs[j].status = "running" => RunningOwner(j)'
    BY <2>1 DEF Accounted, RunningOwner, WorkingPC
  <2>3. ASSUME jobs[j].status = "queued" PROVE QueuedOwner(j)'
    <3>1. CASE k = j
      <4>1. worker'[w] = [pc |-> "guarded", job |-> j]
        BY <1>1, <1>3, <2>3, <3>1 DEF WorkerTake, Goto
      <4> QED BY <4>1 DEF QueuedOwner
    <3>2. CASE k # j
      <4>1. \A h \in Hosts : j \in pending[h] => j \in pending'[h]
        BY <1>1, <1>3, <3>2 DEF WorkerTake
      <4> QED BY <1>2, <2>1, <2>3, <4>1 DEF Accounted, QueuedOwner
    <3> QED BY <3>1, <3>2
  <2> QED BY <2>1, <2>2, <2>3 DEF Accounted
<1>4. CASE WorkerClaim(w)
  <2> DEFINE k == worker[w].job
  <2>1. k \in Jobs /\ worker[w].pc = "guarded" /\ UNCHANGED pending
    BY <1>1, <1>4 DEF LocalsOK, WorkerClaim, WorkerAt
  <2>2. jobs'[j].status = IF j = k /\ jobs[j].status = "queued" THEN "running" ELSE jobs[j].status
    BY <1>1, <1>4, <2>1, StartLemma DEF WorkerClaim
  <2>3. \A v \in Workers \ {w} : worker'[v] = worker[v]
    BY <1>1, <1>4 DEF WorkerClaim, Goto
  <2>4. CASE j = k /\ jobs[j].status = "queued"
    <3>1. worker'[w] = [pc |-> "run", job |-> j]
      BY <1>1, <1>4, <2>4 DEF WorkerClaim, Goto
    <3> QED BY <2>2, <2>4, <3>1 DEF Accounted, RunningOwner, WorkingPC
  <2>5. CASE ~(j = k /\ jobs[j].status = "queued")
    <3>1. jobs[j].status = "running" => RunningOwner(j)'
      BY <2>1, <2>3 DEF Accounted, RunningOwner, WorkingPC
    <3>2. jobs[j].status = "queued" => QueuedOwner(j)'
      <4>1. jobs[j].status = "queued" => worker[w] # [pc |-> "guarded", job |-> j]
        BY <2>5
      <4> QED BY <1>2, <2>1, <2>3, <4>1 DEF Accounted, QueuedOwner
    <3> QED BY <2>2, <2>5, <3>1, <3>2 DEF Accounted
  <2> QED BY <2>4, <2>5
<1>5. CASE WorkerLoad(w) \/ WorkerPersist(w) \/ WorkerError(w) \/ WorkerPersistFails(w)
  <2>1. UNCHANGED <<jobs, pending>> /\ worker[w].pc \in WorkingPC
    BY <1>5 DEF WorkerLoad, WorkerPersist, WorkerError, WorkerPersistFails, WorkerAt, WorkingPC
  <2>2. /\ worker'[w].pc \in WorkingPC /\ worker'[w].job = worker[w].job
        /\ \A v \in Workers \ {w} : worker'[v] = worker[v]
    BY <1>1, <1>5 DEF WorkerLoad, WorkerPersist, WorkerError, WorkerPersistFails, Goto, WorkingPC
  <2>3. jobs[j].status = "running" => RunningOwner(j)'
    BY <2>2 DEF Accounted, RunningOwner
  <2>4. jobs[j].status = "queued" => QueuedOwner(j)'
    BY <1>2, <2>1, <2>2 DEF Accounted, QueuedOwner, WorkingPC
  <2> QED BY <2>1, <2>3, <2>4 DEF Accounted
<1>6. CASE WorkerComplete(w) \/ WorkerFail(w)
  <2> DEFINE k == worker[w].job
  <2>1. k \in Jobs /\ worker[w].pc \in WorkingPC /\ UNCHANGED pending
    BY <1>1, <1>6 DEF LocalsOK, WorkerComplete, WorkerFail, WorkerAt, WorkingPC
  <2>2. jobs' = CompleteJob(jobs, k) \/ jobs' = FailJob(jobs, k)
    BY <1>6 DEF WorkerComplete, WorkerFail
  <2>3. jobs'[j].status \in {"queued", "running"} => j # k /\ jobs'[j].status = jobs[j].status
    <3> HIDE DEF k
    <3>1. \A i \in Jobs : CompleteJob(jobs, k)[i].status
                            = IF i = k /\ jobs[i].status # "absent" THEN "done" ELSE jobs[i].status
      BY <1>1, <2>1, CompleteLemma
    <3>2. \A i \in Jobs : FailJob(jobs, k)[i].status
                            = IF i = k /\ jobs[i].status # "absent" THEN "failed" ELSE jobs[i].status
      BY <1>1, <2>1, FailLemma
    <3> QED BY <2>2, <3>1, <3>2
  <2>4. \A v \in Workers \ {w} : worker'[v] = worker[v]
    BY <1>1, <1>6 DEF WorkerComplete, WorkerFail, Goto
  <2>5. j # k /\ jobs[j].status = "running" => RunningOwner(j)'
    BY <2>4 DEF Accounted, RunningOwner
  <2>6. jobs[j].status = "queued" => QueuedOwner(j)'
    BY <1>2, <2>1, <2>4 DEF Accounted, QueuedOwner, WorkingPC
  <2> QED BY <2>3, <2>5, <2>6 DEF Accounted
<1>7. ASSUME NEW k \in Jobs, WorkerTakeRaises(w, k) PROVE Accounted(j)' \/ j \in faulted'
  <2>1. UNCHANGED <<jobs, worker>> /\ k \in faulted'
    BY <1>7 DEF WorkerTakeRaises, Fault
  <2>2. k # j => \A h \in Hosts : j \in pending[h] => j \in pending'[h]
    BY <1>1, <1>7 DEF WorkerTakeRaises
  <2>3. k # j /\ jobs[j].status = "queued" => QueuedOwner(j)'
    BY <1>2, <2>1, <2>2 DEF Accounted, QueuedOwner
  <2>4. jobs[j].status = "running" => RunningOwner(j)'
    BY <2>1 DEF Accounted, RunningOwner
  <2> QED BY <2>1, <2>3, <2>4 DEF Accounted
<1>8. CASE WorkerClaimRaises(w) \/ WorkerFailRaises(w)
  <2>1. UNCHANGED <<jobs, pending>> /\ worker[w].job \in faulted'
    BY <1>8 DEF WorkerClaimRaises, WorkerFailRaises, Fault
  <2>2. \A v \in Workers \ {w} : worker'[v] = worker[v]
    BY <1>1, <1>8 DEF WorkerClaimRaises, WorkerFailRaises, Goto
  <2>3. CASE worker[w].job # j
    <3>1. jobs[j].status = "running" => RunningOwner(j)'
      BY <2>2, <2>3 DEF Accounted, RunningOwner
    <3>2. jobs[j].status = "queued" => QueuedOwner(j)'
      BY <1>2, <2>1, <2>2, <2>3 DEF Accounted, QueuedOwner
    <3> QED BY <2>1, <3>1, <3>2 DEF Accounted
  <2> QED BY <2>1, <2>3
<1> QED BY <1>3, <1>4, <1>5, <1>6, <1>7, <1>8 DEF WorkerNext

(* A handler answers for a row from its insert to its dispatch.            *)
LEMMA AccountedByRequests ==
  ASSUME IInv, NEW q \in Requests, SubmitNext(q), \A h \in Hosts : ~broken[h],
         NEW j \in Jobs, Accounted(j)
  PROVE  Accounted(j)' \/ j \in faulted'
<1>1. /\ TypeOK /\ LocalsOK /\ jobs \in Table(Jobs) /\ request \in [Requests -> RequestState]
      /\ pending \in [Hosts -> SUBSET Jobs] /\ request[q] \in RequestState
  BY DEF IInv, TypeOK
<1>2. UNCHANGED worker
  BY DEF SubmitNext, SubmitOpen, SubmitCount, SubmitInsert, SubmitDispatch, SubmitAbort, SubmitRollback,
         SubmitInsertRaises, SubmitDispatchRaises, SubmitRollbackFails
<1>3. \A p \in Requests \ {q} : request'[p] = request[p]
  BY <1>1 DEF SubmitNext, SubmitOpen, SubmitCount, SubmitInsert, SubmitDispatch, SubmitAbort,
              SubmitRollback, GoTo, SubmitInsertRaises, SubmitDispatchRaises, SubmitRollbackFails
<1>4. jobs[j].status = "running" => RunningOwner(j)'
  BY <1>2 DEF Accounted, RunningOwner
<1>5. ASSUME request[q].pc # "inserted", UNCHANGED pending, jobs[j].status = "queued"
      PROVE  QueuedOwner(j)'
  BY <1>2, <1>3, <1>5 DEF Accounted, QueuedOwner
<1>6. ASSUME NEW h \in Hosts, SubmitOpen(q, h) PROVE Accounted(j)'
  BY <1>4, <1>5, <1>6 DEF SubmitOpen, Accounted
<1>7. ASSUME NEW k \in Jobs, SubmitCount(q, k) PROVE Accounted(j)'
  BY <1>4, <1>5, <1>7 DEF SubmitCount, Accounted
<1>8. CASE SubmitInsert(q)
  <2>1. request[q].job \in Jobs /\ request[q].pc = "counted" /\ UNCHANGED pending
    BY <1>1, <1>8 DEF LocalsOK, SubmitInsert, JobsOf
  <2>2. jobs'[j].status = IF j = request[q].job THEN "queued" ELSE jobs[j].status
    BY <1>1, <1>8, <2>1, CreateJobLemma DEF SubmitInsert
  <2>3. request'[q].pc = "inserted" /\ request'[q].job = request[q].job
    BY <1>1, <1>8 DEF SubmitInsert, GoTo, RequestState
  <2>4. CASE j = request[q].job
    BY <2>2, <2>3, <2>4 DEF Accounted, QueuedOwner
  <2>5. CASE j # request[q].job
    BY <1>4, <1>5, <2>1, <2>2, <2>5 DEF Accounted
  <2> QED BY <2>4, <2>5
<1>9. CASE SubmitDispatch(q)
  <2>1. request[q].host \in Hosts /\ UNCHANGED jobs
    BY <1>1, <1>9 DEF RequestState, SubmitDispatch
  <2>2. \A h \in Hosts : pending[h] \subseteq pending'[h]
    BY <1>1, <1>9, <2>1 DEF SubmitDispatch
  <2>3. jobs[j].status = "queued" => QueuedOwner(j)'
    <3>1. CASE request[q].pc = "inserted" /\ request[q].job = j /\ jobs[j].status = "queued"
      <4>1. j \in pending'[request[q].host]
        BY <1>1, <1>9, <2>1, <3>1 DEF SubmitDispatch
      <4> QED BY <2>1, <4>1 DEF QueuedOwner
    <3>2. CASE ~(request[q].pc = "inserted" /\ request[q].job = j)
      BY <1>2, <1>3, <2>2, <3>2 DEF Accounted, QueuedOwner
    <3> QED BY <3>1, <3>2
  <2> QED BY <1>4, <2>1, <2>3 DEF Accounted
<1>10. CASE SubmitAbort(q)
  BY <1>4, <1>5, <1>10 DEF SubmitAbort, Accounted
<1>11. CASE SubmitRollback(q)
  <2>1. jobs'[j].status \in {jobs[j].status, "absent"}
    BY <1>1, <1>11, DeleteLemma DEF SubmitRollback, DeleteCaseRows
  <2> QED BY <1>4, <1>5, <1>11, <2>1 DEF SubmitRollback, Accounted
<1>12. CASE SubmitInsertRaises(q) \/ SubmitRollbackFails(q)
  <2>1. request[q].pc # "inserted" /\ UNCHANGED <<jobs, pending>>
    BY <1>12 DEF SubmitInsertRaises, SubmitRollbackFails
  <2> QED BY <1>4, <1>5, <2>1 DEF Accounted
<1>13. CASE SubmitDispatchRaises(q)
  <2>1. UNCHANGED <<jobs, pending>> /\ request[q].job \in faulted'
    BY <1>13 DEF SubmitDispatchRaises, Fault
  <2>2. request[q].job # j /\ jobs[j].status = "queued" => QueuedOwner(j)'
    BY <1>2, <1>3, <2>1 DEF Accounted, QueuedOwner
  <2> QED BY <1>4, <2>1, <2>2 DEF Accounted
<1> QED BY <1>6, <1>7, <1>8, <1>9, <1>10, <1>11, <1>12, <1>13 DEF SubmitNext

(* A job hit by a raising call is not forgotten.                           *)
LEMMA FaultsRemain ==
  ASSUME IInv, Next
  PROVE  faulted \subseteq faulted'
<1>1. ASSUME NEW w \in Workers, WorkerNext(w) PROVE faulted \subseteq faulted'
  BY <1>1 DEF WorkerNext, WorkerTake, WorkerClaim, WorkerBeat, WorkerLoad, WorkerPersist, WorkerError,
     WorkerPersistFails, WorkerComplete, WorkerFail, WorkerTakeRaises, WorkerClaimRaises,
     WorkerFailRaises, Fault
<1>2. ASSUME NEW q \in Requests, SubmitNext(q) PROVE faulted \subseteq faulted'
  BY <1>2 DEF SubmitNext, SubmitOpen, SubmitCount, SubmitInsert, SubmitDispatch, SubmitAbort,
     SubmitRollback, SubmitInsertRaises, SubmitDispatchRaises, SubmitRollbackFails, Fault
<1> QED BY <1>1, <1>2, BystanderStep DEF Bystander, PoolBreaks, HostCrash

(* Without a death every active row is accounted for, unless a call about  *)
(* it raised.                                                              *)
LEMMA ActiveAccountedStep ==
  ASSUME IInv, ActiveAccounted, Next
  PROVE  ActiveAccounted'
<1> SUFFICES ASSUME crashes' = 0
             PROVE  /\ \A h \in Hosts : host'[h] = "up" /\ ~broken'[h]
                    /\ \A j \in Jobs : Accounted(j)' \/ j \in faulted'
  BY DEF ActiveAccounted
<1>1. crashes = 0 /\ \A h \in Hosts : ~PoolBreaks(h) /\ ~HostCrash(h)
  <2>1. crashes \in Nat
    BY DEF IInv, TypeOK
  <2>2. \A h \in Hosts : PoolStopped(h) => crashes' # 0
    BY <2>1 DEF PoolStopped
  <2>3. ~UNCHANGED crashes => \E h \in Hosts : PoolStopped(h)
    BY BystanderStep DEF Bystander, PoolBreaks, HostCrash, WorkerNext, WorkerTake, WorkerClaim,
       WorkerLoad, WorkerPersist, WorkerError, WorkerPersistFails, WorkerComplete, WorkerFail,
       SubmitNext, SubmitOpen, SubmitCount, SubmitInsert, SubmitDispatch, SubmitAbort, SubmitRollback,
                         WorkerTakeRaises, WorkerClaimRaises, WorkerFailRaises, SubmitInsertRaises,
                         SubmitDispatchRaises, SubmitRollbackFails
  <2> QED BY <2>2, <2>3 DEF PoolBreaks, HostCrash
<1>2. /\ \A h \in Hosts : host[h] = "up" /\ ~broken[h]
      /\ \A j \in Jobs : Accounted(j) \/ j \in faulted
  BY <1>1 DEF ActiveAccounted
<1>3. UNCHANGED <<host, broken>>
  <2>1. ASSUME NEW h \in Hosts, HostNext(h) PROVE UNCHANGED <<host, broken>>
    BY <1>1, <1>2, <2>1 DEF HostNext, HostBoot, HostUp, HostRecover
  <2>2. ASSUME NEW w \in Workers, WorkerNext(w) PROVE UNCHANGED <<host, broken>>
    BY <2>2 DEF WorkerNext, WorkerTake, WorkerClaim, WorkerBeat, WorkerLoad, WorkerPersist,
                WorkerError, WorkerPersistFails, WorkerComplete, WorkerFail, WorkerTakeRaises,
                WorkerClaimRaises, WorkerFailRaises
  <2>3. ASSUME NEW q \in Requests, SubmitNext(q) PROVE UNCHANGED <<host, broken>>
    BY <2>3 DEF SubmitNext, SubmitOpen, SubmitCount, SubmitInsert, SubmitDispatch, SubmitAbort,
                SubmitRollback, SubmitInsertRaises, SubmitDispatchRaises, SubmitRollbackFails
  <2>4. ASSUME NEW c \in Cases, DeleteNext(c) PROVE UNCHANGED <<host, broken>>
    BY <2>4 DEF DeleteNext, DeleteSelect, DeleteRefuse, DeleteCommit, DirectDelete, DeleteCancel,
                DeleteRaises
  <2> QED BY <2>1, <2>2, <2>3, <2>4 DEF Next, GcOldJobs, GcOrphans, HeartbeatAges
<1>4. ASSUME NEW j \in Jobs PROVE Accounted(j)' \/ j \in faulted'
  <2>1. CASE Bystander
    BY <1>2, <2>1 DEF Bystander, Accounted, QueuedOwner, RunningOwner, IsActive, Active
  <2>2. CASE j \in faulted
    BY <2>2, FaultsRemain
  <2> QED BY <1>1, <1>2, <2>1, <2>2, BystanderStep, AccountedByWorkers, AccountedByRequests
<1> QED BY <1>2, <1>3, <1>4

-----------------------------------------------------------------------------
(* How a step moves the handlers: one of them, or a death several.         *)
Opened(q) == /\ request[q].pc = "new" /\ request'[q].pc = "open"
             /\ request'[q].enqueued = request[q].enqueued
             /\ Kind[q] = "report" => SourcesSaved(q)
             /\ UNCHANGED <<jobs, analyses>>

Leaves(q) == /\ request[q].pc = "open" /\ request'[q].pc \in {"counted", "rollback"}
             /\ request'[q].enqueued = request[q].enqueued /\ request'[q].host = request[q].host
             /\ LoopFree(q, request[q].host)
             /\ request'[q].pc = "counted" => Cardinality(ActiveJobs(jobs)) < MaxDepth
             /\ UNCHANGED <<jobs, analyses>>

Inserted(q) == /\ request[q].pc = "counted" /\ request'[q].pc = "inserted"
               /\ request'[q].enqueued = request[q].enqueued /\ request'[q].host = request[q].host
               /\ jobs' = CreateJob(jobs, request[q].job) /\ UNCHANGED analyses

Dispatched(q) == /\ request[q].pc = "inserted" /\ request'[q].host = request[q].host
                 /\ \/ /\ request'[q].pc = "rollback" /\ request'[q].enqueued = request[q].enqueued
                    \/ /\ request'[q].enqueued = request[q].enqueued \cup {request[q].job}
                       /\ request'[q].pc = IF request'[q].enqueued = JobsOf(q) THEN "accepted" ELSE "open"
                 /\ UNCHANGED <<jobs, analyses>>

Rejected(q) == /\ request[q].pc = "rollback" /\ request'[q].pc = "rejected"
               /\ request'[q].enqueued = request[q].enqueued
               /\ Kind[q] = "upload" => DeleteCaseRows(CaseOf[q])

Stops(q) == /\ \/ request[q].pc = "counted" /\ request'[q].pc = "rollback"
               \/ request[q].pc = "rollback" /\ request'[q].pc = "undeleted"
            /\ request'[q].enqueued = request[q].enqueued /\ request'[q].host = request[q].host
            /\ UNCHANGED <<jobs, analyses>>

(* What a step of a submission does to its request.                        *)
LEMMA HandlerMoves ==
  ASSUME IInv, NEW q \in Requests, SubmitNext(q)
  PROVE  /\ Opened(q) \/ Leaves(q) \/ Inserted(q) \/ Dispatched(q) \/ Rejected(q) \/ Stops(q)
         /\ UNCHANGED <<worker, deleter>> /\ \A p \in Requests \ {q} : request'[p] = request[p]
<1>1. request \in [Requests -> RequestState] /\ request[q] \in RequestState
  BY DEF IInv, TypeOK
<1>2. UNCHANGED <<worker, deleter>> /\ \A p \in Requests \ {q} : request'[p] = request[p]
  BY <1>1 DEF SubmitNext, SubmitOpen, SubmitCount, SubmitInsert, SubmitDispatch, SubmitAbort,
              SubmitRollback, GoTo, SubmitInsertRaises, SubmitDispatchRaises, SubmitRollbackFails
<1>3. ASSUME NEW h \in Hosts, SubmitOpen(q, h) PROVE Opened(q)
  BY <1>1, <1>3 DEF SubmitOpen, GoTo, RequestState, Opened
<1>4. ASSUME NEW j \in Jobs, SubmitCount(q, j) PROVE Leaves(q)
  <2>1. ActiveJobs(jobs) \subseteq Jobs /\ IsFiniteSet(Jobs) /\ MaxDepth \in Nat
    BY QueueAssumption DEF QueueAssumption, IInv, TypeOK, ActiveJobs, Table
  <2>2. Cardinality(ActiveJobs(jobs)) \in Nat
    BY <2>1, FS_Subset, FS_CardinalityType
  <2>3. /\ request[q].pc = "open" /\ LoopFree(q, request[q].host) /\ UNCHANGED <<jobs, analyses>>
        /\ \/ request'[q] = [request[q] EXCEPT !.pc = "rollback"]
           \/ /\ ~(Cardinality(ActiveJobs(jobs)) >= MaxDepth)
              /\ request'[q] = [request[q] EXCEPT !.pc = "counted", !.job = j]
    BY <1>1, <1>4 DEF SubmitCount, GoTo
  <2>4. ~(Cardinality(ActiveJobs(jobs)) >= MaxDepth) => Cardinality(ActiveJobs(jobs)) < MaxDepth
    BY <2>1, <2>2
  <2> QED BY <1>1, <2>3, <2>4 DEF RequestState, Leaves
<1>5. CASE SubmitInsert(q)
  BY <1>1, <1>5 DEF SubmitInsert, GoTo, RequestState, Inserted
<1>6. CASE SubmitDispatch(q)
  BY <1>1, <1>6 DEF SubmitDispatch, GoTo, RequestState, Dispatched
<1>7. CASE SubmitAbort(q)
  BY <1>1, <1>7 DEF SubmitAbort, GoTo, RequestState, Leaves
<1>8. CASE SubmitRollback(q)
  BY <1>1, <1>8 DEF SubmitRollback, GoTo, RequestState, Rejected, DropsCase
<1>9. CASE SubmitInsertRaises(q) \/ SubmitRollbackFails(q)
  BY <1>1, <1>9 DEF SubmitInsertRaises, SubmitRollbackFails, GoTo, RequestState, Stops
<1>10. CASE SubmitDispatchRaises(q)
  BY <1>1, <1>10 DEF SubmitDispatchRaises, GoTo, RequestState, Dispatched
<1> QED BY <1>2, <1>3, <1>4, <1>5, <1>6, <1>7, <1>8, <1>9, <1>10 DEF SubmitNext

(* What any step does to the requests: a step of one of them, or the loss  *)
(* of those in flight.                                                     *)
LEMMA HandlersMove ==
  ASSUME IInv, Next
  PROVE  \/ \E q \in Requests : SubmitNext(q)
         \/ \A q \in Requests : \/ request'[q] = request[q]
                                 \/ /\ request[q].pc \in InFlight /\ request'[q].pc = "lost"
                                    /\ request'[q].enqueued = request[q].enqueued
<1>1. request \in [Requests -> RequestState]
  BY DEF IInv, TypeOK
<1>2. ASSUME NEW h \in Hosts, HostCrash(h), NEW q \in Requests
      PROVE  \/ request'[q] = request[q]
             \/ /\ request[q].pc \in InFlight /\ request'[q].pc = "lost"
                /\ request'[q].enqueued = request[q].enqueued
  <2>1. request[q] \in RequestState
    BY <1>1
  <2>2. request'[q] = IF request[q].host = h /\ request[q].pc \in InFlight
                        THEN [request[q] EXCEPT !.pc = "lost", !.job = NoJob] ELSE request[q]
    BY <1>2 DEF HostCrash
  <2> QED BY <2>1, <2>2 DEF RequestState
<1>3. ASSUME NEW h \in Hosts, PoolBreaks(h) PROVE UNCHANGED request
  BY <1>3 DEF PoolBreaks
<1>4. ASSUME NEW w \in Workers, WorkerNext(w) PROVE UNCHANGED request
  BY <1>4 DEF WorkerNext, WorkerTake, WorkerClaim, WorkerBeat, WorkerLoad, WorkerPersist,
              WorkerError, WorkerPersistFails, WorkerComplete, WorkerFail, WorkerTakeRaises,
              WorkerClaimRaises, WorkerFailRaises
<1> QED BY <1>2, <1>3, <1>4, BystanderStep DEF Bystander

-----------------------------------------------------------------------------
(* What remains to be enqueued.                                            *)
LEMMA EnqueuedStep ==
  ASSUME IInv, EnqueuedOK, Next
  PROVE  EnqueuedOK'
<1> SUFFICES ASSUME NEW q \in Requests
             PROVE  /\ request'[q].enqueued \subseteq JobsOf(q)
                    /\ request'[q].pc = "new" => request'[q].enqueued = {}
                    /\ request'[q].pc \notin {"accepted", "lost"} /\ JobsOf(q) # {}
                         => request'[q].enqueued # JobsOf(q)
  BY DEF EnqueuedOK, JobsOf
<1>1. /\ request[q].enqueued \subseteq JobsOf(q)
      /\ request[q].pc = "new" => request[q].enqueued = {}
      /\ request[q].pc \notin {"accepted", "lost"} /\ JobsOf(q) # {} => request[q].enqueued # JobsOf(q)
  BY DEF EnqueuedOK
<1>2. request[q].pc = "inserted" => request[q].job \in JobsOf(q)
  BY DEF IInv, LocalsOK
<1>3. CASE request'[q] = request[q]
  BY <1>1, <1>3
<1>4. CASE request'[q].pc = "lost" /\ request'[q].enqueued = request[q].enqueued
  BY <1>1, <1>4
<1>5. CASE SubmitNext(q)
  <2>1. CASE Opened(q) \/ Leaves(q) \/ Inserted(q) \/ Rejected(q) \/ Stops(q)
    BY <1>1, <2>1 DEF Opened, Leaves, Inserted, Rejected, Stops
  <2>2. CASE Dispatched(q)
    BY <1>1, <1>2, <2>2 DEF Dispatched
  <2> QED BY <1>5, <2>1, <2>2, HandlerMoves
<1> QED BY <1>3, <1>4, <1>5, HandlersMove, HandlerMoves

(* One upload of an event loop at a time is between count and insert.      *)
LEMMA OneOnLoopStep ==
  ASSUME IInv, OneOnLoop, Next
  PROVE  OneOnLoop'
<1> DEFINE Busy == {"counted", "inserted", "rollback"}
<1> SUFFICES ASSUME NEW p \in Requests, NEW q \in Requests, p # q,
                    Kind[p] = "upload", Kind[q] = "upload", request'[p].host = request'[q].host,
                    request'[p].pc \in Busy, request'[q].pc \in Busy
             PROVE  FALSE
  BY DEF OneOnLoop
<1>1. ASSUME NEW r \in Requests, SubmitNext(r), request'[r].pc \in Busy
      PROVE  /\ request'[r].host = request[r].host
             /\ request[r].pc \in Busy \/ LoopFree(r, request[r].host)
  BY <1>1, HandlerMoves DEF Opened, Leaves, Inserted, Dispatched, Rejected, Stops
<1>2. ASSUME NEW r \in Requests, NEW s \in Requests \ {r}, SubmitNext(r),
             Kind[r] = "upload", Kind[s] = "upload",
             request'[r].host = request'[s].host, request'[r].pc \in Busy, request'[s].pc \in Busy
      PROVE  FALSE
  <2>1. request'[s] = request[s]
    BY <1>2, HandlerMoves
  <2> QED BY <1>1, <1>2, <2>1 DEF OneOnLoop, LoopFree
<1>3. CASE \E r \in Requests : SubmitNext(r)
  <2>1. PICK r \in Requests : SubmitNext(r)
    BY <1>3
  <2>2. CASE r \notin {p, q}
    BY <2>1, <2>2, HandlerMoves DEF OneOnLoop
  <2> QED BY <1>2, <2>1, <2>2
<1>4. CASE request'[p] = request[p] /\ request'[q] = request[q]
  BY <1>4 DEF OneOnLoop
<1> QED BY <1>3, <1>4, HandlersMove

(* Rows a deletion has passed do not wait again.                           *)
LEMMA PassedStep ==
  ASSUME IInv, PassedRowsSettled, Next
  PROVE  PassedRowsSettled'
<1> SUFFICES ASSUME NEW c \in Cases, deleter'[c].pc = "rows", NEW j \in deleter'[c].rows
             PROVE  /\ ~Unborn(j)'
                    /\ j \in deleter'[c].queued \cup deleter'[c].running \/ ~IsActive(jobs', j)
  BY DEF PassedRowsSettled
<1>1. /\ TypeOK /\ UnbornLeavesNoTrace /\ jobs \in Table(Jobs)
      /\ deleter \in [Cases -> DeleterState] /\ deleter[c] \in DeleterState
  BY DEF IInv, TypeOK
<1>2. ASSUME NEW k \in Jobs, ~Unborn(k) PROVE ~Unborn(k)'
  <2>1. RequestOf[k] \in Requests
    BY QueueAssumption DEF QueueAssumption
  <2> QED BY <1>2, <2>1, RequestStep DEF Unborn
<1>3. ASSUME j \in Jobs, ~Unborn(j), ~IsActive(jobs, j) PROVE ~IsActive(jobs', j)
  BY <1>3, StatusStep DEF IsActive, Active
<1>4. CASE deleter'[c] = deleter[c]
  <2>1. j \in Jobs /\ ~Unborn(j)
    BY <1>1, <1>4 DEF PassedRowsSettled, DeleterState
  <2> QED BY <1>2, <1>3, <1>4, <2>1 DEF PassedRowsSettled
<1>5. CASE DeleteSelect(c)
  <2>1. deleter'[c] = [pc |-> "rows",
                       rows    |-> {k \in CaseJobs(c) : Present(jobs, k)},
                       queued  |-> {k \in CaseJobs(c) : jobs[k].status = "queued"},
                       running |-> {k \in CaseJobs(c) : jobs[k].status = "running"}]
    BY <1>1, <1>5 DEF DeleteSelect
  <2>2. j \in CaseJobs(c) /\ j \in Jobs /\ Present(jobs, j) /\ UNCHANGED jobs
    BY <1>5, <2>1 DEF CaseJobs, DeleteSelect
  <2>3. ~Unborn(j)
    BY <1>1, <2>2 DEF UnbornLeavesNoTrace
  <2> QED BY <1>2, <2>1, <2>2, <2>3 DEF IsActive, Active
<1>6. ASSUME NEW k \in Jobs, DeleteCancel(c, k) PROVE ~Unborn(j)' /\ (j \in deleter'[c].queued \cup deleter'[c].running \/ ~IsActive(jobs', j))
  <2>1. jobs[k].status = "queued"
    BY <1>1, <1>6 DEF DeleteCancel, IdleDeleter
  <2>2. deleter'[c] = [deleter[c] EXCEPT !.queued = deleter[c].queued \ {k}] /\ deleter[c].pc = "rows"
    BY <1>1, <1>6, <2>1 DEF DeleteCancel
  <2>3. /\ deleter'[c].rows = deleter[c].rows /\ deleter'[c].running = deleter[c].running
        /\ deleter'[c].queued = deleter[c].queued \ {k}
    BY <1>1, <2>2 DEF DeleterState
  <2>4. j \in Jobs /\ ~Unborn(j)
    BY <1>1, <2>2, <2>3 DEF PassedRowsSettled, DeleterState
  <2>5. jobs'[k].status = "cancelled"
    BY <1>1, <1>6, <2>1, CancelLemma DEF DeleteCancel
  <2>6. j \in deleter[c].queued \cup deleter[c].running \/ ~IsActive(jobs, j)
    BY <2>2, <2>3 DEF PassedRowsSettled
  <2> QED BY <1>2, <1>3, <2>3, <2>4, <2>5, <2>6 DEF IsActive, Active
<1>7. deleter'[c] = deleter[c] \/ DeleteSelect(c) \/ \E k \in Jobs : DeleteCancel(c, k)
  <2>1. ASSUME NEW d \in Cases, DeleteNext(d), d # c PROVE deleter'[c] = deleter[c]
    BY <1>1, <2>1 DEF DeleteNext, DeleteSelect, DeleteRefuse, DeleteCancel, DeleteCommit, DirectDelete,
                      DeleteRaises
  <2>2. CASE DeleteRefuse(c) \/ DeleteRaises(c) \/ DeleteCommit(c)
    BY <1>1, <2>2 DEF DeleteRefuse, DeleteRaises, DeleteCommit, IdleDeleter
  <2>3. CASE DirectDelete(c)
    BY <2>3 DEF DirectDelete
  <2>4. ASSUME NEW h \in Hosts, HostNext(h) PROVE deleter'[c] = deleter[c]
    <3>1. CASE HostCrash(h)
      BY <3>1 DEF HostCrash, IdleDeleter
    <3> QED BY <2>4, <3>1 DEF HostNext, PoolBreaks, HostBoot, HostUp, HostRecover
  <2>5. ASSUME NEW w \in Workers, WorkerNext(w) PROVE UNCHANGED deleter
    BY <2>5 DEF WorkerNext, WorkerTake, WorkerClaim, WorkerBeat, WorkerLoad, WorkerPersist,
                WorkerError, WorkerPersistFails, WorkerComplete, WorkerFail, WorkerTakeRaises,
                WorkerClaimRaises, WorkerFailRaises
  <2>6. ASSUME NEW q \in Requests, SubmitNext(q) PROVE UNCHANGED deleter
    BY <2>6, HandlerMoves
  <2>7. CASE UNCHANGED deleter
    BY <2>7
  <2> QED BY <2>1, <2>2, <2>3, <2>4, <2>5, <2>6, <2>7 DEF Next, DeleteNext, GcOldJobs, GcOrphans, HeartbeatAges
<1> QED BY <1>4, <1>5, <1>6, <1>7

(* A row is inserted only by the handler that holds its id, and every      *)
(* other step makes no job active.                                         *)
LEMMA ActiveMoves ==
  ASSUME IInv, Next
  PROVE  \/ ActiveJobs(jobs') \subseteq ActiveJobs(jobs)
         \/ \E q \in Requests :
              /\ SubmitNext(q) /\ request[q].pc = "counted" /\ request'[q].pc = "inserted"
              /\ ActiveJobs(jobs') = ActiveJobs(jobs) \cup {request[q].job}
<1>1. /\ jobs \in Table(Jobs) /\ LocalsOK
      /\ ActiveJobs(jobs) = {j \in Jobs : IsActive(jobs, j)}
  BY DEF IInv, TypeOK, ActiveJobs, Table
<1>2. ActiveJobs(jobs') = {j \in Jobs : IsActive(jobs', j)}
  BY TypeStep DEF IInv, TypeOK, ActiveJobs, Table
<1>3. CASE \A j \in Jobs : IsActive(jobs', j) => IsActive(jobs, j)
  BY <1>1, <1>2, <1>3
<1>4. ASSUME NEW q \in Requests, SubmitInsert(q)
      PROVE  /\ SubmitNext(q) /\ request[q].pc = "counted" /\ request'[q].pc = "inserted"
             /\ ActiveJobs(jobs') = ActiveJobs(jobs) \cup {request[q].job}
  <2>1. request[q].job \in Jobs /\ request[q].pc = "counted" /\ jobs' = CreateJob(jobs, request[q].job)
    BY <1>1, <1>4 DEF LocalsOK, SubmitInsert, JobsOf
  <2>2. \A k \in Jobs : CreateJob(jobs, request[q].job)[k].status
                          = IF k = request[q].job THEN "queued" ELSE jobs[k].status
    BY <1>1, <2>1, CreateJobLemma
  <2>3. request'[q].pc = "inserted"
    BY <1>4 DEF SubmitInsert, GoTo, IInv, TypeOK, RequestState
  <2>4. \A k \in Jobs : IsActive(jobs', k) <=> k = request[q].job \/ IsActive(jobs, k)
    BY <2>1, <2>2 DEF IsActive, Active
  <2> QED BY <1>1, <1>2, <1>4, <2>1, <2>3, <2>4 DEF SubmitNext
<1>5. ASSUME NEW q \in Requests, SubmitNext(q), ~SubmitInsert(q) PROVE \A j \in Jobs : IsActive(jobs', j) => IsActive(jobs, j)
  <2>1. CASE UNCHANGED jobs
    BY <2>1
  <2>2. CASE SubmitRollback(q)
    <3>1. ASSUME NEW c, DeleteCaseRows(c) PROVE \A j \in Jobs : IsActive(jobs', j) => IsActive(jobs, j)
      BY <1>1, <3>1, DeleteLemma DEF DeleteCaseRows, IsActive, Active
    <3> QED BY <2>1, <2>2, <3>1 DEF SubmitRollback
  <2> QED BY <1>5, <2>1, <2>2 DEF SubmitNext, SubmitOpen, SubmitCount, SubmitDispatch, SubmitAbort,
                                  SubmitInsertRaises, SubmitDispatchRaises, SubmitRollbackFails
<1>6. ASSUME ~\E q \in Requests : SubmitInsert(q), NEW j \in Jobs, IsActive(jobs', j) PROVE IsActive(jobs, j)
  <2>1. CASE Bystander
    BY <1>6, <2>1 DEF Bystander, IsActive
  <2>2. ASSUME NEW w \in Workers, WorkerNext(w) PROVE IsActive(jobs, j)
    <3>1. ~(Unborn(j) /\ ~Unborn(j)')
      <4>1. UNCHANGED request
        BY <2>2 DEF WorkerNext, WorkerTake, WorkerClaim, WorkerBeat, WorkerLoad, WorkerPersist,
                    WorkerError, WorkerPersistFails, WorkerComplete, WorkerFail, WorkerTakeRaises,
                    WorkerClaimRaises, WorkerFailRaises
      <4> QED BY <4>1 DEF Unborn
    <3> QED BY <1>6, <3>1, StatusStep DEF IsActive, Active
  <2>3. ASSUME NEW h \in Hosts, PoolBreaks(h) \/ HostCrash(h) PROVE IsActive(jobs, j)
    BY <1>6, <2>3 DEF PoolBreaks, HostCrash, IsActive
  <2> QED BY <1>5, <1>6, <2>1, <2>2, <2>3, BystanderStep
<1> QED BY <1>3, <1>4, <1>6

(* Handlers between count and insert: one per event loop, and the threads. *)
LEMMA CountersAreFew ==
  ASSUME TypeOK, OneOnLoop
  PROVE  /\ IsFiniteSet(Counters) /\ Cardinality(Counters) \in Nat
         /\ Cardinality(Hosts) \in Nat /\ Cardinality(Threaded) \in Nat
         /\ Cardinality(Counters) <= Cardinality(Hosts) + Cardinality(Threaded)
<1>1. IsFiniteSet(Requests) /\ IsFiniteSet(Hosts)
  BY QueueAssumption DEF QueueAssumption
<1>2. Counters \subseteq Requests /\ Threaded \subseteq Requests
  BY DEF Counters, Threaded
<1>3. /\ IsFiniteSet(Counters) /\ Cardinality(Counters) \in Nat
      /\ IsFiniteSet(Threaded) /\ Cardinality(Threaded) \in Nat
      /\ Cardinality(Hosts) \in Nat
  BY <1>1, <1>2, FS_Subset, FS_CardinalityType
<1> DEFINE Loops == Counters \ Threaded
           hostOf == [q \in Loops |-> request[q].host]
<1>4. IsFiniteSet(Loops) /\ Cardinality(Loops) \in Nat
  BY <1>3, FS_Subset, FS_CardinalityType
<1>5. hostOf \in Injection(Loops, Hosts)
  <2>1. \A q \in Loops : request[q].host \in Hosts /\ Kind[q] = "upload" /\ request[q].pc = "counted"
    BY DEF TypeOK, RequestState, Counters, Threaded
  <2>2. hostOf \in [Loops -> Hosts]
    BY <2>1
  <2>3. \A p, q \in Loops : hostOf[p] = hostOf[q] => p = q
    BY <2>1 DEF OneOnLoop, Counters
  <2> QED BY <2>2, <2>3 DEF Injection, IsInjective
<1>6. Cardinality(Loops) <= Cardinality(Hosts)
  BY <1>1, <1>5, FS_Injection
<1>7. /\ IsFiniteSet(Loops \cup Threaded)
      /\ Cardinality(Loops \cup Threaded) <= Cardinality(Loops) + Cardinality(Threaded)
      /\ Cardinality(Loops \cup Threaded) \in Nat
  <2> HIDE DEF Loops
  <2>1. /\ IsFiniteSet(Loops \cup Threaded) /\ IsFiniteSet(Loops \cap Threaded)
        /\ Cardinality(Loops \cup Threaded)
             = Cardinality(Loops) + Cardinality(Threaded) - Cardinality(Loops \cap Threaded)
    BY <1>3, <1>4, FS_Union, FS_Intersection
  <2>2. Cardinality(Loops \cap Threaded) \in Nat /\ Cardinality(Loops \cup Threaded) \in Nat
    BY <2>1, FS_CardinalityType
  <2> QED BY <1>3, <1>4, <2>1, <2>2
<1>8. Cardinality(Counters) <= Cardinality(Loops \cup Threaded)
  <2>1. Counters \subseteq Loops \cup Threaded
    OBVIOUS
  <2> QED BY <1>7, <2>1, FS_Subset
<1> HIDE DEF Loops
<1> QED BY <1>3, <1>4, <1>6, <1>7, <1>8

(* The active rows and those about to be inserted.                         *)
LEMMA CountersStep ==
  ASSUME IInv, OneOnLoop, CountersBounded, Next
  PROVE  CountersBounded'
<1> DEFINE A == ActiveJobs(jobs)
           B == ActiveJobs(jobs)'
           Limit == MaxDepth + Cardinality(Hosts) - 1 + Cardinality(Threaded)
<1>1. TypeOK /\ TypeOK' /\ OneOnLoop'
  BY TypeStep, OneOnLoopStep DEF IInv
<1>2. /\ IsFiniteSet(A) /\ Cardinality(A) \in Nat /\ IsFiniteSet(B) /\ Cardinality(B) \in Nat
      /\ MaxDepth \in Nat
  <2>1. A \subseteq Jobs /\ B \subseteq Jobs
    BY <1>1 DEF TypeOK, ActiveJobs, Table
  <2>2. IsFiniteSet(Jobs) /\ MaxDepth \in Nat
    BY QueueAssumption DEF QueueAssumption
  <2> HIDE DEF A, B
  <2> QED BY <2>1, <2>2, FS_Subset, FS_CardinalityType
<1>3. /\ IsFiniteSet(Counters) /\ Cardinality(Counters) \in Nat
      /\ IsFiniteSet(Counters') /\ Cardinality(Counters') \in Nat
      /\ Cardinality(Hosts) \in Nat /\ Cardinality(Threaded) \in Nat
      /\ Cardinality(Counters') <= Cardinality(Hosts) + Cardinality(Threaded)
  <2>1. /\ IsFiniteSet(Counters) /\ Cardinality(Counters) \in Nat
        /\ Cardinality(Hosts) \in Nat /\ Cardinality(Threaded) \in Nat
    BY <1>1, CountersAreFew
  <2>2. (/\ IsFiniteSet(Counters) /\ Cardinality(Counters) \in Nat
         /\ Cardinality(Counters) <= Cardinality(Hosts) + Cardinality(Threaded))'
    BY <1>1, CountersAreFew, PTL
  <2> QED BY <2>1, <2>2
<1>4. Cardinality(A) + Cardinality(Counters) <= Limit
  BY DEF CountersBounded
<1>5. SUFFICES Cardinality(B) + Cardinality(Counters') <= Limit
  BY DEF CountersBounded, Threaded
<1>6. ASSUME B \subseteq A, Counters' \subseteq Counters
      PROVE  Cardinality(B) + Cardinality(Counters') <= Limit
  <2>1. Cardinality(B) <= Cardinality(A) /\ Cardinality(Counters') <= Cardinality(Counters)
    BY <1>2, <1>3, <1>6, FS_Subset
  <2> HIDE DEF A, B
  <2> QED BY <1>2, <1>3, <1>4, <2>1
<1>7. ASSUME NEW q \in Requests, SubmitNext(q), Leaves(q)
      PROVE  Cardinality(B) + Cardinality(Counters') <= Limit
  <2>1. CASE request'[q].pc = "counted"
    <3>1. Cardinality(A) < MaxDepth /\ B = A
      BY <1>7, <2>1 DEF Leaves
    <3> HIDE DEF A, B
    <3> QED BY <1>2, <1>3, <3>1
  <2>2. CASE request'[q].pc # "counted"
    <3>1. B = A /\ Counters' \subseteq Counters
      BY <1>7, <2>2, HandlerMoves DEF Leaves, Counters
    <3> QED BY <1>6, <3>1
  <2> QED BY <2>1, <2>2
<1>8. ASSUME NEW q \in Requests, SubmitNext(q), request[q].pc = "counted", request'[q].pc = "inserted",
             B = A \cup {request[q].job}
      PROVE  Cardinality(B) + Cardinality(Counters') <= Limit
  <2>1. q \in Counters /\ Counters' = Counters \ {q}
    BY <1>8, HandlerMoves DEF Counters
  <2>2. Cardinality(Counters') = Cardinality(Counters) - 1
    BY <1>3, <2>1, FS_RemoveElement
  <2>3. Cardinality(B) <= Cardinality(A) + 1
    <3> HIDE DEF A, B
    <3> QED BY <1>2, <1>8, FS_AddElement, SMTT(30)
  <2> HIDE DEF A, B
  <2> QED BY <1>2, <1>3, <1>4, <2>2, <2>3
<1>9. ASSUME B \subseteq A PROVE Cardinality(B) + Cardinality(Counters') <= Limit
  <2>1. ASSUME NEW q \in Requests, SubmitNext(q), ~Leaves(q) PROVE Counters' \subseteq Counters
    BY <2>1, HandlerMoves DEF Counters, Opened, Inserted, Dispatched, Rejected, Stops
  <2>2. ASSUME \A q \in Requests : request'[q] = request[q] \/ request'[q].pc = "lost"
        PROVE  Counters' \subseteq Counters
    BY <2>2 DEF Counters
  <2> QED BY <1>6, <1>7, <1>9, <2>1, <2>2, HandlersMove
<1> QED BY <1>8, <1>9, ActiveMoves

(* No process has a job that was never dispatched, so no analysis is of    *)
(* it, and no report of it can be asked for.                               *)
LEMMA UndispatchedStep ==
  ASSUME IInv, EnqueuedOK, UndispatchedUntouched, Next
  PROVE  UndispatchedUntouched'
<1> USE DEF Undispatched
<1> SUFFICES ASSUME NEW j \in Jobs, Undispatched(j)'
             PROVE  /\ \A h \in Hosts : j \notin pending'[h]
                    /\ \A w \in Workers : worker'[w].job # j
                    /\ j \notin analyses'
                    /\ \A k \in Jobs : IsReport(k) /\ EvidenceOf[k] = j => request'[RequestOf[k]].pc = "new"
  BY DEF UndispatchedUntouched, IsReport
<1>1. /\ TypeOK /\ LocalsOK /\ pending \in [Hosts -> SUBSET Jobs] /\ worker \in [Workers -> WorkerState]
      /\ HostOf \in [Workers -> Hosts] /\ RequestOf \in [Jobs -> Requests]
  BY QueueAssumption DEF QueueAssumption, IInv, TypeOK
<1>2. Undispatched(j)
  <2>1. \A q \in Requests : request[q].enqueued \subseteq request'[q].enqueued
    BY HandlersMove, HandlerMoves DEF Opened, Leaves, Inserted, Dispatched, Rejected, Stops
  <2> QED BY <1>1, <2>1
<1>3. /\ \A h \in Hosts : j \notin pending[h]
      /\ \A w \in Workers : worker[w].job # j
      /\ j \notin analyses
      /\ \A k \in Jobs : IsReport(k) /\ EvidenceOf[k] = j => request[RequestOf[k]].pc = "new"
  BY <1>2 DEF UndispatchedUntouched
<1>4. ASSUME NEW h \in Hosts PROVE j \notin pending'[h]
  <2>1. ASSUME NEW q \in Requests, SubmitDispatch(q) PROVE j \notin pending'[h]
    <3>1. CASE UNCHANGED pending
      BY <1>3, <3>1
    <3>2. CASE ~UNCHANGED pending
      <4>1. request[q].job \in request'[q].enqueued /\ request[q].job \in JobsOf(q)
        BY <1>1, <2>1, <3>2 DEF SubmitDispatch, GoTo, TypeOK, RequestState, LocalsOK
      <4>2. request[q].job # j
        BY <4>1 DEF JobsOf
      <4> QED BY <1>1, <1>3, <2>1, <4>2 DEF SubmitDispatch
    <3> QED BY <3>1, <3>2
  <2>2. ASSUME NEW q \in Requests, SubmitNext(q), ~SubmitDispatch(q) PROVE UNCHANGED pending
    BY <2>2 DEF SubmitNext, SubmitOpen, SubmitCount, SubmitInsert, SubmitAbort, SubmitRollback,
                SubmitInsertRaises, SubmitDispatchRaises, SubmitRollbackFails
  <2>3. ASSUME NEW w \in Workers, WorkerNext(w) PROVE j \notin pending'[h]
    <3>1. ASSUME NEW k \in Jobs, WorkerTake(w, k) PROVE j \notin pending'[h]
      BY <1>1, <1>3, <3>1 DEF WorkerTake
    <3>3. ASSUME NEW k \in Jobs, WorkerTakeRaises(w, k) PROVE j \notin pending'[h]
      BY <1>1, <1>3, <3>3 DEF WorkerTakeRaises
    <3>2. ASSUME ~\E k \in Jobs : WorkerTake(w, k) \/ WorkerTakeRaises(w, k) PROVE UNCHANGED pending
      BY <2>3, <3>2 DEF WorkerNext, WorkerClaim, WorkerBeat, WorkerLoad, WorkerPersist,
                        WorkerError, WorkerPersistFails, WorkerComplete, WorkerFail,
                        WorkerTakeRaises, WorkerClaimRaises, WorkerFailRaises
    <3> QED BY <1>3, <3>1, <3>2, <3>3
  <2>4. ASSUME NEW g \in Hosts, PoolStopped(g) PROVE j \notin pending'[h]
    BY <1>1, <1>3, <2>4 DEF PoolStopped
  <2> QED BY <1>3, <2>1, <2>2, <2>3, <2>4, BystanderStep DEF Bystander, PoolBreaks, HostCrash
<1>5. ASSUME NEW w \in Workers PROVE worker'[w].job # j
  <2>1. worker[w].job # j /\ j \notin pending[HostOf[w]]
    BY <1>1, <1>3
  <2>2. \/ worker'[w] = worker[w]
        \/ worker'[w] = IdleWorker
        \/ worker'[w].job \in pending[HostOf[w]]
        \/ worker'[w] = [pc |-> "run", job |-> worker[w].job]
        \/ worker'[w].job = worker[w].job
    BY WorkerStep
  <2>3. NoJob # j
    BY QueueAssumption DEF QueueAssumption
  <2> QED BY <2>1, <2>2, <2>3 DEF IdleWorker
<1>6. j \notin analyses'
  <2>1. ASSUME NEW w \in Workers, WorkerPersist(w) PROVE EvidenceOf[worker[w].job] # j
    <3> DEFINE k == worker[w].job
    <3>1. k \in Jobs /\ k # j
      BY <1>1, <1>3, <2>1 DEF LocalsOK, WorkerPersist, WorkerAt
    <3>2. CASE IsReport(k) /\ EvidenceOf[k] = j
      <4>1. request[RequestOf[k]].pc = "new" /\ RequestOf[k] \in Requests
        BY <1>1, <1>3, <3>1, <3>2
      <4>2. Undispatched(k)
        BY <4>1 DEF EnqueuedOK
      <4> QED BY <3>1, <4>2 DEF UndispatchedUntouched
    <3>3. CASE ~IsReport(k)
      BY <3>1, <3>3, QueueAssumption DEF QueueAssumption, IsReport
    <3> QED BY <3>2, <3>3
  <2>2. ASSUME NEW w \in Workers, WorkerNext(w), ~WorkerPersist(w) PROVE UNCHANGED analyses
    BY <2>2 DEF WorkerNext, WorkerTake, WorkerClaim, WorkerBeat, WorkerLoad,
                WorkerError, WorkerPersistFails, WorkerComplete, WorkerFail, WorkerTakeRaises,
                WorkerClaimRaises, WorkerFailRaises
  <2>3. ASSUME NEW q \in Requests, SubmitNext(q) PROVE analyses' \subseteq analyses
    BY <2>3 DEF SubmitNext, SubmitOpen, SubmitCount, SubmitInsert, SubmitDispatch, SubmitAbort,
                SubmitRollback, DeleteCaseRows, SubmitInsertRaises, SubmitDispatchRaises,
                SubmitRollbackFails
  <2>4. ASSUME NEW c \in Cases, DeleteNext(c) PROVE analyses' \subseteq analyses
    BY <2>4 DEF DeleteNext, DeleteSelect, DeleteRefuse, DeleteCommit, DirectDelete, DeleteCancel, DeleteCaseRows,
                DeleteRaises
  <2>5. ASSUME NEW h \in Hosts, HostNext(h) PROVE UNCHANGED analyses
    BY <2>5 DEF HostNext, PoolBreaks, HostCrash, HostBoot, HostUp, HostRecover
  <2> QED BY <1>3, <2>1, <2>2, <2>3, <2>4, <2>5 DEF Next, GcOldJobs, GcOrphans, HeartbeatAges, WorkerPersist
<1>7. ASSUME NEW k \in Jobs, IsReport(k), EvidenceOf[k] = j PROVE request'[RequestOf[k]].pc = "new"
  <2> DEFINE q == RequestOf[k]
  <2>1. q \in Requests /\ request[q].pc = "new" /\ k \in JobsOf(q) /\ Kind[q] = "report"
    BY <1>1, <1>3, <1>7 DEF JobsOf, IsReport
  <2>2. ~Opened(q)
    BY <1>3, <1>7, <2>1 DEF Opened, SourcesSaved
  <2>3. ~SubmitNext(q)
    BY <2>1, <2>2, HandlerMoves DEF Leaves, Inserted, Dispatched, Rejected, Stops
  <2> QED BY <2>1, <2>3, HandlersMove, HandlerMoves DEF InFlight
<1> QED BY <1>4, <1>5, <1>6, <1>7

(* A case comes back only with a handler of its own, and there is one.     *)
LEMMA RefusedStep ==
  ASSUME IInv, RefusedRowsGone, Next
  PROVE  RefusedRowsGone'
<1> SUFFICES ASSUME NEW q \in Requests, Kind[q] = "upload", request'[q].pc = "rejected"
             PROVE  CaseOf[q] \notin cases' /\ \A j \in JobsOf(q) : ~Present(jobs', j)
  BY DEF RefusedRowsGone, JobsOf
<1>1. /\ TypeOK /\ jobs \in Table(Jobs) /\ request \in [Requests -> RequestState]
      /\ RequestOf \in [Jobs -> Requests] /\ CaseOf \in [Requests -> Cases]
  BY QueueAssumption DEF QueueAssumption, IInv, TypeOK
<1>2. CASE request[q].pc = "rejected"
  <2>1. CaseOf[q] \notin cases /\ \A j \in JobsOf(q) : ~Present(jobs, j)
    BY <1>2 DEF RefusedRowsGone
  <2>2. ASSUME NEW p \in Requests, NEW h \in Hosts, SubmitOpen(p, h) PROVE CaseOf[q] \notin cases'
    <3>1. request[p].pc = "new" /\ p # q
      BY <1>2, <2>2 DEF SubmitOpen
    <3>2. Kind[p] # "report" => CaseOf[p] # CaseOf[q]
      BY <3>1, QueueAssumption DEF QueueAssumption
    <3> QED BY <2>1, <2>2, <3>2 DEF SubmitOpen
  <2>3. ASSUME NEW p \in Requests, SubmitNext(p) PROVE CaseOf[q] \notin cases'
    BY <2>1, <2>2, <2>3 DEF SubmitNext, SubmitCount, SubmitInsert, SubmitDispatch, SubmitAbort,
                            SubmitRollback, DeleteCaseRows, SubmitInsertRaises, SubmitDispatchRaises,
                            SubmitRollbackFails
  <2>4. ASSUME NEW c \in Cases, DeleteNext(c) PROVE cases' \subseteq cases
    BY <2>4 DEF DeleteNext, DeleteSelect, DeleteRefuse, DeleteCommit, DirectDelete, DeleteCancel, DeleteCaseRows,
                DeleteRaises
  <2>5. ASSUME NEW h \in Hosts, HostNext(h) PROVE UNCHANGED cases
    BY <2>5 DEF HostNext, PoolBreaks, HostCrash, HostBoot, HostUp, HostRecover
  <2>6. ASSUME NEW w \in Workers, WorkerNext(w) PROVE UNCHANGED cases
    BY <2>6 DEF WorkerNext, WorkerTake, WorkerClaim, WorkerBeat, WorkerLoad, WorkerPersist,
                WorkerError, WorkerPersistFails, WorkerComplete, WorkerFail, WorkerTakeRaises,
                WorkerClaimRaises, WorkerFailRaises
  <2>7. CaseOf[q] \notin cases'
    BY <2>1, <2>3, <2>4, <2>5, <2>6 DEF Next, GcOldJobs, GcOrphans, HeartbeatAges
  <2>8. ASSUME NEW j \in JobsOf(q) PROVE ~Present(jobs', j)
    <3>1. j \in Jobs /\ ~Unborn(j) /\ jobs[j].status = "absent"
      BY <1>2, <2>1 DEF JobsOf, Unborn, Present
    <3> QED BY <3>1, StatusStep DEF Present
  <2> QED BY <2>7, <2>8
<1>3. CASE request[q].pc # "rejected"
  <2>1. SubmitNext(q)
    BY <1>3, HandlersMove, HandlerMoves
  <2>2. DeleteCaseRows(CaseOf[q])
    BY <2>1, HandlerMoves DEF Opened, Leaves, Inserted, Dispatched, Rejected, Stops
  <2>3. \A j \in JobsOf(q) : j \in Jobs /\ j \in CaseJobs(CaseOf[q])
    BY DEF JobsOf, CaseJobs, CaseOfJob
  <2>4. \A j \in Jobs : j \in CaseJobs(CaseOf[q]) => jobs'[j].status = "absent"
    BY <1>1, <2>2, DeleteLemma DEF DeleteCaseRows
  <2> QED BY <2>2, <2>3, <2>4 DEF DeleteCaseRows, Present
<1> QED BY <1>2, <1>3

-----------------------------------------------------------------------------

(* No upload is known at first.                                            *)
LEMMA UploadInit == Init => UploadInv
<1> SUFFICES ASSUME Init PROVE UploadInv
  OBVIOUS
<1>1. \A j \in Jobs : jobs[j].status = "absent" /\ worker \in [Workers -> {IdleWorker}]
  BY DEF Init, NoRow
<1>2. /\ \A q \in Requests : request[q].pc = "new" /\ request[q].enqueued = {}
      /\ \A c \in Cases : deleter[c].pc = "idle"
  BY DEF Init, IdleDeleter
<1>3. ActiveAccounted
  BY <1>1 DEF ActiveAccounted, Accounted, Init
<1>4. PassedRowsSettled /\ OneOnLoop /\ EnqueuedOK /\ RefusedRowsGone
  BY <1>2 DEF PassedRowsSettled, OneOnLoop, EnqueuedOK, RefusedRowsGone
<1>5. UndispatchedUntouched
  <2>1. RequestOf \in [Jobs -> Requests] /\ NoJob \notin Jobs
    BY QueueAssumption DEF QueueAssumption
  <2> QED BY <1>2, <2>1 DEF UndispatchedUntouched, Init, IdleWorker
<1>6. CountersBounded
  <2>1. ActiveJobs(jobs) = {} /\ Counters = {}
    BY <1>1, <1>2 DEF ActiveJobs, IsActive, Active, Counters, Init
  <2>2. /\ Cardinality(Hosts) \in Nat /\ Cardinality(Hosts) # 0
        /\ Cardinality(Threaded) \in Nat /\ MaxDepth \in Nat
    <3>1. /\ IsFiniteSet(Hosts) /\ Hosts # {} /\ IsFiniteSet(Requests) /\ Threaded \subseteq Requests
          /\ MaxDepth \in Nat
      BY QueueAssumption DEF QueueAssumption, Threaded
    <3> QED BY <3>1, FS_Subset, FS_CardinalityType, FS_EmptySet
  <2> QED BY <2>1, <2>2, FS_EmptySet DEF CountersBounded
<1> QED BY <1>3, <1>4, <1>5, <1>6 DEF UploadInv

(* Every step keeps what is said of uploads.                               *)
LEMMA UploadStep == IInv /\ UploadInv /\ [Next]_vars => UploadInv'
<1> SUFFICES ASSUME IInv, UploadInv, [Next]_vars PROVE UploadInv'
  OBVIOUS
<1>1. CASE Next
  BY <1>1, ActiveAccountedStep, PassedStep, OneOnLoopStep, CountersStep, EnqueuedStep,
     UndispatchedStep, RefusedStep DEF UploadInv
<1>2. CASE UNCHANGED vars
  <2>1. UNCHANGED <<ActiveAccounted, PassedRowsSettled, OneOnLoop, CountersBounded>>
    BY <1>2 DEF vars, ActiveAccounted, Accounted, QueuedOwner, RunningOwner, PassedRowsSettled, Unborn,
                OneOnLoop, CountersBounded, Counters
  <2>2. UNCHANGED <<EnqueuedOK, UndispatchedUntouched, RefusedRowsGone>>
    BY <1>2 DEF vars, EnqueuedOK, UndispatchedUntouched, Undispatched, RefusedRowsGone
  <2> QED BY <2>1, <2>2 DEF UploadInv
<1> QED BY <1>1, <1>2

(* What is known of uploads, in every state.                               *)
THEOREM UploadInvariant == Spec => []UploadInv
BY UploadInit, UploadStep, QueueInvariant, PTL DEF Spec

(* Nothing re-submits a queued row, and nothing has to unless a process    *)
(* dies or a call about that row raises uncaught (queue.py:543, 551, 592,  *)
(* 617): every other active job has a future, a process or a handler, in   *)
(* whatever order claims, cancels, deletions and rollbacks come.           *)
THEOREM ActiveJobsAreOwned == Spec => []StrandedOnlyByFailure
<1>1. TypeOK /\ UploadInv => StrandedOnlyByFailure
  <2> SUFFICES ASSUME TypeOK, UploadInv, NEW j \in Jobs, IsActive(jobs, j), ~Owned(j),
                      ~(crashes > 0), j \notin faulted
               PROVE  FALSE
    BY DEF StrandedOnlyByFailure
  <2>1. Accounted(j)
    BY DEF UploadInv, ActiveAccounted, TypeOK
  <2> QED BY <2>1 DEF Accounted, QueuedOwner, RunningOwner, Owned, IsActive, Active
<1> QED BY <1>1, TypeCorrect, UploadInvariant, PTL

(* The cascade of DELETE /cases runs over settled rows only, of those it   *)
(* has read.                                                               *)
THEOREM DeletionSeesSettledJobs == Spec => []SeenJobsSettledAtDelete
<1>1. UploadInv => SeenJobsSettledAtDelete
  BY DEF UploadInv, PassedRowsSettled, SeenJobsSettledAtDelete
<1> QED BY <1>1, UploadInvariant, PTL

(* Counting and inserting apart lets the queue overshoot its depth by one  *)
(* row per further event loop and per threaded handler, and by no more.    *)
THEOREM OvershootIsBounded == Spec => []QueueOvershootBounded
<1>1. TypeOK /\ UploadInv => QueueOvershootBounded
  <2> SUFFICES ASSUME TypeOK, UploadInv PROVE QueueOvershootBounded
    OBVIOUS
  <2> DEFINE A == ActiveJobs(jobs)
  <2>1. Cardinality(A) + Cardinality(Counters)
          <= MaxDepth + Cardinality(Hosts) - 1 + Cardinality(Threaded)
    BY DEF UploadInv, CountersBounded
  <2>2. /\ Cardinality(Counters) \in Nat /\ Cardinality(Hosts) \in Nat /\ Cardinality(Threaded) \in Nat
    BY CountersAreFew DEF UploadInv
  <2>3. Cardinality(A) \in Nat /\ MaxDepth \in Nat
    <3>1. A \subseteq Jobs /\ IsFiniteSet(Jobs) /\ MaxDepth \in Nat
      BY QueueAssumption DEF QueueAssumption, TypeOK, ActiveJobs, Table
    <3> HIDE DEF A
    <3> QED BY <3>1, FS_Subset, FS_CardinalityType
  <2>4. Cardinality(A) <= MaxDepth + Cardinality(Hosts) - 1 + Cardinality(Threaded)
    <3> HIDE DEF A
    <3> QED BY <2>1, <2>2, <2>3
  <2> QED BY <2>4 DEF QueueOvershootBounded
<1> QED BY <1>1, TypeCorrect, UploadInvariant, PTL

(* A refused upload whose rollback committed leaves no case and no row     *)
(* behind, and of the captures it had not dispatched no analysis or        *)
(* future, then or later.                                                  *)
THEOREM RefusedUploadsVanish == Spec => []RefusedUploadLeavesNothing
<1>1. IInv /\ UploadInv => RefusedUploadLeavesNothing
  <2> SUFFICES ASSUME IInv, UploadInv, NEW q \in Requests, Kind[q] = "upload",
                      request[q].pc = "rejected"
               PROVE  /\ CaseOf[q] \notin cases
                      /\ \A j \in JobsOf(q) : ~Present(jobs, j)
                      /\ \A j \in JobsOf(q) \ request[q].enqueued : j \notin analyses /\ ~Owned(j)
    BY DEF RefusedUploadLeavesNothing
  <2>1. CaseOf[q] \notin cases /\ \A j \in JobsOf(q) : ~Present(jobs, j)
    BY DEF UploadInv, RefusedRowsGone
  <2>2. ASSUME NEW j \in JobsOf(q) \ request[q].enqueued PROVE j \notin analyses /\ ~Owned(j)
    <3>1. j \in Jobs /\ RequestOf[j] = q /\ Undispatched(j)
      BY <2>2 DEF JobsOf, Undispatched
    <3>2. /\ j \notin analyses /\ \A h \in Hosts : j \notin pending[h]
          /\ \A w \in Workers : worker[w].job # j
      BY <3>1 DEF UploadInv, UndispatchedUntouched
    <3>3. \A p \in Requests : ~(request[p].pc = "inserted" /\ request[p].job = j)
      BY <3>1 DEF IInv, LocalsOK, JobsOf
    <3> QED BY <3>2, <3>3 DEF Owned
  <2> QED BY <2>1, <2>2
<1> QED BY <1>1, QueueInvariant, UploadInvariant, PTL
=============================================================================
