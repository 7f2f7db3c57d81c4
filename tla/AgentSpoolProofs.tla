-------------------------- MODULE AgentSpoolProofs --------------------------
(***************************************************************************)
(* The safety properties of AgentSpool for every set of jobs and every     *)
(* number of faults.  IInv is inductive; the properties are its parts or   *)
(* follow from it.                                                         *)
(***************************************************************************)
EXTENDS AgentSpool, TLAPS

(* The columns of a row have their types, and only NoRow is absent.        *)
LEMMA RowLemma ==
  ASSUME NEW S, NEW t \in Table(S), NEW j \in S
  PROVE  /\ t[j].fresh \in BOOLEAN
         /\ t[j].finished \in BOOLEAN
         /\ t[j].status \in Statuses \cup {"absent"}
         /\ Present(t, j) <=> t[j].status \in Statuses
<1>1. t[j] \in Row \/ t[j] = NoRow
  BY DEF Table
<1>2. CASE t[j] \in Row
  BY <1>2 DEF Row, Present, Statuses, Active, Terminal
<1>3. CASE t[j] = NoRow
  BY <1>3 DEF NoRow, Present, Statuses, Active, Terminal
<1> QED BY <1>1, <1>2, <1>3

(* Replacing a row gives a table in which only its status may differ.      *)
LEMMA PutLemma ==
  ASSUME NEW S, NEW t \in Table(S), NEW j \in S, NEW r \in Row
  PROVE  LET u == [t EXCEPT ![j] = r] IN
         u \in Table(S) /\ \A k \in S : u[k].status = IF k = j THEN r.status ELSE t[k].status
<1> DEFINE u == [t EXCEPT ![j] = r]
<1>1. u \in Table(S) /\ u[j] = r /\ \A k \in S \ {j} : u[k] = t[k]
  BY DEF Table
<1> QED BY <1>1

(* INSERT: the row of j is queued, the others are as before.               *)
LEMMA CreateJobLemma ==
  ASSUME NEW S, NEW t \in Table(S), NEW j \in S
  PROVE  /\ CreateJob(t, j) \in Table(S)
         /\ \A k \in S : CreateJob(t, j)[k].status = IF k = j THEN "queued" ELSE t[k].status
<1> DEFINE r == [status |-> "queued", fresh |-> TRUE, finished |-> FALSE]
           u == [t EXCEPT ![j] = r]
<1>1. r \in Row /\ r.status = "queued"
  BY RowLemma DEF Row, Statuses, Active, Terminal, Present
<1>2. CreateJob(t, j) = u
  BY DEF CreateJob, Update
<1> HIDE DEF r
<1>3. u \in Table(S) /\ \A k \in S : u[k].status = IF k = j THEN r.status ELSE t[k].status
  BY <1>1, PutLemma
<1> HIDE DEF u
<1> QED BY <1>1, <1>2, <1>3, RowLemma DEF Present, Active

(* The claim moves queued to running and nothing else.                     *)
LEMMA StartLemma ==
  ASSUME NEW S, NEW t \in Table(S), NEW j \in S
  PROVE  /\ StartJobIfQueued(t, j) \in Table(S)
         /\ \A k \in S : StartJobIfQueued(t, j)[k].status =
              IF k = j /\ t[k].status = "queued" THEN "running" ELSE t[k].status
<1> DEFINE r == [status |-> "running", fresh |-> TRUE, finished |-> t[j].finished]
           u == [t EXCEPT ![j] = r]
<1>1. t[j].status = "queued" => r \in Row /\ r.status = "running"
  BY RowLemma DEF Row, Statuses, Active, Terminal, Present
<1>2. StartJobIfQueued(t, j) = IF t[j].status = "queued" THEN u ELSE t
  BY DEF StartJobIfQueued, Update
<1> HIDE DEF r
<1>3. t[j].status = "queued" => u \in Table(S) /\ \A k \in S : u[k].status = IF k = j THEN r.status ELSE t[k].status
  BY <1>1, PutLemma
<1> HIDE DEF u
<1> QED BY <1>1, <1>2, <1>3, RowLemma DEF Present, Active

(* The cancel moves queued to cancelled and nothing else.                  *)
LEMMA CancelLemma ==
  ASSUME NEW S, NEW t \in Table(S), NEW j \in S
  PROVE  /\ CancelJobIfQueued(t, j) \in Table(S)
         /\ \A k \in S : CancelJobIfQueued(t, j)[k].status =
              IF k = j /\ t[k].status = "queued" THEN "cancelled" ELSE t[k].status
<1> DEFINE r == [status |-> "cancelled", fresh |-> t[j].fresh, finished |-> TRUE]
           u == [t EXCEPT ![j] = r]
<1>1. t[j].status = "queued" => r \in Row /\ r.status = "cancelled"
  BY RowLemma DEF Row, Statuses, Active, Terminal, Present
<1>2. CancelJobIfQueued(t, j) = IF t[j].status = "queued" THEN u ELSE t
  BY DEF CancelJobIfQueued, Update
<1> HIDE DEF r
<1>3. t[j].status = "queued" => u \in Table(S) /\ \A k \in S : u[k].status = IF k = j THEN r.status ELSE t[k].status
  BY <1>1, PutLemma
<1> HIDE DEF u
<1> QED BY <1>1, <1>2, <1>3, RowLemma DEF Present, Active

(* Heartbeats change no status.                                            *)
LEMMA TouchLemma ==
  ASSUME NEW S, NEW t \in Table(S), NEW j \in S
  PROVE  /\ TouchHeartbeat(t, j) \in Table(S)
         /\ \A k \in S : TouchHeartbeat(t, j)[k].status = t[k].status
<1> DEFINE r == [status |-> t[j].status, fresh |-> TRUE, finished |-> t[j].finished]
           u == [t EXCEPT ![j] = r]
<1>1. Present(t, j) => r \in Row /\ r.status = t[j].status
  BY RowLemma DEF Row, Statuses, Active, Terminal, Present
<1>2. TouchHeartbeat(t, j) = IF Present(t, j) THEN u ELSE t
  BY DEF TouchHeartbeat, Update
<1> HIDE DEF r
<1>3. Present(t, j) => u \in Table(S) /\ \A k \in S : u[k].status = IF k = j THEN r.status ELSE t[k].status
  BY <1>1, PutLemma
<1> HIDE DEF u
<1> QED BY <1>1, <1>2, <1>3, RowLemma DEF Present, Active

(* The cancel of an agent moves an active row to cancelled.                *)
LEMMA CancelActiveLemma ==
  ASSUME NEW S, NEW t \in Table(S), NEW j \in S
  PROVE  /\ CancelActiveJob(t, j) \in Table(S)
         /\ \A k \in S : CancelActiveJob(t, j)[k].status =
              IF k = j /\ t[k].status \in Active THEN "cancelled" ELSE t[k].status
<1> DEFINE r == [status |-> "cancelled", fresh |-> t[j].fresh, finished |-> t[j].finished]
           u == [t EXCEPT ![j] = r]
<1>1. t[j].status \in Active => r \in Row /\ r.status = "cancelled"
  BY RowLemma DEF Row, Statuses, Active, Terminal, Present
<1>2. CancelActiveJob(t, j) = IF t[j].status \in Active THEN u ELSE t
  BY DEF CancelActiveJob, IsActive, Update
<1> HIDE DEF r
<1>3. t[j].status \in Active => u \in Table(S) /\ \A k \in S : u[k].status = IF k = j THEN r.status ELSE t[k].status
  BY <1>1, PutLemma
<1> HIDE DEF u
<1> QED BY <1>1, <1>2, <1>3, RowLemma DEF Present, Active

(* complete_job(only_active=True) moves an active row to done.             *)
LEMMA CompleteActiveLemma ==
  ASSUME NEW S, NEW t \in Table(S), NEW j \in S
  PROVE  /\ CompleteActiveJob(t, j) \in Table(S)
         /\ \A k \in S : CompleteActiveJob(t, j)[k].status =
              IF k = j /\ t[k].status \in Active THEN "done" ELSE t[k].status
<1> DEFINE r == [status |-> "done", fresh |-> TRUE, finished |-> TRUE]
           u == [t EXCEPT ![j] = r]
<1>1. t[j].status \in Active => r \in Row /\ r.status = "done"
  BY RowLemma DEF Row, Statuses, Active, Terminal, Present
<1>2. CompleteActiveJob(t, j) = IF t[j].status \in Active THEN u ELSE t
  BY DEF CompleteActiveJob, CompleteJob, Present, IsActive, Active, Update
<1> HIDE DEF r
<1>3. t[j].status \in Active => u \in Table(S) /\ \A k \in S : u[k].status = IF k = j THEN r.status ELSE t[k].status
  BY <1>1, PutLemma
<1> HIDE DEF u
<1> QED BY <1>1, <1>2, <1>3, RowLemma DEF Present, Active

(* fail_active moves an active row to failed.                              *)
LEMMA FailActiveLemma ==
  ASSUME NEW S, NEW t \in Table(S), NEW j \in S
  PROVE  /\ FailActiveJob(t, j) \in Table(S)
         /\ \A k \in S : FailActiveJob(t, j)[k].status =
              IF k = j /\ t[k].status \in Active THEN "failed" ELSE t[k].status
<1> DEFINE r == [status |-> "failed", fresh |-> t[j].fresh, finished |-> TRUE]
           u == [t EXCEPT ![j] = r]
<1>1. t[j].status \in Active => r \in Row /\ r.status = "failed"
  BY RowLemma DEF Row, Statuses, Active, Terminal, Present
<1>2. FailActiveJob(t, j) = IF t[j].status \in Active THEN u ELSE t
  BY DEF FailActiveJob, FailJob, Present, IsActive, Active, Update
<1> HIDE DEF r
<1>3. t[j].status \in Active => u \in Table(S) /\ \A k \in S : u[k].status = IF k = j THEN r.status ELSE t[k].status
  BY <1>1, PutLemma
<1> HIDE DEF u
<1> QED BY <1>1, <1>2, <1>3, RowLemma DEF Present, Active

(* DELETE removes the rows of D and keeps the others.                      *)
LEMMA DeleteLemma ==
  ASSUME NEW S, NEW t \in Table(S), NEW D
  PROVE  /\ DeleteJobs(t, D) \in Table(S)
         /\ \A k \in S : DeleteJobs(t, D)[k].status = IF k \in D THEN "absent" ELSE t[k].status
BY DEF DeleteJobs, Table, NoRow

(* What a step does to the status of a row: it leaves it, inserts it for a *)
(* submission that is new, starts it, settles it, or deletes it.           *)
StatusMove(k) ==
  \/ jobs'[k].status = jobs[k].status
  \/ jobs'[k].status = "queued" /\ submit[k] = "new" /\ submit'[k] = "read"
       /\ UNCHANGED <<broker, supervisor, api, output, inbox, receipts, containers, analyses>>
  \/ jobs[k].status = "queued" /\ jobs'[k].status = "running"
  \/ jobs[k].status \in Active /\ jobs'[k].status \in {"failed", "cancelled"}
  \/ At("complete", k) /\ jobs[k].status \in Active /\ jobs'[k].status = "done"
  \/ jobs'[k].status = "absent" /\ (k \in analyses' => k \in analyses)

(* The table keeps its type and its rows move as StatusMove says.          *)
LEMMA TableStep ==
  ASSUME TypeOK, [Next]_vars
  PROVE  jobs' \in Table(Jobs) /\ \A k \in Jobs : StatusMove(k)
<1> DEFINE Goal == jobs' \in Table(Jobs) /\ \A k \in Jobs : StatusMove(k)
<1>0. jobs \in Table(Jobs)
  BY DEF TypeOK
<1>1. CASE UNCHANGED jobs
  BY <1>0, <1>1 DEF StatusMove
<1>2. ASSUME NEW j \in Jobs, SubmitCommit(j) PROVE Goal
  <2>1. jobs' \in Table(Jobs)
        /\ \A k \in Jobs : jobs'[k].status = IF k = j THEN "queued" ELSE jobs[k].status
    BY <1>2, <1>0, CreateJobLemma DEF SubmitCommit
  <2>2. StatusMove(j)
    <3>1. UNCHANGED <<broker, supervisor, api, output, inbox, receipts, containers, analyses>>
      BY <1>2 DEF SubmitCommit, results
    <3>2. submit[j] = "new" /\ submit'[j] = "read"
      BY <1>2 DEF SubmitCommit, TypeOK
    <3> QED BY <2>1, <3>1, <3>2 DEF StatusMove
  <2> QED BY <2>1, <2>2 DEF StatusMove
<1>3. ASSUME NEW j \in Jobs, CancelCommit(j) PROVE Goal
  <2>1. jobs' \in Table(Jobs)
        /\ \A k \in Jobs : jobs'[k].status
             = IF k = j /\ jobs[k].status \in Active THEN "cancelled" ELSE jobs[k].status
    BY <1>3, <1>0, CancelActiveLemma DEF CancelCommit
  <2> QED BY <2>1 DEF StatusMove
<1>4. ASSUME NEW j \in Jobs, DeleteCancel(j) PROVE Goal
  <2>1. jobs' \in Table(Jobs)
        /\ \A k \in Jobs : jobs'[k].status
             = IF k = j /\ jobs[k].status = "queued" THEN "cancelled" ELSE jobs[k].status
    BY <1>4, <1>0, CancelLemma DEF DeleteCancel
  <2> QED BY <2>1 DEF StatusMove, Active
<1>5. ASSUME NEW j \in Jobs, DeleteCommit(j) PROVE Goal
  <2>1. jobs' \in Table(Jobs)
        /\ \A k \in Jobs : jobs'[k].status = IF k = j THEN "absent" ELSE jobs[k].status
    BY <1>5, <1>0, DeleteLemma DEF DeleteCommit
  <2>2. analyses' \subseteq analyses
    BY <1>5 DEF DeleteCommit
  <2> QED BY <2>1, <2>2 DEF StatusMove
<1>6. ASSUME NEW j \in Jobs, jobs' = FailActiveJob(jobs, j) PROVE Goal
  <2>1. jobs' \in Table(Jobs)
        /\ \A k \in Jobs : jobs'[k].status
             = IF k = j /\ jobs[k].status \in Active THEN "failed" ELSE jobs[k].status
    BY <1>6, <1>0, FailActiveLemma
  <2> QED BY <2>1 DEF StatusMove
<1>7. ASSUME NEW j \in Jobs, BrokerBeat(j) PROVE Goal
  <2> DEFINE t == StartJobIfQueued(jobs, j)
  <2>1. CASE j \in beats
    <3>1. t \in Table(Jobs)
          /\ \A k \in Jobs : t[k].status
               = IF k = j /\ jobs[k].status = "queued" THEN "running" ELSE jobs[k].status
      BY <1>0, StartLemma
    <3>2. jobs' = TouchHeartbeat(t, j)
      BY <1>7, <2>1 DEF BrokerBeat
    <3> HIDE DEF t
    <3>3. jobs' \in Table(Jobs) /\ \A k \in Jobs : jobs'[k].status = t[k].status
      BY <3>1, <3>2, TouchLemma
    <3> QED BY <3>1, <3>3 DEF StatusMove
  <2>2. CASE j \notin beats
    BY <1>1, <1>7, <2>2 DEF BrokerBeat
  <2> QED BY <2>1, <2>2
<1>8. ASSUME NEW j \in Jobs, BrokerComplete(j) PROVE Goal
  <2>1. jobs' \in Table(Jobs)
        /\ \A k \in Jobs : jobs'[k].status
             = IF k = j /\ jobs[k].status \in Active THEN "done" ELSE jobs[k].status
    BY <1>8, <1>0, CompleteActiveLemma DEF BrokerComplete
  <2>2. At("complete", j)
    BY <1>8 DEF BrokerComplete
  <2> QED BY <2>1, <2>2 DEF StatusMove
<1>9. ASSUME NEW j \in Jobs, HandlerNext(j) PROVE Goal
  BY <1>1, <1>2, <1>3, <1>4, <1>5, <1>9
     DEF HandlerNext, SubmitRead, SubmitDispatch, SubmitRetry, CancelWrite, DeleteSelect, table
<1>10. ASSUME NEW j \in Jobs, BrokerWork(j) \/ BrokerSendFails(j) PROVE Goal
  BY <1>1, <1>6, <1>7, <1>8, <1>10
     DEF BrokerWork, BrokerLook, BrokerSend, BrokerSendFails, BrokerRead, BrokerJudge,
         BrokerSave, BrokerClean, table
<1>11. ASSUME NEW j \in Jobs,
              SupervisorWork(j) \/ SupervisorBudget(j) \/ SupervisorTidy(j)
                \/ SupervisorStops(j) \/ HeartbeatAges(j)
       PROVE  UNCHANGED jobs
  BY <1>11 DEF SupervisorWork, SupervisorScan, SupervisorOpen, SupervisorPoll, SupervisorFetch,
       SupervisorRemove, SupervisorReceipt, SupervisorPublish, SupervisorBudget,
       SupervisorTidy, SupervisorStops, HeartbeatAges, table
<1>12. ASSUME \/ BrokerSelect \/ BrokerGlob \/ BrokerSleep \/ BrokerAborts
              \/ SupervisorStarts \/ SupervisorDies \/ ApiDies \/ ApiStarts \/ ResultsVanish
       PROVE  UNCHANGED jobs
  BY <1>12 DEF BrokerSelect, BrokerGlob, BrokerSleep, BrokerAborts, SupervisorStarts,
       SupervisorDies, ApiDies, ApiStarts, ResultsVanish, table
<1>13. CASE Next
  BY <1>1, <1>9, <1>10, <1>11, <1>12, <1>13 DEF Next
<1>14. CASE UNCHANGED vars
  BY <1>1, <1>14 DEF vars, table
<1> QED BY <1>13, <1>14

(* Nothing brings a settled or deleted row back: a row becomes active only *)
(* when its submission commits.                                            *)
LEMMA OnlySubmitActivates ==
  ASSUME TypeOK, [Next]_vars, NEW k \in Jobs, IsActive(jobs, k)'
  PROVE  \/ IsActive(jobs, k)
         \/ submit[k] = "new"
              /\ UNCHANGED <<broker, supervisor, api, output, inbox, receipts, containers, analyses>>
<1>1. StatusMove(k)
  BY TableStep
<1> QED BY <1>1 DEF StatusMove, IsActive, Active

(* The records the broker and the launcher build.                          *)
BrokerType     == [pc : BrokerPC, todo : SUBSET Jobs, job : Jobs \cup {NoJob}]
SupervisorType == [pc : SupervisorPC, job : Jobs \cup {NoJob}, outcome : Outcomes]

(* The states the broker moves to are states of a broker.                  *)
LEMMA BrokerRecords ==
  ASSUME broker \in BrokerType
  PROVE  /\ IdleBroker \in BrokerType
         /\ \A pc \in BrokerPC : [broker EXCEPT !.pc = pc] \in BrokerType
         /\ \A pc \in BrokerPC, j \in Jobs : [broker EXCEPT !.pc = pc, !.job = j] \in BrokerType
         /\ \A pc \in BrokerPC, T \in SUBSET Jobs :
              /\ [pc |-> pc, todo |-> T, job |-> NoJob] \in BrokerType
              /\ [IdleBroker EXCEPT !.pc = pc, !.todo = T] \in BrokerType
         /\ \A j \in Jobs : broker.todo \ {j} \in SUBSET Jobs
BY DEF BrokerType, BrokerPC, IdleBroker

(* The states the supervisor moves to are states of one.                   *)
LEMMA SupervisorRecords ==
  ASSUME supervisor \in SupervisorType
  PROVE  /\ Idle \in SupervisorType
         /\ Supervisor("down", NoJob, "stopped") \in SupervisorType
         /\ \A j \in Jobs : Supervisor("open", j, "stopped") \in SupervisorType
         /\ \A pc \in SupervisorPC : [supervisor EXCEPT !.pc = pc] \in SupervisorType
         /\ \A pc \in SupervisorPC, o \in Outcomes :
              [supervisor EXCEPT !.pc = pc, !.outcome = o] \in SupervisorType
BY DEF SupervisorType, SupervisorPC, Outcomes, Idle, Supervisor

(* The types of the two records, apart from those of the other variables.  *)
LEMMA BrokerTypeStep ==
  ASSUME TypeOK, [Next]_vars
  PROVE  broker' \in BrokerType
<1>0. broker \in BrokerType
  BY DEF TypeOK, BrokerType
<1>1. {"idle", "dispatch", "send", "beat", "collect", "judge", "save", "complete", "clean"} \subseteq BrokerPC
  BY DEF BrokerPC
<1> HIDE DEF BrokerType, BrokerPC
<1>2. ASSUME NEW j \in Jobs, NEW pc \in BrokerPC, Step(pc) \/ Take(pc, j) \/ Drop(pc, j)
      PROVE  broker' \in BrokerType
  <2>1. CASE Step(pc)
    BY <1>0, <2>1, BrokerRecords DEF Step
  <2>2. CASE Take(pc, j)
    BY <1>0, <2>2, BrokerRecords DEF Take
  <2>3. CASE Drop(pc, j)
    <3> DEFINE T == broker.todo \ {j}
    <3>1. T \in SUBSET Jobs
      BY <1>0, BrokerRecords
    <3>2. broker' = [pc |-> pc, todo |-> T, job |-> NoJob]
      BY <2>3 DEF Drop
    <3> HIDE DEF T
    <3> QED BY <1>0, <3>1, <3>2, BrokerRecords
  <2> QED BY <1>2, <2>1, <2>2, <2>3
<1>3. ASSUME NEW j \in Jobs, BrokerWork(j) \/ BrokerSendFails(j) PROVE broker' \in BrokerType
  BY <1>1, <1>2, <1>3
     DEF BrokerWork, BrokerLook, BrokerSend, BrokerSendFails, BrokerBeat, BrokerRead,
         BrokerJudge, BrokerSave, BrokerComplete, BrokerClean
<1>4. CASE BrokerSelect \/ BrokerGlob
  <2>1. ActiveJobs(jobs) \in SUBSET Jobs
    BY DEF TypeOK, Table, ActiveJobs
  <2> DEFINE T == {j \in Jobs : output[j] # "none"}
  <2>2. T \in SUBSET Jobs
    OBVIOUS
  <2> HIDE DEF T
  <2>3. ASSUME NEW pc \in BrokerPC, NEW S \in SUBSET Jobs,
               broker' = [IdleBroker EXCEPT !.pc = pc, !.todo = S]
        PROVE  broker' \in BrokerType
    BY <1>0, <2>3, BrokerRecords
  <2> QED BY <1>1, <1>4, <2>1, <2>2, <2>3 DEF BrokerSelect, BrokerGlob, T
<1>5. CASE BrokerSleep \/ BrokerAborts \/ ApiDies
  BY <1>0, <1>5, BrokerRecords DEF BrokerSleep, BrokerAborts, ApiDies
<1>6. CASE UNCHANGED broker
  BY <1>0, <1>6
<1>7. ASSUME NEW j \in Jobs, HandlerNext(j) PROVE UNCHANGED broker
  BY <1>7 DEF HandlerNext, SubmitCommit, SubmitRead, SubmitDispatch, SubmitRetry, CancelCommit,
     CancelWrite, DeleteSelect, DeleteCancel, DeleteCommit
<1>8. ASSUME NEW j \in Jobs,
             SupervisorWork(j) \/ SupervisorBudget(j) \/ SupervisorTidy(j)
                \/ SupervisorStops(j) \/ HeartbeatAges(j)
      PROVE  UNCHANGED broker
  BY <1>8 DEF SupervisorWork, SupervisorScan, SupervisorOpen, SupervisorPoll, SupervisorFetch,
       SupervisorRemove, SupervisorReceipt, SupervisorPublish, SupervisorBudget,
       SupervisorTidy, SupervisorStops, HeartbeatAges
<1>9. ASSUME SupervisorStarts \/ SupervisorDies \/ ApiStarts \/ ResultsVanish
      PROVE  UNCHANGED broker
  BY <1>9 DEF SupervisorStarts, SupervisorDies, ApiStarts, ResultsVanish
<1>10. CASE UNCHANGED vars
  BY <1>6, <1>10 DEF vars
<1> QED BY <1>3, <1>4, <1>5, <1>6, <1>7, <1>8, <1>9, <1>10 DEF Next

(* Every step leaves the supervisor in one of its states.                  *)
LEMMA SupervisorTypeStep ==
  ASSUME TypeOK, [Next]_vars
  PROVE  supervisor' \in SupervisorType
<1>0. supervisor \in SupervisorType
  BY DEF TypeOK, SupervisorType
<1>1. /\ {"down", "idle", "open", "run", "beat", "remove", "receipt", "publish"} \subseteq SupervisorPC
      /\ "stopped" \in Outcomes
  BY DEF SupervisorPC, Outcomes
<1> HIDE DEF SupervisorType, SupervisorPC
<1>2. ASSUME NEW pc \in SupervisorPC, NEW o \in Outcomes, Continue(pc) \/ End(pc, o)
      PROVE  supervisor' \in SupervisorType
  <2>1. CASE Continue(pc)
    BY <1>0, <2>1, SupervisorRecords DEF Continue
  <2>2. CASE End(pc, o)
    BY <1>0, <2>2, SupervisorRecords DEF End
  <2> QED BY <1>2, <2>1, <2>2
<1>3. ASSUME NEW j \in Jobs,
             SupervisorWork(j) \/ SupervisorBudget(j) \/ SupervisorTidy(j)
                \/ SupervisorStops(j) \/ HeartbeatAges(j)
      PROVE  supervisor' \in SupervisorType
  <2>1. CASE SupervisorScan(j) \/ SupervisorPublish(j) \/ SupervisorStops(j)
    BY <1>0, <2>1, SupervisorRecords DEF SupervisorScan, SupervisorPublish, SupervisorStops
  <2>2. CASE SupervisorRemove(j)
    BY <1>1, <1>2, <2>2 DEF SupervisorRemove
  <2> QED BY <1>0, <1>1, <1>2, <1>3, <2>1, <2>2
       DEF SupervisorWork, SupervisorOpen, SupervisorPoll, SupervisorFetch, SupervisorReceipt,
           SupervisorBudget, SupervisorTidy, HeartbeatAges
<1>4. ASSUME NEW j \in Jobs, HandlerNext(j) PROVE UNCHANGED supervisor
  BY <1>4 DEF HandlerNext, SubmitCommit, SubmitRead, SubmitDispatch, SubmitRetry, CancelCommit,
     CancelWrite, DeleteSelect, DeleteCancel, DeleteCommit
<1>5. ASSUME NEW j \in Jobs, BrokerWork(j) \/ BrokerSendFails(j) PROVE UNCHANGED supervisor
  BY <1>5 DEF BrokerWork, BrokerLook, BrokerSend, BrokerSendFails, BrokerBeat, BrokerRead,
     BrokerJudge, BrokerSave, BrokerComplete, BrokerClean
<1>6. ASSUME \/ BrokerSelect \/ BrokerGlob \/ BrokerSleep \/ BrokerAborts
             \/ SupervisorStarts \/ SupervisorDies \/ ApiDies \/ ApiStarts \/ ResultsVanish
      PROVE  supervisor' \in SupervisorType
  BY <1>0, <1>6, SupervisorRecords
     DEF BrokerSelect, BrokerGlob, BrokerSleep, BrokerAborts, SupervisorStarts,
         SupervisorDies, ApiDies, ApiStarts, ResultsVanish
<1>7. CASE UNCHANGED vars
  BY <1>0, <1>7 DEF vars
<1> QED BY <1>0, <1>3, <1>4, <1>5, <1>6, <1>7 DEF Next

(* Type correctness.                                                       *)
LEMMA TypeStep ==
  ASSUME TypeOK, [Next]_vars
  PROVE  TypeOK'
<1>0. /\ jobs' \in Table(Jobs)
      /\ broker' \in [pc : BrokerPC, todo : SUBSET Jobs, job : Jobs \cup {NoJob}]
      /\ supervisor' \in [pc : SupervisorPC, job : Jobs \cup {NoJob}, outcome : Outcomes]
  BY TableStep, BrokerTypeStep, SupervisorTypeStep DEF BrokerType, SupervisorType
<1>1. ASSUME NEW j \in Jobs, HandlerNext(j) PROVE TypeOK'
  BY <1>0, <1>1
     DEF TypeOK, HandlerNext, SubmitCommit, SubmitRead, SubmitDispatch, SubmitRetry, CancelCommit,
         CancelWrite, DeleteSelect, DeleteCancel, DeleteCommit, Dispatch, AddFiles,
         table, results, handlers
<1>2. ASSUME NEW j \in Jobs, BrokerWork(j) \/ BrokerSendFails(j) PROVE TypeOK'
  BY <1>0, <1>2
     DEF TypeOK, BrokerWork, BrokerLook, BrokerSend, BrokerSendFails, BrokerBeat, BrokerRead,
         BrokerJudge, BrokerSave, BrokerComplete, BrokerClean,
         Dispatch, AddFiles, RemoveFolder, table, results, handlers
<1>3. ASSUME NEW j \in Jobs, SupervisorWork(j) PROVE TypeOK'
  <2>1. SupervisorPublish(j) => supervisor.outcome \in Outcomes
    BY DEF TypeOK
  <2> QED BY <1>0, <1>3, <2>1
     DEF TypeOK, SupervisorWork, SupervisorScan, SupervisorOpen, SupervisorPoll, SupervisorFetch,
         SupervisorRemove, SupervisorReceipt, SupervisorPublish, table, results, handlers
<1>4. ASSUME NEW j \in Jobs,
             SupervisorBudget(j) \/ SupervisorTidy(j) \/ SupervisorStops(j) \/ HeartbeatAges(j)
      PROVE  TypeOK'
  BY <1>0, <1>4
     DEF TypeOK, SupervisorBudget, SupervisorTidy, SupervisorStops, HeartbeatAges,
         table, results, handlers
<1>5. ASSUME \/ BrokerSelect \/ BrokerGlob \/ BrokerSleep \/ BrokerAborts
             \/ SupervisorStarts \/ SupervisorDies \/ ApiDies \/ ApiStarts \/ ResultsVanish
      PROVE  TypeOK'
  BY <1>0, <1>5
     DEF TypeOK, BrokerSelect, BrokerGlob, BrokerSleep, BrokerAborts, SupervisorStarts,
         SupervisorDies, ApiDies, ApiStarts, ResultsVanish, table, results, handlers
<1>6. CASE UNCHANGED vars
  BY <1>6 DEF TypeOK, vars, table, results, handlers
<1> QED BY <1>1, <1>2, <1>3, <1>4, <1>5, <1>6 DEF Next

(* The fields of the records the launcher builds.                          *)
LEMMA SupervisorFields ==
  ASSUME TypeOK
  PROVE  /\ \A pc : Continue(pc) => /\ supervisor'.pc = pc
                                    /\ supervisor'.job = supervisor.job
                                    /\ supervisor'.outcome = supervisor.outcome
         /\ \A pc, o : End(pc, o) => /\ supervisor'.pc = pc
                                     /\ supervisor'.job = supervisor.job
                                     /\ supervisor'.outcome = o
         /\ \A pc, j, o : /\ Supervisor(pc, j, o).pc = pc
                          /\ Supervisor(pc, j, o).job = j
                          /\ Supervisor(pc, j, o).outcome = o
         /\ Idle.pc = "idle" /\ Idle.job = NoJob
BY DEF TypeOK, Continue, End, Supervisor, Idle

(* The launcher publishes only what it has not published yet.             *)
LEMMA RunHasNoResultStep ==
  ASSUME TypeOK, RunHasNoResult, [Next]_vars
  PROVE  RunHasNoResult'
<1>1. ASSUME NEW j \in Jobs, HandlerNext(j) PROVE RunHasNoResult'
  BY <1>1
     DEF RunHasNoResult, RunPC, TypeOK, table, results, Doing,
         HandlerNext, SubmitCommit, SubmitRead, SubmitDispatch, SubmitRetry, CancelCommit,
         CancelWrite, DeleteSelect, DeleteCancel, DeleteCommit
<1>2. ASSUME NEW j \in Jobs, BrokerWork(j) \/ BrokerSendFails(j) PROVE RunHasNoResult'
  BY <1>2
     DEF RunHasNoResult, RunPC, TypeOK, table, results, Doing,
         BrokerWork, BrokerLook, BrokerSend, BrokerSendFails, BrokerBeat, BrokerRead,
         BrokerJudge, BrokerSave, BrokerComplete, BrokerClean
<1>3. ASSUME NEW j \in Jobs, SupervisorWork(j) PROVE RunHasNoResult'
  BY <1>3, SupervisorFields
     DEF RunHasNoResult, RunPC, TypeOK, table, results, Doing,
         SupervisorWork, SupervisorScan, SupervisorOpen, SupervisorPoll, SupervisorFetch,
         SupervisorRemove, SupervisorReceipt, SupervisorPublish
<1>4. ASSUME NEW j \in Jobs,
             SupervisorBudget(j) \/ SupervisorTidy(j) \/ SupervisorStops(j) \/ HeartbeatAges(j)
      PROVE  RunHasNoResult'
  BY <1>4, SupervisorFields
     DEF RunHasNoResult, RunPC, TypeOK, table, results, Doing,
         SupervisorBudget, SupervisorTidy, SupervisorStops, HeartbeatAges
<1>5. ASSUME \/ BrokerSelect \/ BrokerGlob \/ BrokerSleep \/ BrokerAborts
             \/ SupervisorStarts \/ SupervisorDies \/ ApiDies \/ ApiStarts \/ ResultsVanish
      PROVE  RunHasNoResult'
  BY <1>5, SupervisorFields
     DEF RunHasNoResult, RunPC, TypeOK, table, results, Doing,
         BrokerSelect, BrokerGlob, BrokerSleep, BrokerAborts, SupervisorStarts,
         SupervisorDies, ApiDies, ApiStarts, ResultsVanish
<1>6. CASE UNCHANGED vars
  BY <1>6 DEF vars, RunHasNoResult, RunPC, TypeOK, table, results, Doing
<1> QED BY <1>1, <1>2, <1>3, <1>4, <1>5, <1>6 DEF Next

(* One container at a time, and none when the launcher is between runs.   *)
LEMMA OneContainerStep ==
  ASSUME TypeOK, OneContainer, [Next]_vars
  PROVE  OneContainer'
<1>1. ASSUME NEW j \in Jobs, HandlerNext(j) PROVE OneContainer'
  BY <1>1
     DEF OneContainer, TypeOK, table, results, Doing,
         HandlerNext, SubmitCommit, SubmitRead, SubmitDispatch, SubmitRetry, CancelCommit,
         CancelWrite, DeleteSelect, DeleteCancel, DeleteCommit
<1>2. ASSUME NEW j \in Jobs, BrokerWork(j) \/ BrokerSendFails(j) PROVE OneContainer'
  BY <1>2
     DEF OneContainer, TypeOK, table, results, Doing,
         BrokerWork, BrokerLook, BrokerSend, BrokerSendFails, BrokerBeat, BrokerRead,
         BrokerJudge, BrokerSave, BrokerComplete, BrokerClean
<1>3. ASSUME NEW j \in Jobs, SupervisorWork(j) PROVE OneContainer'
  BY <1>3, SupervisorFields
     DEF OneContainer, TypeOK, table, results, Doing,
         SupervisorWork, SupervisorScan, SupervisorOpen, SupervisorPoll, SupervisorFetch,
         SupervisorRemove, SupervisorReceipt, SupervisorPublish
<1>4. ASSUME NEW j \in Jobs,
             SupervisorBudget(j) \/ SupervisorTidy(j) \/ SupervisorStops(j) \/ HeartbeatAges(j)
      PROVE  OneContainer'
  BY <1>4, SupervisorFields
     DEF OneContainer, TypeOK, table, results, Doing,
         SupervisorBudget, SupervisorTidy, SupervisorStops, HeartbeatAges
<1>5. ASSUME \/ BrokerSelect \/ BrokerGlob \/ BrokerSleep \/ BrokerAborts
             \/ SupervisorStarts \/ SupervisorDies \/ ApiDies \/ ApiStarts \/ ResultsVanish
      PROVE  OneContainer'
  BY <1>5, SupervisorFields
     DEF OneContainer, TypeOK, table, results, Doing,
         BrokerSelect, BrokerGlob, BrokerSleep, BrokerAborts, SupervisorStarts,
         SupervisorDies, ApiDies, ApiStarts, ResultsVanish
<1>6. CASE UNCHANGED vars
  BY <1>6 DEF vars, OneContainer, TypeOK, table, results, Doing
<1> QED BY <1>1, <1>2, <1>3, <1>4, <1>5, <1>6 DEF Next

(* A parser's result has its receipt before it is published.              *)
LEMMA ReceiptBeforeResultStep ==
  ASSUME TypeOK, ReceiptBeforeResult, [Next]_vars
  PROVE  ReceiptBeforeResult'
<1>1. ASSUME NEW j \in Jobs, HandlerNext(j) PROVE ReceiptBeforeResult'
  BY <1>1
     DEF ReceiptBeforeResult, TypeOK, table, results, Doing,
         HandlerNext, SubmitCommit, SubmitRead, SubmitDispatch, SubmitRetry, CancelCommit,
         CancelWrite, DeleteSelect, DeleteCancel, DeleteCommit
<1>2. ASSUME NEW j \in Jobs, BrokerWork(j) \/ BrokerSendFails(j) PROVE ReceiptBeforeResult'
  BY <1>2
     DEF ReceiptBeforeResult, TypeOK, table, results, Doing,
         BrokerWork, BrokerLook, BrokerSend, BrokerSendFails, BrokerBeat, BrokerRead,
         BrokerJudge, BrokerSave, BrokerComplete, BrokerClean
<1>3. ASSUME NEW j \in Jobs, SupervisorWork(j) PROVE ReceiptBeforeResult'
  BY <1>3, SupervisorFields
     DEF ReceiptBeforeResult, TypeOK, table, results, Doing,
         SupervisorWork, SupervisorScan, SupervisorOpen, SupervisorPoll, SupervisorFetch,
         SupervisorRemove, SupervisorReceipt, SupervisorPublish
<1>4. ASSUME NEW j \in Jobs,
             SupervisorBudget(j) \/ SupervisorTidy(j) \/ SupervisorStops(j) \/ HeartbeatAges(j)
      PROVE  ReceiptBeforeResult'
  BY <1>4, SupervisorFields
     DEF ReceiptBeforeResult, TypeOK, table, results, Doing,
         SupervisorBudget, SupervisorTidy, SupervisorStops, HeartbeatAges
<1>5. ASSUME \/ BrokerSelect \/ BrokerGlob \/ BrokerSleep \/ BrokerAborts
             \/ SupervisorStarts \/ SupervisorDies \/ ApiDies \/ ApiStarts \/ ResultsVanish
      PROVE  ReceiptBeforeResult'
  BY <1>5, SupervisorFields
     DEF ReceiptBeforeResult, TypeOK, table, results, Doing,
         BrokerSelect, BrokerGlob, BrokerSleep, BrokerAborts, SupervisorStarts,
         SupervisorDies, ApiDies, ApiStarts, ResultsVanish
<1>6. CASE UNCHANGED vars
  BY <1>6 DEF vars, ReceiptBeforeResult, TypeOK, table, results, Doing
<1> QED BY <1>1, <1>2, <1>3, <1>4, <1>5, <1>6 DEF Next

(* The broker is a thread of the API process.                             *)
LEMMA BrokerNeedsApiStep ==
  ASSUME TypeOK, BrokerNeedsApi, [Next]_vars
  PROVE  BrokerNeedsApi'
<1>1. ASSUME NEW j \in Jobs, HandlerNext(j) PROVE BrokerNeedsApi'
  BY <1>1
     DEF BrokerNeedsApi, TypeOK, IdleBroker, Step, Take, Drop, At,
         HandlerNext, SubmitCommit, SubmitRead, SubmitDispatch, SubmitRetry, CancelCommit,
         CancelWrite, DeleteSelect, DeleteCancel, DeleteCommit
<1>2. ASSUME NEW j \in Jobs, BrokerWork(j) \/ BrokerSendFails(j) PROVE BrokerNeedsApi'
  BY <1>2
     DEF BrokerNeedsApi, TypeOK, IdleBroker, Step, Take, Drop, At,
         BrokerWork, BrokerLook, BrokerSend, BrokerSendFails, BrokerBeat, BrokerRead,
         BrokerJudge, BrokerSave, BrokerComplete, BrokerClean
<1>3. ASSUME NEW j \in Jobs, SupervisorWork(j) PROVE BrokerNeedsApi'
  BY <1>3
     DEF BrokerNeedsApi, TypeOK, IdleBroker, Step, Take, Drop, At,
         SupervisorWork, SupervisorScan, SupervisorOpen, SupervisorPoll, SupervisorFetch,
         SupervisorRemove, SupervisorReceipt, SupervisorPublish
<1>4. ASSUME NEW j \in Jobs,
             SupervisorBudget(j) \/ SupervisorTidy(j) \/ SupervisorStops(j) \/ HeartbeatAges(j)
      PROVE  BrokerNeedsApi'
  BY <1>4
     DEF BrokerNeedsApi, TypeOK, IdleBroker, Step, Take, Drop, At,
         SupervisorBudget, SupervisorTidy, SupervisorStops, HeartbeatAges
<1>5. ASSUME \/ BrokerSelect \/ BrokerGlob \/ BrokerSleep \/ BrokerAborts
             \/ SupervisorStarts \/ SupervisorDies \/ ApiDies \/ ApiStarts \/ ResultsVanish
      PROVE  BrokerNeedsApi'
  BY <1>5
     DEF BrokerNeedsApi, TypeOK, IdleBroker, Step, Take, Drop, At,
         BrokerSelect, BrokerGlob, BrokerSleep, BrokerAborts, SupervisorStarts,
         SupervisorDies, ApiDies, ApiStarts, ResultsVanish
<1>6. CASE UNCHANGED vars
  BY <1>6 DEF vars, BrokerNeedsApi, TypeOK, IdleBroker, Step, Take, Drop, At
<1> QED BY <1>1, <1>2, <1>3, <1>4, <1>5, <1>6 DEF Next

(* Results appear when there is no container at all.                      *)
LEMMA ParserGoneBeforeResultStep ==
  ASSUME TypeOK, RunHasNoResult, OneContainer, ParserGoneBeforeResult, [Next]_vars
  PROVE  ParserGoneBeforeResult'
<1>1. ASSUME NEW j \in Jobs, HandlerNext(j) PROVE ParserGoneBeforeResult'
  BY <1>1
     DEF ParserGoneBeforeResult, RunHasNoResult, OneContainer, RunPC, TypeOK, table, results, Doing,
         HandlerNext, SubmitCommit, SubmitRead, SubmitDispatch, SubmitRetry, CancelCommit,
         CancelWrite, DeleteSelect, DeleteCancel, DeleteCommit
<1>2. ASSUME NEW j \in Jobs, BrokerWork(j) \/ BrokerSendFails(j) PROVE ParserGoneBeforeResult'
  BY <1>2
     DEF ParserGoneBeforeResult, RunHasNoResult, OneContainer, RunPC, TypeOK, table, results, Doing,
         BrokerWork, BrokerLook, BrokerSend, BrokerSendFails, BrokerBeat, BrokerRead,
         BrokerJudge, BrokerSave, BrokerComplete, BrokerClean
<1>3. ASSUME NEW j \in Jobs, SupervisorWork(j) PROVE ParserGoneBeforeResult'
  BY <1>3, SupervisorFields
     DEF ParserGoneBeforeResult, RunHasNoResult, OneContainer, RunPC, TypeOK, table, results, Doing,
         SupervisorWork, SupervisorScan, SupervisorOpen, SupervisorPoll, SupervisorFetch,
         SupervisorRemove, SupervisorReceipt, SupervisorPublish
<1>4. ASSUME NEW j \in Jobs,
             SupervisorBudget(j) \/ SupervisorTidy(j) \/ SupervisorStops(j) \/ HeartbeatAges(j)
      PROVE  ParserGoneBeforeResult'
  BY <1>4, SupervisorFields
     DEF ParserGoneBeforeResult, RunHasNoResult, OneContainer, RunPC, TypeOK, table, results, Doing,
         SupervisorBudget, SupervisorTidy, SupervisorStops, HeartbeatAges
<1>5. ASSUME \/ BrokerSelect \/ BrokerGlob \/ BrokerSleep \/ BrokerAborts
             \/ SupervisorStarts \/ SupervisorDies \/ ApiDies \/ ApiStarts \/ ResultsVanish
      PROVE  ParserGoneBeforeResult'
  BY <1>5, SupervisorFields
     DEF ParserGoneBeforeResult, RunHasNoResult, OneContainer, RunPC, TypeOK, table, results, Doing,
         BrokerSelect, BrokerGlob, BrokerSleep, BrokerAborts, SupervisorStarts,
         SupervisorDies, ApiDies, ApiStarts, ResultsVanish
<1>6. CASE UNCHANGED vars
  BY <1>6 DEF vars, ParserGoneBeforeResult, RunHasNoResult, OneContainer, RunPC, TypeOK, table, results, Doing
<1> QED BY <1>1, <1>2, <1>3, <1>4, <1>5, <1>6 DEF Next

(* The fields of the records the broker builds.                            *)
LEMMA BrokerFields ==
  ASSUME TypeOK
  PROVE  /\ \A pc : Step(pc) => /\ broker'.pc = pc
                                /\ broker'.job = broker.job
                                /\ broker'.todo = broker.todo
         /\ \A pc, j : Take(pc, j) => /\ broker'.pc = pc
                                      /\ broker'.job = j
                                      /\ broker'.todo = broker.todo
         /\ \A pc, j : Drop(pc, j) => /\ broker'.pc = pc
                                      /\ broker'.job = NoJob
                                      /\ broker'.todo = broker.todo \ {j}
         /\ IdleBroker.pc = "idle" /\ IdleBroker.job = NoJob /\ IdleBroker.todo = {}
         /\ \A pc, T : /\ [IdleBroker EXCEPT !.pc = pc, !.todo = T].pc = pc
                       /\ [IdleBroker EXCEPT !.pc = pc, !.todo = T].job = NoJob
                       /\ [IdleBroker EXCEPT !.pc = pc, !.todo = T].todo = T
<1>1. broker \in [pc : BrokerPC, todo : SUBSET Jobs, job : Jobs \cup {NoJob}]
  BY DEF TypeOK
<1>2. ASSUME NEW pc, Step(pc)
      PROVE  broker'.pc = pc /\ broker'.job = broker.job /\ broker'.todo = broker.todo
  BY <1>1, <1>2 DEF Step
<1>3. ASSUME NEW pc, NEW j, Take(pc, j)
      PROVE  broker'.pc = pc /\ broker'.job = j /\ broker'.todo = broker.todo
  BY <1>1, <1>3 DEF Take
<1>4. ASSUME NEW pc, NEW j, Drop(pc, j)
      PROVE  broker'.pc = pc /\ broker'.job = NoJob /\ broker'.todo = broker.todo \ {j}
  BY <1>4 DEF Drop
<1>5. ASSUME NEW pc, NEW T
      PROVE  /\ [IdleBroker EXCEPT !.pc = pc, !.todo = T].pc = pc
             /\ [IdleBroker EXCEPT !.pc = pc, !.todo = T].job = NoJob
             /\ [IdleBroker EXCEPT !.pc = pc, !.todo = T].todo = T
  BY DEF IdleBroker
<1>6. IdleBroker.pc = "idle" /\ IdleBroker.job = NoJob /\ IdleBroker.todo = {}
  BY DEF IdleBroker
<1> QED BY <1>2, <1>3, <1>4, <1>5, <1>6

(* A row that is active after a step and known to anyone was active before *)
(* it.                                                                     *)
LEMMA StaysActive ==
  ASSUME TypeOK, UnsubmittedLeavesNoTrace, [Next]_vars, NEW k \in Jobs, IsActive(jobs, k)',
         \/ output'[k] # "none" \/ broker'.job = k \/ k \in broker'.todo \/ supervisor'.job = k
  PROVE  IsActive(jobs, k)
BY OnlySubmitActivates DEF UnsubmittedLeavesNoTrace

(* The folder goes only when the job has settled.                          *)
LEMMA FolderKeptStep ==
  ASSUME TypeOK, UnsubmittedLeavesNoTrace, CollectedInOrder, FolderKept, [Next]_vars
  PROVE  FolderKept'
<1> SUFFICES ASSUME NEW k \in Jobs, IsActive(jobs, k)',
                    output'[k] # "none" \/ supervisor'.job = k
             PROVE  inbox'[k] # {}
  BY DEF FolderKept
<1>0. IsActive(jobs, k) /\ k # NoJob /\ inbox \in [Jobs -> SUBSET {"folder", "request", "cancel"}]
  BY StaysActive, SpoolAssumption DEF SpoolAssumption, TypeOK
<1>1. ASSUME NEW j \in Jobs, HandlerNext(j) PROVE inbox'[k] # {}
  BY <1>0, <1>1
     DEF FolderKept, CollectedInOrder, TypeOK, IsActive, Active, At, Doing,
         Dispatch, AddFiles, RemoveFolder, table, results,
         HandlerNext, SubmitCommit, SubmitRead, SubmitDispatch, SubmitRetry, CancelCommit,
         CancelWrite, DeleteSelect, DeleteCancel, DeleteCommit
<1>2. ASSUME NEW j \in Jobs, BrokerWork(j) \/ BrokerSendFails(j) PROVE inbox'[k] # {}
  BY <1>0, <1>2, BrokerFields
     DEF FolderKept, CollectedInOrder, TypeOK, IsActive, Active, At, Doing,
         Dispatch, AddFiles, RemoveFolder, table, results,
         BrokerWork, BrokerLook, BrokerSend, BrokerSendFails, BrokerBeat, BrokerRead,
         BrokerJudge, BrokerSave, BrokerComplete, BrokerClean
<1>3. ASSUME NEW j \in Jobs, SupervisorWork(j) PROVE inbox'[k] # {}
  BY <1>0, <1>3, SupervisorFields
     DEF FolderKept, CollectedInOrder, TypeOK, IsActive, Active, At, Doing,
         Dispatch, AddFiles, RemoveFolder, table, results,
         SupervisorWork, SupervisorScan, SupervisorOpen, SupervisorPoll, SupervisorFetch,
         SupervisorRemove, SupervisorReceipt, SupervisorPublish
<1>4. ASSUME NEW j \in Jobs,
             SupervisorBudget(j) \/ SupervisorTidy(j) \/ SupervisorStops(j) \/ HeartbeatAges(j)
      PROVE  inbox'[k] # {}
  BY <1>0, <1>4, SupervisorFields
     DEF FolderKept, CollectedInOrder, TypeOK, IsActive, Active, At, Doing,
         Dispatch, AddFiles, RemoveFolder, table, results,
         SupervisorBudget, SupervisorTidy, SupervisorStops, HeartbeatAges
<1>5. ASSUME \/ BrokerSelect \/ BrokerGlob \/ BrokerSleep \/ BrokerAborts
             \/ SupervisorStarts \/ SupervisorDies \/ ApiDies \/ ApiStarts \/ ResultsVanish
      PROVE  inbox'[k] # {}
  BY <1>0, <1>5, BrokerFields, SupervisorFields
     DEF FolderKept, CollectedInOrder, TypeOK, IsActive, Active, At, Doing,
         Dispatch, AddFiles, RemoveFolder, table, results,
         BrokerSelect, BrokerGlob, BrokerSleep, BrokerAborts, SupervisorStarts,
         SupervisorDies, ApiDies, ApiStarts, ResultsVanish
<1>6. CASE UNCHANGED vars
  BY <1>0, <1>6 DEF vars, FolderKept, CollectedInOrder, TypeOK, IsActive, Active, At, Doing,
         Dispatch, AddFiles, RemoveFolder, table, results
<1> QED BY <1>1, <1>2, <1>3, <1>4, <1>5, <1>6 DEF Next

(* Receipts are there before results and go after them.                    *)
LEMMA ReceiptReadyStep ==
  ASSUME TypeOK, UnsubmittedLeavesNoTrace, FolderKept, ReceiptBeforeResult, ReceiptReady, [Next]_vars
  PROVE  ReceiptReady'
<1> SUFFICES ASSUME NEW k \in Jobs, IsActive(jobs, k)', output'[k] \in {"parsed", "refused"}
             PROVE  k \in receipts'
  BY DEF ReceiptReady
<1>0. IsActive(jobs, k)
  BY StaysActive
<1>1. ASSUME NEW j \in Jobs, HandlerNext(j) PROVE k \in receipts'
  BY <1>0, <1>1
     DEF FolderKept, ReceiptReady, ReceiptBeforeResult, TypeOK, Doing, table, results,
         HandlerNext, SubmitCommit, SubmitRead, SubmitDispatch, SubmitRetry, CancelCommit,
         CancelWrite, DeleteSelect, DeleteCancel, DeleteCommit
<1>2. ASSUME NEW j \in Jobs, BrokerWork(j) \/ BrokerSendFails(j) PROVE k \in receipts'
  BY <1>0, <1>2, BrokerFields
     DEF FolderKept, ReceiptReady, ReceiptBeforeResult, TypeOK, Doing, table, results,
         BrokerWork, BrokerLook, BrokerSend, BrokerSendFails, BrokerBeat, BrokerRead,
         BrokerJudge, BrokerSave, BrokerComplete, BrokerClean
<1>3. ASSUME NEW j \in Jobs, SupervisorWork(j) PROVE k \in receipts'
  BY <1>0, <1>3, SupervisorFields
     DEF FolderKept, ReceiptReady, ReceiptBeforeResult, TypeOK, Doing, table, results,
         SupervisorWork, SupervisorScan, SupervisorOpen, SupervisorPoll, SupervisorFetch,
         SupervisorRemove, SupervisorReceipt, SupervisorPublish
<1>4. ASSUME NEW j \in Jobs,
             SupervisorBudget(j) \/ SupervisorTidy(j) \/ SupervisorStops(j) \/ HeartbeatAges(j)
      PROVE  k \in receipts'
  BY <1>0, <1>4, SupervisorFields
     DEF FolderKept, ReceiptReady, ReceiptBeforeResult, TypeOK, Doing, table, results,
         SupervisorBudget, SupervisorTidy, SupervisorStops, HeartbeatAges
<1>5. ASSUME \/ BrokerSelect \/ BrokerGlob \/ BrokerSleep \/ BrokerAborts
             \/ SupervisorStarts \/ SupervisorDies \/ ApiDies \/ ApiStarts \/ ResultsVanish
      PROVE  k \in receipts'
  BY <1>0, <1>5, BrokerFields, SupervisorFields
     DEF FolderKept, ReceiptReady, ReceiptBeforeResult, TypeOK, Doing, table, results,
         BrokerSelect, BrokerGlob, BrokerSleep, BrokerAborts, SupervisorStarts,
         SupervisorDies, ApiDies, ApiStarts, ResultsVanish
<1>6. CASE UNCHANGED vars
  BY <1>0, <1>6 DEF vars, FolderKept, ReceiptReady, ReceiptBeforeResult, TypeOK, Doing, table, results
<1> QED BY <1>1, <1>2, <1>3, <1>4, <1>5, <1>6 DEF Next

(* What the broker collects keeps its result.                              *)
LEMMA CollectedHasResultStep ==
  ASSUME TypeOK, UnsubmittedLeavesNoTrace, FolderKept, BrokerNeedsApi, CollectedHasResult, [Next]_vars
  PROVE  CollectedHasResult'
<1> SUFFICES ASSUME NEW k \in Jobs, IsActive(jobs, k)', broker'.pc \in CollectPC,
                    k \in broker'.todo \/ broker'.job = k
             PROVE  output'[k] # "none"
  BY DEF CollectedHasResult
<1>0. IsActive(jobs, k) /\ k # NoJob
  BY StaysActive, SpoolAssumption DEF SpoolAssumption
<1>1. ASSUME NEW j \in Jobs, HandlerNext(j) PROVE output'[k] # "none"
  BY <1>0, <1>1
     DEF FolderKept, BrokerNeedsApi, CollectedHasResult, CollectPC, TypeOK, At, Doing, Outcomes,
         table, results,
         HandlerNext, SubmitCommit, SubmitRead, SubmitDispatch, SubmitRetry, CancelCommit,
         CancelWrite, DeleteSelect, DeleteCancel, DeleteCommit
<1>2. ASSUME NEW j \in Jobs, BrokerWork(j) \/ BrokerSendFails(j) PROVE output'[k] # "none"
  BY <1>0, <1>2, BrokerFields
     DEF FolderKept, BrokerNeedsApi, CollectedHasResult, CollectPC, TypeOK, At, Doing, Outcomes,
         table, results,
         BrokerWork, BrokerLook, BrokerSend, BrokerSendFails, BrokerBeat, BrokerRead,
         BrokerJudge, BrokerSave, BrokerComplete, BrokerClean
<1>3. ASSUME NEW j \in Jobs, SupervisorWork(j) PROVE output'[k] # "none"
  BY <1>0, <1>3, SupervisorFields
     DEF FolderKept, BrokerNeedsApi, CollectedHasResult, CollectPC, TypeOK, At, Doing, Outcomes,
         table, results,
         SupervisorWork, SupervisorScan, SupervisorOpen, SupervisorPoll, SupervisorFetch,
         SupervisorRemove, SupervisorReceipt, SupervisorPublish
<1>4. ASSUME NEW j \in Jobs,
             SupervisorBudget(j) \/ SupervisorTidy(j) \/ SupervisorStops(j) \/ HeartbeatAges(j)
      PROVE  output'[k] # "none"
  BY <1>0, <1>4, SupervisorFields
     DEF FolderKept, BrokerNeedsApi, CollectedHasResult, CollectPC, TypeOK, At, Doing, Outcomes,
         table, results,
         SupervisorBudget, SupervisorTidy, SupervisorStops, HeartbeatAges
<1>5. CASE BrokerSelect
  BY <1>5, BrokerFields DEF BrokerSelect, CollectPC
<1>6. CASE BrokerGlob
  <2> DEFINE T == {j \in Jobs : output[j] # "none"}
  <2>1. broker'.todo = T /\ broker'.job = NoJob /\ output' = output
    BY <1>6, BrokerFields DEF BrokerGlob, results
  <2> QED BY <1>0, <2>1
<1>7. CASE BrokerSleep \/ BrokerAborts \/ ApiDies
  BY <1>7, BrokerFields DEF BrokerSleep, BrokerAborts, ApiDies, CollectPC
<1>8. CASE SupervisorStarts \/ SupervisorDies \/ ApiStarts
  BY <1>0, <1>8 DEF SupervisorStarts, SupervisorDies, ApiStarts, CollectedHasResult, results
<1>9. CASE ResultsVanish
  BY <1>9 DEF ResultsVanish, BrokerNeedsApi, CollectPC
<1>10. CASE UNCHANGED vars
  BY <1>0, <1>10 DEF vars, CollectedHasResult, results
<1> QED BY <1>1, <1>2, <1>3, <1>4, <1>5, <1>6, <1>7, <1>8, <1>9, <1>10 DEF Next

(* Saved, then completed, then cleaned.                                    *)
LEMMA CollectedInOrderStep ==
  ASSUME TypeOK, UnsubmittedLeavesNoTrace, CollectedInOrder, [Next]_vars
  PROVE  CollectedInOrder'
<1> SUFFICES ASSUME NEW k \in Jobs, IsActive(jobs, k)', broker'.job = k
             PROVE  (broker'.pc = "complete" => k \in analyses') /\ broker'.pc # "clean"
  BY DEF CollectedInOrder, At
<1> DEFINE Goal == (broker'.pc = "complete" => k \in analyses') /\ broker'.pc # "clean"
<1>0. /\ IsActive(jobs, k) /\ k # NoJob
      /\ \A j \in Jobs : \/ jobs' = FailActiveJob(jobs, j)
                       \/ jobs' = CompleteActiveJob(jobs, j)
                       \/ jobs' = DeleteJobs(jobs, {j}) => k # j
  <2>1. jobs \in Table(Jobs) /\ "failed" \notin Active /\ "done" \notin Active /\ "absent" \notin Active
    BY DEF TypeOK, Active
  <2>2. ASSUME NEW j \in Jobs, jobs' = FailActiveJob(jobs, j) PROVE k # j
    <3>1. jobs'[j].status = IF jobs[j].status \in Active THEN "failed" ELSE jobs[j].status
      BY <2>1, <2>2, FailActiveLemma
    <3> QED BY <2>1, <3>1 DEF IsActive
  <2>3. ASSUME NEW j \in Jobs, jobs' = CompleteActiveJob(jobs, j) PROVE k # j
    <3>1. jobs'[j].status = IF jobs[j].status \in Active THEN "done" ELSE jobs[j].status
      BY <2>1, <2>3, CompleteActiveLemma
    <3> QED BY <2>1, <3>1 DEF IsActive
  <2>4. ASSUME NEW j \in Jobs, jobs' = DeleteJobs(jobs, {j}) PROVE k # j
    <3>1. jobs'[j].status = "absent"
      BY <2>1, <2>4, DeleteLemma
    <3> QED BY <2>1, <3>1 DEF IsActive
  <2> QED BY <2>2, <2>3, <2>4, StaysActive, SpoolAssumption DEF SpoolAssumption
<1>1. ASSUME NEW j \in Jobs, HandlerNext(j) PROVE Goal
  BY <1>0, <1>1
     DEF CollectedInOrder, At, table,
         HandlerNext, SubmitCommit, SubmitRead, SubmitDispatch, SubmitRetry, CancelCommit,
         CancelWrite, DeleteSelect, DeleteCancel, DeleteCommit
<1>2. ASSUME NEW j \in Jobs, BrokerWork(j) \/ BrokerSendFails(j) PROVE Goal
  <2>1. CASE BrokerJudge(j)
    <3>1. broker'.job = j /\ broker'.pc # "complete"
      BY <2>1, BrokerFields DEF BrokerJudge, At
    <3>2. broker'.pc = "clean" => jobs' = FailActiveJob(jobs, j)
      BY <2>1, BrokerFields DEF BrokerJudge
    <3> QED BY <1>0, <3>1, <3>2
  <2>2. CASE BrokerComplete(j)
    <3>1. broker'.job = j /\ jobs' = CompleteActiveJob(jobs, j)
      BY <2>2, BrokerFields DEF BrokerComplete, At
    <3> QED BY <1>0, <3>1
  <2>3. CASE BrokerSave(j)
    BY <1>0, <2>3, BrokerFields DEF BrokerSave, At
  <2>4. CASE BrokerLook(j) \/ BrokerRead(j) \/ BrokerClean(j)
    BY <1>0, <2>4, BrokerFields DEF BrokerLook, BrokerRead, BrokerClean
  <2>5. CASE BrokerSend(j) \/ BrokerBeat(j) \/ BrokerSendFails(j)
    BY <1>0, <2>5, BrokerFields DEF BrokerSend, BrokerBeat, BrokerSendFails
  <2> QED BY <1>2, <2>1, <2>2, <2>3, <2>4, <2>5 DEF BrokerWork
<1>3. ASSUME NEW j \in Jobs, SupervisorWork(j) PROVE Goal
  BY <1>0, <1>3, SupervisorFields
     DEF CollectedInOrder, At, table,
         SupervisorWork, SupervisorScan, SupervisorOpen, SupervisorPoll, SupervisorFetch,
         SupervisorRemove, SupervisorReceipt, SupervisorPublish
<1>4. ASSUME NEW j \in Jobs,
             SupervisorBudget(j) \/ SupervisorTidy(j) \/ SupervisorStops(j) \/ HeartbeatAges(j)
      PROVE  Goal
  BY <1>0, <1>4, SupervisorFields
     DEF CollectedInOrder, At, table,
         SupervisorBudget, SupervisorTidy, SupervisorStops, HeartbeatAges
<1>5. CASE BrokerSelect
  BY <1>0, <1>5, BrokerFields DEF BrokerSelect
<1>6. CASE BrokerGlob
  BY <1>0, <1>6, BrokerFields DEF BrokerGlob
<1>7. CASE BrokerSleep \/ BrokerAborts \/ ApiDies
  BY <1>0, <1>7, BrokerFields DEF BrokerSleep, BrokerAborts, ApiDies
<1>8. CASE SupervisorStarts \/ SupervisorDies \/ ApiStarts \/ ResultsVanish
  BY <1>0, <1>8 DEF SupervisorStarts, SupervisorDies, ApiStarts, ResultsVanish, CollectedInOrder, At, table
<1>9. CASE UNCHANGED vars
  BY <1>0, <1>9 DEF vars, CollectedInOrder, At, table
<1> QED BY <1>1, <1>2, <1>3, <1>4, <1>5, <1>6, <1>7, <1>8, <1>9 DEF Next

(* Nobody learns an id before its submission commits.                      *)
LEMMA UnsubmittedStep ==
  ASSUME TypeOK, UnsubmittedLeavesNoTrace, [Next]_vars
  PROVE  UnsubmittedLeavesNoTrace'
<1> DEFINE Clean(k) == /\ k \notin cases /\ inbox[k] = {} /\ output[k] = "none"
                      /\ cancel[k] = "idle" /\ broker.job # k /\ k \notin broker.todo
                      /\ supervisor.job # k
<1> SUFFICES ASSUME NEW k \in Jobs, submit'[k] = "new"
             PROVE  ~Present(jobs, k)' /\ Clean(k)'
  BY DEF UnsubmittedLeavesNoTrace
<1> DEFINE Goal == Clean(k)'
<1>1. submit[k] = "new"
  <2>1. ASSUME NEW j \in Jobs, HandlerNext(j) PROVE submit[k] = "new"
    BY <2>1 DEF TypeOK, HandlerNext, SubmitCommit, SubmitRead, SubmitDispatch, SubmitRetry,
       CancelCommit, CancelWrite, DeleteSelect, DeleteCancel, DeleteCommit
  <2>2. ASSUME NEW j \in Jobs, BrokerWork(j) \/ BrokerSendFails(j) PROVE submit[k] = "new"
    BY <2>2 DEF BrokerWork, BrokerLook, BrokerSend, BrokerSendFails, BrokerBeat, BrokerRead,
       BrokerJudge, BrokerSave, BrokerComplete, BrokerClean, handlers
  <2>3. ASSUME NEW j \in Jobs,
               SupervisorWork(j) \/ SupervisorBudget(j) \/ SupervisorTidy(j)
                 \/ SupervisorStops(j) \/ HeartbeatAges(j)
        PROVE  submit[k] = "new"
    BY <2>3 DEF SupervisorWork, SupervisorScan, SupervisorOpen, SupervisorPoll, SupervisorFetch,
       SupervisorRemove, SupervisorReceipt, SupervisorPublish, SupervisorBudget, SupervisorTidy,
       SupervisorStops, HeartbeatAges, handlers
  <2>4. ASSUME \/ BrokerSelect \/ BrokerGlob \/ BrokerSleep \/ BrokerAborts
               \/ SupervisorStarts \/ SupervisorDies \/ ApiDies \/ ApiStarts \/ ResultsVanish
        PROVE  submit[k] = "new"
    BY <2>4 DEF BrokerSelect, BrokerGlob, BrokerSleep, BrokerAborts, SupervisorStarts,
       SupervisorDies, ApiDies, ApiStarts, ResultsVanish, handlers
  <2> QED BY <2>1, <2>2, <2>3, <2>4 DEF Next, vars, handlers
<1>2. jobs[k].status = "absent" /\ Clean(k) /\ k # NoJob
  BY <1>1, SpoolAssumption DEF UnsubmittedLeavesNoTrace, Present, SpoolAssumption
<1>3. ~Present(jobs, k)'
  <2>1. StatusMove(k)
    BY TableStep
  <2> QED BY <1>2, <2>1 DEF StatusMove, Present, Active
<1>4. ~IsActive(jobs, k)
  BY <1>2 DEF IsActive, Active
<1>5. ASSUME NEW j \in Jobs, HandlerNext(j) PROVE Goal
  <2>1. CASE SubmitCommit(j)
    <3>1. submit'[j] = "read"
      BY <2>1 DEF SubmitCommit, TypeOK
    <3>2. j # k
      BY <3>1
    <3> QED BY <1>2, <2>1, <3>2 DEF SubmitCommit, results
  <2>2. CASE SubmitRead(j) \/ SubmitRetry(j)
    BY <1>2, <2>2 DEF SubmitRead, SubmitRetry, table, results
  <2>3. CASE SubmitDispatch(j)
    <3>1. j # k
      BY <1>1, <2>3 DEF SubmitDispatch
    <3>2. inbox'[k] = inbox[k]
      BY <2>3, <3>1 DEF SubmitDispatch, Dispatch, AddFiles, TypeOK
    <3> QED BY <1>2, <2>3, <3>2 DEF SubmitDispatch, table, results
  <2>4. CASE CancelCommit(j)
    <3>1. j # k
      BY <1>2, <2>4 DEF CancelCommit, Active
    <3>2. cancel'[k] = cancel[k]
      BY <2>4, <3>1 DEF CancelCommit, TypeOK
    <3> QED BY <1>2, <2>4, <3>2 DEF CancelCommit, results
  <2>5. CASE CancelWrite(j)
    <3>1. j # k
      BY <1>2, <2>5 DEF CancelWrite
    <3>2. inbox'[k] = inbox[k] /\ cancel'[k] = cancel[k]
      BY <2>5, <3>1 DEF CancelWrite, AddFiles, TypeOK
    <3> QED BY <1>2, <2>5, <3>2 DEF CancelWrite, table, results
  <2>6. CASE DeleteSelect(j) \/ DeleteCancel(j) \/ DeleteCommit(j)
    BY <1>2, <2>6 DEF DeleteSelect, DeleteCancel, DeleteCommit, table, results
  <2> QED BY <1>5, <2>1, <2>2, <2>3, <2>4, <2>5, <2>6 DEF HandlerNext
<1>6. ASSUME NEW j \in Jobs, BrokerWork(j) \/ BrokerSendFails(j) PROVE Goal
  BY <1>2, <1>6, BrokerFields
     DEF TypeOK, BrokerWork, BrokerLook, BrokerSend, BrokerSendFails, BrokerBeat, BrokerRead,
         BrokerJudge, BrokerSave, BrokerComplete, BrokerClean, At, Dispatch, AddFiles,
         RemoveFolder, table, results, handlers
<1>7. ASSUME NEW j \in Jobs, SupervisorWork(j) PROVE Goal
  BY <1>2, <1>7, SupervisorFields
     DEF TypeOK, SupervisorWork, SupervisorScan, SupervisorOpen, SupervisorPoll, SupervisorFetch,
         SupervisorRemove, SupervisorReceipt, SupervisorPublish, Doing, table, results, handlers
<1>8. ASSUME NEW j \in Jobs,
             SupervisorBudget(j) \/ SupervisorTidy(j) \/ SupervisorStops(j) \/ HeartbeatAges(j)
      PROVE  Goal
  BY <1>2, <1>8, SupervisorFields
     DEF TypeOK, SupervisorBudget, SupervisorTidy, SupervisorStops, HeartbeatAges,
         Doing, table, results, handlers
<1>9. CASE BrokerSelect
  <2>1. broker'.todo = ActiveJobs(jobs) /\ broker'.job = NoJob
    BY <1>9, BrokerFields DEF BrokerSelect
  <2>2. k \notin broker'.todo
    BY <1>4, <2>1 DEF ActiveJobs
  <2>3. UNCHANGED <<cases, inbox, output, cancel, supervisor>>
    BY <1>9 DEF BrokerSelect, table, results, handlers
  <2> QED BY <1>2, <1>3, <2>1, <2>2, <2>3
<1>10. CASE BrokerGlob
  <2> DEFINE T == {j \in Jobs : output[j] # "none"}
  <2>1. broker'.todo = T /\ broker'.job = NoJob
    BY <1>10, BrokerFields DEF BrokerGlob
  <2>2. k \notin broker'.todo
    BY <1>2, <2>1
  <2>3. UNCHANGED <<cases, inbox, output, cancel, supervisor>>
    BY <1>10 DEF BrokerGlob, table, results, handlers
  <2> QED BY <1>2, <1>3, <2>1, <2>2, <2>3
<1>11. ASSUME \/ BrokerSleep \/ BrokerAborts \/ SupervisorStarts \/ SupervisorDies
              \/ ApiDies \/ ApiStarts \/ ResultsVanish
       PROVE  Goal
  BY <1>2, <1>11, BrokerFields, SupervisorFields
     DEF TypeOK, BrokerSleep, BrokerAborts, SupervisorStarts, SupervisorDies, ApiDies, ApiStarts,
         ResultsVanish, table, results, handlers
<1>12. CASE UNCHANGED vars
  <2>1. UNCHANGED <<cases, inbox, output, cancel, broker, supervisor>>
    BY <1>12 DEF vars, table, results, handlers
  <2> QED BY <1>2, <1>3, <2>1
<1> QED BY <1>3, <1>5, <1>6, <1>7, <1>8, <1>9, <1>10, <1>11, <1>12 DEF Next

-----------------------------------------------------------------------------
(* The empty spool satisfies the invariant.                                *)
LEMMA InvariantInit == Init => IInv
<1> SUFFICES ASSUME Init PROVE IInv
  OBVIOUS
<1>1. \A j \in Jobs : ~IsActive(jobs, j) /\ ~Present(jobs, j)
  BY DEF Init, IsActive, Active, Present, NoRow
<1>2. TypeOK
  BY SpoolAssumption
     DEF Init, TypeOK, Table, IdleBroker, Supervisor, BrokerPC, SupervisorPC, Outcomes, SpoolAssumption
<1>3. UnsubmittedLeavesNoTrace
  BY <1>1, SpoolAssumption
     DEF Init, UnsubmittedLeavesNoTrace, IdleBroker, Supervisor, SpoolAssumption
<1>4. RunHasNoResult /\ OneContainer /\ ReceiptBeforeResult /\ BrokerNeedsApi
  BY DEF Init, RunHasNoResult, RunPC, OneContainer, ReceiptBeforeResult, BrokerNeedsApi,
         IdleBroker, Supervisor
<1>5. FolderKept /\ CollectedHasResult /\ CollectedInOrder /\ ParserGoneBeforeResult /\ ReceiptReady
  BY <1>1 DEF Init, FolderKept, CollectedHasResult, CollectedInOrder, ParserGoneBeforeResult,
         ReceiptReady
<1> QED BY <1>2, <1>3, <1>4, <1>5 DEF IInv

(* Every step preserves it.                                                *)
LEMMA InvariantStep == IInv /\ [Next]_vars => IInv'
<1> SUFFICES ASSUME IInv, [Next]_vars PROVE IInv'
  OBVIOUS
<1>1. TypeOK' /\ UnsubmittedLeavesNoTrace'
  BY TypeStep, UnsubmittedStep DEF IInv
<1>2. RunHasNoResult' /\ OneContainer' /\ ReceiptBeforeResult' /\ ParserGoneBeforeResult'
  BY RunHasNoResultStep, OneContainerStep, ReceiptBeforeResultStep, ParserGoneBeforeResultStep DEF IInv
<1>3. FolderKept' /\ ReceiptReady' /\ CollectedHasResult' /\ CollectedInOrder' /\ BrokerNeedsApi'
  BY FolderKeptStep, ReceiptReadyStep, CollectedHasResultStep, CollectedInOrderStep,
     BrokerNeedsApiStep DEF IInv
<1> QED BY <1>1, <1>2, <1>3 DEF IInv

(* IInv holds of every state of the spool.                                 *)
THEOREM SpoolInvariant == Spec => []IInv
BY InvariantInit, InvariantStep, PTL DEF Spec

(* Every variable of the spool keeps its type.                             *)
THEOREM SpoolTypeCorrect == Spec => []TypeOK
<1>1. IInv => TypeOK
  BY DEF IInv
<1> QED BY <1>1, SpoolInvariant, PTL

(* No job with a published result has a live parser, whatever kills,       *)
(* failed removals and restarts of the launcher came before.               *)
THEOREM NoParserBehindResult == Spec => []ParserGoneBeforeResult
<1>1. IInv => ParserGoneBeforeResult
  BY DEF IInv
<1> QED BY <1>1, SpoolInvariant, PTL

(* The broker never meets a parser's result of an active job without its   *)
(* isolation receipt.                                                      *)
THEOREM ReceiptsPrecedeResults == Spec => []ReceiptReady
<1>1. IInv => ReceiptReady
  BY DEF IInv
<1> QED BY <1>1, SpoolInvariant, PTL

(* A job becomes done only with its evidence saved and its container gone. *)
THEOREM DoneAfterRemoval == Spec => CompletionAfterRemoval
<1> DEFINE Done == \A j \in Jobs : jobs[j].status # "done" /\ jobs'[j].status = "done"
                                   => j \in analyses /\ j \notin containers
<1>1. IInv /\ [Next]_vars => Done
  <2> SUFFICES ASSUME IInv, [Next]_vars, NEW j \in Jobs,
                      jobs[j].status # "done", jobs'[j].status = "done"
               PROVE  j \in analyses /\ j \notin containers
    OBVIOUS
  <2>1. At("complete", j) /\ IsActive(jobs, j)
    BY TableStep DEF IInv, StatusMove, IsActive
  <2>2. output[j] # "none"
    BY <2>1 DEF IInv, CollectedHasResult, CollectPC, At
  <2> QED BY <2>1, <2>2 DEF IInv, CollectedInOrder, ParserGoneBeforeResult
<1>2. Done => [Done]_vars
  OBVIOUS
<1> QED BY <1>1, <1>2, SpoolInvariant, PTL DEF Spec, CompletionAfterRemoval

-----------------------------------------------------------------------------
(***************************************************************************)
(* The spool implements the job lifecycle.                                 *)
(***************************************************************************)
Status == [j \in Jobs |-> jobs[j].status]

OneRow == \E j \in Jobs : \A k \in Jobs \ {j} : jobs'[k].status = jobs[k].status

(* A step touches the status of one job at most.                           *)
LEMMA OneJobStep ==
  ASSUME TypeOK, Next
  PROVE  OneRow \/ UNCHANGED jobs
<1>0. jobs \in Table(Jobs)
  BY DEF TypeOK
<1>1. ASSUME NEW j \in Jobs, HandlerNext(j) PROVE OneRow \/ UNCHANGED jobs
  <2>1. CASE SubmitCommit(j)
    <3>1. \A k \in Jobs \ {j} : jobs'[k].status = jobs[k].status
      BY <1>0, <2>1, CreateJobLemma DEF SubmitCommit
    <3> QED BY <3>1 DEF OneRow
  <2>2. CASE CancelCommit(j)
    <3>1. \A k \in Jobs \ {j} : jobs'[k].status = jobs[k].status
      BY <1>0, <2>2, CancelActiveLemma DEF CancelCommit
    <3> QED BY <3>1 DEF OneRow
  <2>3. CASE DeleteCancel(j)
    <3>1. \A k \in Jobs \ {j} : jobs'[k].status = jobs[k].status
      BY <1>0, <2>3, CancelLemma DEF DeleteCancel
    <3> QED BY <3>1 DEF OneRow
  <2>4. CASE DeleteCommit(j)
    <3>1. \A k \in Jobs \ {j} : jobs'[k].status = jobs[k].status
      BY <1>0, <2>4, DeleteLemma DEF DeleteCommit
    <3> QED BY <3>1 DEF OneRow
  <2> QED BY <1>1, <2>1, <2>2, <2>3, <2>4
       DEF HandlerNext, SubmitRead, SubmitDispatch, SubmitRetry, CancelWrite, DeleteSelect, table
<1>2. ASSUME NEW j \in Jobs, jobs' = FailActiveJob(jobs, j) PROVE OneRow
  <2>1. \A k \in Jobs \ {j} : jobs'[k].status = jobs[k].status
    BY <1>0, <1>2, FailActiveLemma
  <2> QED BY <2>1 DEF OneRow
<1>3. ASSUME NEW j \in Jobs, BrokerWork(j) \/ BrokerSendFails(j) PROVE OneRow \/ UNCHANGED jobs
  <2>1. CASE BrokerBeat(j)
    <3> DEFINE t == StartJobIfQueued(jobs, j)
    <3>1. t \in Table(Jobs) /\ \A k \in Jobs \ {j} : t[k].status = jobs[k].status
      BY <1>0, StartLemma
    <3>2. CASE jobs' = TouchHeartbeat(t, j)
      <4> HIDE DEF t
      <4>1. \A k \in Jobs : jobs'[k].status = t[k].status
        BY <3>1, <3>2, TouchLemma
      <4>2. \A k \in Jobs \ {j} : jobs'[k].status = jobs[k].status
        BY <3>1, <4>1
      <4> QED BY <4>2 DEF OneRow
    <3> QED BY <2>1, <3>2 DEF BrokerBeat
  <2>2. CASE BrokerComplete(j)
    <3>1. \A k \in Jobs \ {j} : jobs'[k].status = jobs[k].status
      BY <1>0, <2>2, CompleteActiveLemma DEF BrokerComplete
    <3> QED BY <3>1 DEF OneRow
  <2> QED BY <1>2, <1>3, <2>1, <2>2
       DEF BrokerWork, BrokerLook, BrokerSend, BrokerSendFails, BrokerRead, BrokerJudge,
           BrokerSave, BrokerClean, table
<1>4. ASSUME NEW j \in Jobs,
             SupervisorWork(j) \/ SupervisorBudget(j) \/ SupervisorTidy(j)
               \/ SupervisorStops(j) \/ HeartbeatAges(j)
      PROVE  UNCHANGED jobs
  BY <1>4 DEF SupervisorWork, SupervisorScan, SupervisorOpen, SupervisorPoll, SupervisorFetch,
     SupervisorRemove, SupervisorReceipt, SupervisorPublish, SupervisorBudget, SupervisorTidy,
     SupervisorStops, HeartbeatAges, table
<1> QED BY <1>1, <1>3, <1>4
     DEF Next, BrokerSelect, BrokerGlob, BrokerSleep, BrokerAborts, SupervisorStarts,
         SupervisorDies, ApiDies, ApiStarts, ResultsVanish, table

(* A step of the spool is a step of the lifecycle or leaves it alone.      *)
LEMMA LifecycleStep ==
  ASSUME IInv, [Next]_vars
  PROVE  Lifecycle!LifecycleNext \/ UNCHANGED Status
<1>1. CASE UNCHANGED jobs
  BY <1>1 DEF Status
<1>2. ASSUME NEW j \in Jobs, \A k \in Jobs \ {j} : jobs'[k].status = jobs[k].status
      PROVE  Lifecycle!LifecycleNext \/ UNCHANGED Status
  <2>1. CASE jobs'[j].status = jobs[j].status
    BY <1>2, <2>1 DEF Status
  <2>2. CASE jobs'[j].status = "absent"
    <3>1. Lifecycle!Remove({j})
      BY <1>2, <2>2 DEF Lifecycle!Remove
    <3> QED BY <3>1 DEF Lifecycle!LifecycleNext
  <2>3. CASE <<jobs[j].status, jobs'[j].status>> \in AgentMoves
    <3>1. Status' = [Status EXCEPT ![j] = jobs'[j].status]
      BY <1>2 DEF Status
    <3>2. Lifecycle!Move(j)
      BY <2>3, <3>1 DEF Lifecycle!Move, Status
    <3> QED BY <3>2 DEF Lifecycle!LifecycleNext
  <2>4. StatusMove(j)
    BY TableStep DEF IInv
  <2>5. submit[j] = "new" => jobs[j].status = "absent"
    BY DEF IInv, UnsubmittedLeavesNoTrace, Present
  <2> QED BY <2>1, <2>2, <2>3, <2>4, <2>5 DEF StatusMove, AgentMoves, Active, Terminal
<1>3. CASE Next
  BY <1>1, <1>2, <1>3, OneJobStep DEF OneRow, IInv
<1> QED BY <1>1, <1>3 DEF vars, table

(* Unlike the in-process queue, the spool settles every job once: failed,  *)
(* cancelled and done are final, whichever of broker, agent and analyst    *)
(* wrote them first.                                                       *)
THEOREM SpoolImplementsLifecycle == Spec => LifecycleRefined
<1>1. Init => Lifecycle!LifecycleInit
  BY DEF Init, Lifecycle!LifecycleInit, NoRow
<1>2. IInv /\ [Next]_vars => [Lifecycle!LifecycleNext]_Status
  BY LifecycleStep
<1> QED
  BY <1>1, <1>2, SpoolInvariant, PTL DEF Spec, LifecycleRefined, Lifecycle!LifecycleSpec, Status
=============================================================================
