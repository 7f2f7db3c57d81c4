------------------------------ MODULE JobTable ------------------------------
(***************************************************************************)
(* The `jobs` table of app/database/repository.py and the statements the   *)
(* program runs on it.  A table is a function from job ids to rows; an id  *)
(* that has no row maps to NoRow.  Each operator is one committed SQL      *)
(* statement: it takes the table before and returns the table after, so an *)
(* UPDATE whose WHERE clause matches nothing returns its argument.         *)
(*                                                                         *)
(* A row keeps what the lifecycle tells apart: its status, whether its     *)
(* heartbeat is younger than the 120 s of the recovery query, and whether  *)
(* `finished_at` is set, which is what the retention sweep selects on.     *)
(* `result_json` is written and cleared together with the status (it is    *)
(* set exactly in done rows) and the progress columns are left out.        *)
(***************************************************************************)

Active   == {"queued", "running"}
Terminal == {"done", "failed", "cancelled"}
Statuses == Active \cup Terminal

Row   == [status : Statuses, fresh : BOOLEAN, finished : BOOLEAN]
NoRow == [status |-> "absent", fresh |-> FALSE, finished |-> FALSE]
Table(Jobs) == [Jobs -> Row \cup {NoRow}]

Present(t, j)  == t[j].status # "absent"
IsActive(t, j) == t[j].status \in Active
ActiveJobs(t)  == {j \in DOMAIN t : IsActive(t, j)}
StaleRunningJobs(t) == {j \in DOMAIN t : t[j].status = "running" /\ ~t[j].fresh}

Update(t, j, s, hb, fin) == [t EXCEPT ![j] = [status |-> s, fresh |-> hb, finished |-> fin]]

(* INSERT of a new row: Job.status defaults to queued and the heartbeat is *)
(* written at once.                                                        *)
CreateJob(t, j) == Update(t, j, "queued", TRUE, FALSE)

(* Mutant: the flip without its WHERE status = 'queued'.                   *)
StartJobAlways(t, j) ==
  IF Present(t, j) THEN Update(t, j, "running", TRUE, t[j].finished) ELSE t

(* The compare-and-set flips: they change a queued row and nothing else.   *)
StartJobIfQueued(t, j) ==
  IF t[j].status = "queued" THEN Update(t, j, "running", TRUE, t[j].finished) ELSE t

CancelJobIfQueued(t, j) ==
  IF t[j].status = "queued" THEN Update(t, j, "cancelled", t[j].fresh, TRUE) ELSE t

(* POST /agent/jobs/{id}/cancel: an active row, and `finished_at` stays unset. *)
CancelActiveJob(t, j) ==
  IF IsActive(t, j) THEN Update(t, j, "cancelled", t[j].fresh, t[j].finished) ELSE t

(* complete_job: unconditional for the in-process worker ...               *)
CompleteJob(t, j) ==
  IF Present(t, j) THEN Update(t, j, "done", TRUE, TRUE) ELSE t

(* Mutant: only_active is not passed on.                                   *)
CompleteAnyJob(t, j) == CompleteJob(t, j)

(* ... and restricted to active rows with only_active=True.                *)
CompleteActiveJob(t, j) == IF IsActive(t, j) THEN CompleteJob(t, j) ELSE t

(* Mutant: a status word the other readers of the table do not know.       *)
FailJobAsError(t, j) ==
  IF Present(t, j) THEN Update(t, j, "error", t[j].fresh, TRUE) ELSE t

(* update_job_status(FAILED): unconditional; it leaves the heartbeat alone. *)
FailJob(t, j) ==
  IF Present(t, j) THEN Update(t, j, "failed", t[j].fresh, TRUE) ELSE t

(* fail_active of the agent broker: active rows only.                      *)
FailActiveJob(t, j) == IF IsActive(t, j) THEN FailJob(t, j) ELSE t

(* Stage updates and touch_job_heartbeat rewrite the heartbeat of whatever *)
(* row has the id, in any status.                                          *)
TouchHeartbeat(t, j) ==
  IF Present(t, j) THEN Update(t, j, t[j].status, TRUE, t[j].finished) ELSE t

(* 120 s pass without a heartbeat of j.                                    *)
AgeHeartbeat(t, j) ==
  IF Present(t, j) THEN Update(t, j, t[j].status, FALSE, t[j].finished) ELSE t

DeleteJobs(t, S) == [j \in DOMAIN t |-> IF j \in S THEN NoRow ELSE t[j]]
=============================================================================
