---------------------------- MODULE JobLifecycle ----------------------------
(***************************************************************************)
(* What a job promises to whoever polls it: its status follows a fixed     *)
(* graph of moves, one job at a time, and rows may be removed in groups.   *)
(* JobQueue and AgentSpool implement it with different graphs.             *)
(***************************************************************************)
CONSTANTS Jobs, Moves
VARIABLE status

States == {"absent", "queued", "running", "done", "failed", "cancelled"}

LifecycleInit == status = [j \in Jobs |-> "absent"]

Move(j) == \E m \in Moves : /\ status[j] = m[1]
                            /\ status' = [status EXCEPT ![j] = m[2]]

Remove(S) == status' = [j \in Jobs |-> IF j \in S THEN "absent" ELSE status[j]]

LifecycleNext == (\E j \in Jobs : Move(j)) \/ (\E S \in SUBSET Jobs : Remove(S))

LifecycleSpec == LifecycleInit /\ [][LifecycleNext]_status
=============================================================================
