---------------------------- MODULE MCKeyAccess ----------------------------
(***************************************************************************)
(* KeyAccess and AgentAccess for TLC, one question in each behaviour       *)
(* (`focus`).                                                              *)
(*                                                                         *)
(* KeyAccess: the limiter (a key and two threads; a key that has a limit   *)
(* keeps it), the counters (two keys without limits, flushes that fail, a  *)
(* death), and the administration of two keys by two administrators.  Time *)
(* is needed by the limiter and by the expiry of keys.                     *)
(*                                                                         *)
(* AgentAccess ("agents"): a credential with two requests at a time.       *)
(***************************************************************************)
EXTENDS KeyAccess, AgentAccess

CONSTANTS k1, k2, t1, t2, a1, a2, ag, r1, r2, i1, i2

VARIABLE focus

MCInit ==
  /\ focus \in {"limits", "usage", "admin", "agents"}
  /\ Init /\ AgentInit

LimitsOnly ==
  /\ UNCHANGED <<flush, faults, keys[k2], keys[k1].full, keys[k1].expires, keys[k1].aware, admin[a2]>>
  /\ keys'[k1].limit = 0 => keys[k1].limit = 0
  /\ keys[k1].limit # 0 /\ keys'[k1].status = "live" => UNCHANGED keys[k1].limit
UsageOnly  ==
  /\ UNCHANGED <<admin, thread[t2]>>
  /\ clock' <= 2 /\ served'[k2].count <= 1
  /\ \A k \in Keys : keys'[k].status # "revoked" /\ keys'[k].limit = 0
                     /\ keys'[k].expires = Never /\ ~keys'[k].aware /\ (keys'[k].status = "live" => keys'[k].full)
AdminOnly  ==
  /\ UNCHANGED <<thread, flush, faults>>
  /\ \A k \in Keys : keys'[k].limit = 0 /\ keys'[k].expires \in {1, 3, Never}
                     /\ (keys'[k].aware => keys'[k].expires = 3)

KeysNext ==
  /\ focus # "agents"
  /\ Next
  /\ focus = "limits" => LimitsOnly
  /\ focus = "usage"  => UsageOnly
  /\ focus = "admin"  => AdminOnly
  /\ UNCHANGED <<agentVars, focus>>

(* The credential is there from the first tick, and r1 goes first.         *)
AgentsNext ==
  /\ focus = "agents"
  /\ AgentNext
  /\ grants[ag].status = "none" => UNCHANGED now
  /\ ask[r1].pc = "idle" /\ ask[r2].pc = "idle" => ask'[r2].pc = "idle"
  /\ UNCHANGED <<vars, focus>>

MCNext == KeysNext \/ AgentsNext

MCSpec == MCInit /\ [][MCNext]_<<vars, agentVars, focus>> /\ Fairness

(* What is taken away stays away, and nobody takes the last full scope     *)
(* away unwarned: revoked keys fall silent, agents that are gone submit    *)
(* nothing (key_repository.py, admin.py, submission.py).                   *)
RevocationsHold == []LockoutWarned /\ RevokedKeysFallSilent /\ GoneSubmitNothing
=============================================================================
