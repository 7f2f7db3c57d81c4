--------------------------- MODULE MCConclusions ---------------------------
(***************************************************************************)
(* What is concluded from a capture and what is written of it, for TLC:    *)
(* the instance MCFindings of Findings and the instance MCNarrative of     *)
(* Narrative, one of them in each behaviour (`focus`).                     *)
(***************************************************************************)
EXTENDS MCFindings, MCNarrative

VARIABLE focus

all == <<vars, narrativeVars, focus>>

(* The findings have nobody who writes about them.                         *)
MCAllRequests == MCRequests \cup {<<>>}

MCInit ==
  /\ focus \in {"findings", "narrative"}
  /\ Init /\ NarrativeInit
  /\ focus = "narrative" <=> DOMAIN job # {}

ConcludeNext == focus = "findings" /\ Next /\ UNCHANGED <<narrativeVars, focus>>

(* Time matters to workers that share the cache of host names.             *)
ReportNext ==
  /\ focus = "narrative" /\ NarrativeNext /\ UNCHANGED <<vars, focus>>
  /\ Cardinality(DOMAIN job) = 1 => UNCHANGED now

(* A session ends when every job is done, and a capture anywhere.          *)
Done == Idle /\ UNCHANGED all

MCSpec == MCInit /\ [][ConcludeNext \/ ReportNext \/ Done]_all
=============================================================================
