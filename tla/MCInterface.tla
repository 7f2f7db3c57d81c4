---------------------------- MODULE MCInterface ----------------------------
(***************************************************************************)
(* What the interface shows, for TLC: the instance MCSettings of           *)
(* SettingsTab (the React workbench) and the instance MCViews of Dashboard *)
(* (the Streamlit one), one of them in each behaviour (`focus').           *)
(***************************************************************************)
EXTENDS MCSettings, MCViews

VARIABLE focus

all == <<settingsVars, batchVars, focus>>

(* Nothing happens to the settings while saved analyses are looked at.     *)
Untouched == [what \in {"saves", "faults", "failures", "jobs", "edits", "queries"} |-> 0]
MCAllBudgets == MCBudgets \cup {Untouched}

MCInit ==
  /\ focus \in {"settings", "views"}
  /\ SettingsInit /\ BatchInit
  /\ IF focus = "views" THEN budget = Untouched /\ file = NoFile ELSE budget # Untouched

Page(A) == focus = "settings" /\ A /\ UNCHANGED <<batchVars, focus>>

(* Of three analyses one is swept at most.                                 *)
ViewsNext ==
  /\ focus = "views" /\ Next /\ UNCHANGED <<settingsVars, focus>>
  /\ Len(saved') > 2 => Cardinality(swept') < 2

MCNext == Page(SettingsNext) \/ ViewsNext

(* The fairness of FairSettingsSpec                                        *)
MCSpec ==
  /\ MCInit /\ [][MCNext]_all
  /\ WF_all(Page(ServerGoesOn /\ UNCHANGED tabVars)) /\ WF_all(Page(Poll)) /\ WF_all(Page(JobSteps))
  /\ \A s \in Slots : WF_all(Page(Answer(s))) /\ WF_all(Page(Deliver(s)))
=============================================================================
