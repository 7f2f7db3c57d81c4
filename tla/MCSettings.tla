----------------------------- MODULE MCSettings -----------------------------
(***************************************************************************)
(* SettingsTab for TLC: the server, the Streamlit workbench and one tab,   *)
(* two connections and one secret.  The budgets set the interest: on the   *)
(* files while processes come and go, on the answers the tab gets while a  *)
(* job runs and the settings change, on the models of a connection.        *)
(***************************************************************************)
EXTENDS SettingsTab

CONSTANTS server, streamlit, local

MCDefault == [conn |-> local, secret |-> NoSecret]

MCBudgets ==
  {[saves |-> 2, faults |-> 2, failures |-> 0, jobs |-> 0, edits |-> 1, queries |-> 0],
   [saves |-> 0, faults |-> 1, failures |-> 1, jobs |-> 1, edits |-> 0, queries |-> 0],
   [saves |-> 1, faults |-> 0, failures |-> 1, jobs |-> 1, edits |-> 0, queries |-> 0],
   [saves |-> 1, faults |-> 0, failures |-> 0, jobs |-> 0, edits |-> 2, queries |-> 2]}
=============================================================================
