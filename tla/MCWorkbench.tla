---------------------------- MODULE MCWorkbench ----------------------------
(***************************************************************************)
(* An instance of Workbench for TLC: a capture with flows that is uploaded *)
(* alone, and two without that are uploaded together.                      *)
(***************************************************************************)
EXTENDS Workbench

CONSTANTS capture1, capture2, capture3

MCUploads == {<<capture1>>, <<capture2, capture3>>}
=============================================================================
