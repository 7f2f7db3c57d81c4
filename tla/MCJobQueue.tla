---------------------------- MODULE MCJobQueue ----------------------------
(***************************************************************************)
(* Instances of JobQueue for TLC.                                          *)
(*                                                                         *)
(*   Uploads    two uploads into two cases, of two captures and of one, at *)
(*              either of two servers; the API has the pool                *)
(*   Report     a Streamlit upload, and a request that regenerates its     *)
(*              report, on two servers with one pool process each          *)
(***************************************************************************)
EXTENDS JobQueue, TLC

CONSTANTS api, web, wa, ww, c1, c2, j1, j2, j3, q1, q2

PoolHosts  == wa :> api @@ ww :> web
OnePool    == wa :> api

UploadsKinds    == q1 :> "upload" @@ q2 :> "upload"
UploadsCases    == q1 :> c1 @@ q2 :> c2
UploadsJobs     == j1 :> q1 @@ j2 :> q1 @@ j3 :> q2
UploadsEvidence == j1 :> j1 @@ j2 :> j2 @@ j3 :> j3

(* The two jobs of q1 differ in their names only.                          *)
UploadsSymmetry == Permutations({j1, j2})

ReportKinds    == q1 :> "streamlit" @@ q2 :> "report"
ReportCases    == q1 :> c1 @@ q2 :> c1
ReportJobs     == j1 :> q1 @@ j2 :> q2
ReportEvidence == j1 :> j1 @@ j2 :> j1
=============================================================================
