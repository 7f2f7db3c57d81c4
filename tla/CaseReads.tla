----------------------------- MODULE CaseReads -----------------------------
(***************************************************************************)
(* The readers of the case store together: evidence pages, the indicator   *)
(* feed and the report cache, over one database with its writers.          *)
(***************************************************************************)
EXTENDS EvidencePager, IocFeed, ReportCache

vars == <<storeVars, pager, feed, cacheVars>>

Init == StoreInit /\ PagerInit /\ FeedInit /\ CacheInit

Next ==
  \/ StoreNext /\ UNCHANGED <<pager, feed, cacheVars>>
  \/ (\E p \in Pagers : PagerStep(p)) /\ UNCHANGED <<feed, cacheVars>>
  \/ (\E f \in FeedClients : FetchPage(f)) /\ UNCHANGED <<pager, cacheVars>>
  \/ CacheNext /\ UNCHANGED <<pager, feed>>

Spec == Init /\ [][Next]_vars

(* Request handlers finish what they began, clients of the evidence API    *)
(* follow their cursors, and the sweep runs every hour.  Nothing else has  *)
(* to happen.                                                              *)
Fairness ==
  /\ \A p \in Pagers : WF_vars(pager[p].pc # "idle" /\ PagerStep(p) /\ UNCHANGED <<feed, cacheVars>>)
  /\ \A r \in Readers : WF_vars(ReaderStep(r) /\ UNCHANGED <<pager, feed>>)
  /\ \A c \in Cases : WF_vars(GcReports(c) /\ UNCHANGED <<pager, feed>>)

FairSpec == Spec /\ Fairness

TypeOK == StoreTypeOK /\ PagerTypeOK /\ FeedTypeOK /\ CacheTypeOK
=============================================================================
