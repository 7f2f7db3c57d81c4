------------------------------ MODULE IocFeed ------------------------------
(***************************************************************************)
(* The indicator feed: app/api/feed.py and GET /iocs.json.  One SELECT     *)
(* joins iocs to analyses, groups by indicator, orders by the newest       *)
(* sighting (ties by value) and cuts the page with LIMIT and OFFSET; the   *)
(* cursor is the absolute offset of the next row.  Indicators are numbers, *)
(* ordered as their values are.  Filters only restrict which analyses and  *)
(* indicators count, and are left out.                                     *)
(***************************************************************************)
EXTENDS CaseStore

CONSTANTS
  Indicators,   \* a set of numbers
  IocsOf,       \* the indicators extracted from an analysis
  FeedClients,
  FeedLimit     \* `limit` of their requests

ASSUME FeedAssumption ==
  /\ Indicators \subseteq Nat /\ IsFiniteSet(Indicators)
  /\ IocsOf \in [Analyses -> SUBSET Indicators]
  /\ FeedLimit \in Nat \ {0}

VARIABLE feed

SightingsOf(i) == {a \in Analyses : Present(a) /\ i \in IocsOf[a]}
Seen           == {i \in Indicators : SightingsOf(i) # {}}
Newest(A)      == CHOOSE t \in {analyses[a].at : a \in A} : \A a \in A : analyses[a].at <= t
LastSeen(i)    == Newest(SightingsOf(i))

(* Mutant: the tie-breaker is dropped, so ties come in any order, here in  *)
(* one that depends on the clock.                                          *)
BeforeUntied(i, k) ==
  \/ LastSeen(i) > LastSeen(k)
  \/ LastSeen(i) = LastSeen(k) /\ (IF clock % 2 = 0 THEN k < i ELSE i < k)

(* ORDER BY MAX(a.analyzed_at) DESC, i.value                               *)
Before(i, k) ==
  \/ LastSeen(i) > LastSeen(k)
  \/ LastSeen(i) = LastSeen(k) /\ i < k

Rank(i)     == Cardinality({k \in Seen : Before(k, i)}) + 1
RowAt(n)    == CHOOSE i \in Seen : Rank(i) = n
FeedSize    == Cardinality(Seen)

(* A client remembers where its cursor is and what it received; `start`    *)
(* (the feed when it began) and `purges` are history.                      *)
NewClient == [pc |-> "idle", offset |-> 0, got |-> {}, rows |-> 0, start |-> {}, purges |-> purges]

FeedInit == feed = [f \in FeedClients |-> NewClient]

PageEnd(offset) == IF offset + FeedLimit <= FeedSize THEN offset + FeedLimit ELSE FeedSize

(* next_cursor is null unless the page came back full.                     *)
NextCursor(offset, count) ==
  [offset |-> offset + count, pc |-> IF count = FeedLimit THEN "cursor" ELSE "done"]

FetchPage(f) ==
  LET client == feed[f]
      rows   == {RowAt(n) : n \in (client.offset + 1)..PageEnd(client.offset)}
      next   == NextCursor(client.offset, Cardinality(rows))
  IN /\ client.pc \in {"idle", "cursor"}
     /\ feed' = [feed EXCEPT ![f] =
          [pc |-> next.pc, offset |-> next.offset,
           got |-> client.got \cup rows, rows |-> client.rows + Cardinality(rows),
           start |-> IF client.pc = "idle" THEN {<<i, LastSeen(i)>> : i \in Seen} ELSE client.start,
           purges |-> IF client.pc = "idle" THEN purges ELSE client.purges]]
     /\ UNCHANGED storeVars

FeedTypeOK ==
  feed \in [FeedClients -> [pc : {"idle", "cursor", "done"}, offset : Nat,
                            got : SUBSET Indicators, rows : Nat,
                            start : SUBSET (Indicators \X Nat), purges : [Cases -> Nat]]]
-----------------------------------------------------------------------------
Finished(f)   == feed[f].pc = "done"
Unmoved(f, i) == i \in Seen /\ <<i, LastSeen(i)>> \in feed[f].start

(* A client that has read to the end, with no deletion meanwhile, has every *)
(* indicator that was in the feed when it began and has not been sighted   *)
(* again: new rows only push the others to later pages.                    *)
FeedMissesOnlyResighted ==
  \A f \in FeedClients : Finished(f) /\ feed[f].purges = purges =>
    \A i \in Indicators : Unmoved(f, i) => i \in feed[f].got

(* A feed that did not change while it was read came whole and without     *)
(* duplicates.                                                             *)
QuietFeedExact ==
  \A f \in FeedClients :
    Finished(f) /\ feed[f].start = {<<i, LastSeen(i)>> : i \in Seen} /\ feed[f].purges = purges =>
      feed[f].got = Seen /\ feed[f].rows = FeedSize

(* What the feed leaves out it will bring again, and nothing else          *)
(* (feed.py:46-90).                                                        *)
FeedHonest == FeedMissesOnlyResighted /\ QuietFeedExact

=============================================================================
