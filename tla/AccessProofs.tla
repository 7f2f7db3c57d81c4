---------------------------- MODULE AccessProofs ----------------------------
(***************************************************************************)
(* What is proved of API keys, for any keys, threads and administrators,   *)
(* any limits and windows, and however many requests, faults and starts;   *)
(* and of the agents' budgets and submissions, for any number of           *)
(* credentials, requests in flight, idempotency keys, days and failures.   *)
(***************************************************************************)
EXTENDS KeyAccess, AgentAccess, FiniteSetTheorems, SequenceTheorems, WellFoundedInduction, TLAPS

-----------------------------------------------------------------------------
(* API keys.                                                               *)

LEMMA InitialStates ==
  /\ Zero \in Use /\ NoUse \in [Keys -> Use] /\ NoKey \in Row
  /\ Idle \in Thread /\ IdleAdmin \in Admin /\ NoFlush \in Flush
<1>1. (CHOOSE k \in Keys : TRUE) \in Keys
  BY KeyAssumption
<1>2. Zero \in Use /\ NoUse \in [Keys -> Use]
  BY KeyAssumption DEF Zero, Use, NoUse
<1>3. NoKey \in Row
  BY KeyAssumption DEF NoKey, Row, Never
<1>4. Idle \in Thread /\ IdleAdmin \in Admin
  BY <1>1, KeyAssumption DEF Idle, Thread, IdleAdmin, Admin
<1>5. NoFlush \in Flush
  BY <1>1, <1>2 DEF NoFlush, Flush
<1> QED BY <1>2, <1>3, <1>4, <1>5

LEMMA NewKeyType ==
  ASSUME NEW full \in BOOLEAN, NEW limit \in Limits \cup {0}, NEW expires \in Nat
  PROVE  /\ NewKey(full, limit, expires) \in Row
         /\ NewKey(full, limit, expires).total = 0 /\ NewKey(full, limit, expires).last = 0
         /\ NewKey(full, limit, expires).status = "live"
BY KeyAssumption DEF NewKey, Row

LEMMA TypeInit == Init => TypeOK
<1> SUFFICES ASSUME Init PROVE TypeOK OBVIOUS
<1>1. Never \in Nat /\ MaxTime >= 1
  BY KeyAssumption DEF Never
<1>2. keys \in [Keys -> Row]
  BY <1>1, NewKeyType, InitialStates DEF Init
<1>3. clock \in 1..MaxTime /\ up \in BOOLEAN /\ faults \in 0..MaxFaults
  BY <1>1, KeyAssumption DEF Init
<1>4. window \in [Keys -> Seq(1..MaxTime)] /\ admitted \in [Keys -> Seq(1..MaxTime)] /\ lost \in [Keys -> Nat]
  BY DEF Init
<1> QED BY <1>2, <1>3, <1>4, InitialStates DEF Init, TypeOK

(* The least-number principle, for a set.                                  *)
LEMMA LeastNumber ==
  ASSUME NEW T, T \subseteq Nat, T # {}
  PROVE  \E x \in T : \A y \in T : x <= y
<1>1. PICK x \in T : \A y \in T : ~(<<y, x>> \in OpToRel(<, Nat))
  BY NatLessThanWellFounded, WFMin, Zenon
<1>2. \A y \in T : ~(y < x)
  BY <1>1 DEF OpToRel
<1> QED BY <1>2

(* What stays of a window is a window.                                     *)
LEMMA EvictEnd ==
  ASSUME NEW S, S \subseteq Nat, NEW w \in Seq(S), NEW tick \in Nat
  PROVE  \E d \in 0..Len(w) :
            /\ Len(Evict(w, tick)) = Len(w) - d /\ Evict(w, tick) \in Seq(S)
            /\ \A i \in 1..d : w[i] + Window < tick
            /\ \A i \in 1..(Len(w) - d) : Evict(w, tick)[i] = w[i + d]
<1>0. Len(w) \in Nat /\ Window \in Nat /\ \A i \in 1..Len(w) : w[i] \in Nat
  <2>1. \A i \in 1..Len(w) : w[i] \in S
    OBVIOUS
  <2>2. \A i \in 1..Len(w) : w[i] \in Nat
    BY <2>1
  <2>3. Len(w) \in Nat /\ Window \in Nat
    BY KeyAssumption
  <2> QED BY <2>2, <2>3
<1>1. CASE Stays(w, tick) = {}
  <2>1. Evict(w, tick) = <<>>
    BY <1>1 DEF Evict
  <2>2. \A i \in 1..Len(w) : w[i] + Window < tick
    BY <1>0, <1>1 DEF Stays
  <2>3. Len(w) \in 0..Len(w) /\ Len(<<>>) = Len(w) - Len(w) /\ <<>> \in Seq(S)
    BY <1>0
  <2>4. \A i \in 1..(Len(w) - Len(w)) : FALSE
    BY <1>0
  <2> QED BY <2>1, <2>2, <2>3, <2>4
<1>2. CASE Stays(w, tick) # {}
  <2>1. Stays(w, tick) \subseteq Nat
    BY DEF Stays
  <2>2. PICK m \in Stays(w, tick) : \A j \in Stays(w, tick) : m <= j
    BY <1>2, <2>1, LeastNumber
  <2> DEFINE f == CHOOSE i \in Stays(w, tick) : \A j \in Stays(w, tick) : i <= j
  <2>3. f \in Stays(w, tick) /\ \A j \in Stays(w, tick) : f <= j
    BY <2>2
  <2> HIDE DEF f
  <2>4. f \in 1..Len(w) /\ Len(w) \in Nat
    BY <2>3 DEF Stays
  <2>5. Evict(w, tick) = SubSeq(w, f, Len(w))
    BY <1>2 DEF Evict, f
  <2>6. /\ SubSeq(w, f, Len(w)) \in Seq(S) /\ Len(SubSeq(w, f, Len(w))) = Len(w) - (f - 1)
        /\ \A i \in 1..(Len(w) - (f - 1)) : SubSeq(w, f, Len(w))[i] = w[i + (f - 1)]
    <3>1. f \in Int /\ Len(w) \in Int /\ f <= Len(w) /\ \A i \in f..Len(w) : w[i] \in S
      BY <2>4
    <3> QED BY <3>1, SubSeqProperties
  <2>7. \A i \in 1..(f - 1) : w[i] + Window < tick
    <3> SUFFICES ASSUME NEW i \in 1..(f - 1) PROVE w[i] + Window < tick OBVIOUS
    <3>1. i \in 1..Len(w) /\ i < f /\ w[i] \in Nat
      BY <1>0, <2>4
    <3>2. i \notin Stays(w, tick)
      BY <2>3, <2>4, <3>1
    <3> QED BY <1>0, <3>1, <3>2 DEF Stays
  <2>8. f - 1 \in 0..Len(w)
    BY <2>4
  <2>9. \A i \in 1..(Len(w) - (f - 1)) : Evict(w, tick)[i] = w[i + (f - 1)]
    BY <2>5, <2>6
  <2> HIDE DEF Evict
  <2> QED BY <2>5, <2>6, <2>7, <2>8, <2>9
<1> QED BY <1>1, <1>2

-----------------------------------------------------------------------------
(* Type correctness                                                        *)
LEMMA ChangedThread ==
  ASSUME NEW r \in Thread, NEW pc \in {"idle", "limit", "timed", "record"}, NEW time \in 0..MaxTime
  PROVE  [r EXCEPT !.pc = pc] \in Thread /\ [r EXCEPT !.pc = pc, !.now = time] \in Thread
BY DEF Thread

LEMMA ChangedRow ==
  ASSUME NEW r \in Row, NEW full \in BOOLEAN, NEW limit \in Limits, NEW expires \in Nat,
         NEW aware \in BOOLEAN, NEW total \in Nat, NEW last \in 0..MaxTime
  PROVE  /\ [r EXCEPT !.full = full] \in Row /\ [r EXCEPT !.limit = limit] \in Row
         /\ [r EXCEPT !.expires = expires] \in Row
         /\ [r EXCEPT !.status = "revoked"] \in Row
         /\ [r EXCEPT !.total = total] \in Row /\ [r EXCEPT !.last = last] \in Row
BY DEF Row

LEMMA ChangedExpiry ==
  ASSUME NEW r \in Row, NEW expires \in Nat, NEW aware \in BOOLEAN
  PROVE  [r EXCEPT !.expires = expires, !.aware = aware] \in Row
BY DEF Row

LEMMA RevokedType ==
  ASSUME TypeOK, NEW k \in Keys
  PROVE  RevokedRow(k) \in [Keys -> Row]
<1> DEFINE new == IF keys[k].status = "live" THEN "revoked" ELSE keys[k].status
<1>1. [keys[k] EXCEPT !.status = new] \in Row
  <2>1. keys[k] \in Row /\ new \in {"none", "live", "revoked"}
    BY DEF TypeOK, Row
  <2> HIDE DEF new
  <2> QED BY <2>1 DEF Row
<1>2. RevokedRow(k) = [keys EXCEPT ![k] = [keys[k] EXCEPT !.status = new]]
  BY DEF RevokedRow, TypeOK
<1> QED BY <1>1, <1>2 DEF TypeOK

LEMMA UnflushedType ==
  ASSUME TypeOK, NEW k \in Keys
  PROVE  Unflushed(k) \in Nat
<1>1. pending[k] \in Use /\ flush.failed[k] \in Use /\ flush.batch[k] \in Use
  BY DEF TypeOK, Flush
<1>2. pending[k].count \in Nat /\ flush.failed[k].count \in Nat /\ flush.batch[k].count \in Nat
  BY <1>1 DEF Use
<1> QED BY <1>2 DEF Unflushed

LEMMA TypeGone ==
  ASSUME TypeOK, Gone, lost' = [k \in Keys |-> lost[k] + Unflushed(k)], clock' = clock, keys' = keys,
         faults' \in 0..MaxFaults
  PROVE  TypeOK'
<1>1. lost' \in [Keys -> Nat]
  <2>1. \A k \in Keys : lost[k] \in Nat /\ Unflushed(k) \in Nat
    BY UnflushedType DEF TypeOK
  <2> QED BY <2>1
<1>2. served' \in [Keys -> Use]
  <2>1. \A k \in Keys : [served[k] EXCEPT !.last = keys[k].last] \in Use
    BY DEF TypeOK, Use, Row
  <2> QED BY <2>1 DEF Gone
<1>3. window' \in [Keys -> Seq(1..MaxTime)] /\ admitted' \in [Keys -> Seq(1..MaxTime)]
  BY DEF Gone
<1>4. /\ pending' \in [Keys -> Use] /\ flush' \in Flush /\ thread' \in [Threads -> Thread]
      /\ admin' \in [Admins -> Admin] /\ culprit' \in {"none", "admin", "other"} /\ up' \in BOOLEAN
  BY InitialStates DEF Gone
<1>5. clock' \in 1..MaxTime /\ keys' \in [Keys -> Row]
  BY DEF TypeOK
<1> QED BY <1>1, <1>2, <1>3, <1>4, <1>5 DEF TypeOK

(* The limiter lets a request in, or not, after some entries are dropped.  *)
LEMMA LimitCases ==
  ASSUME TypeOK, ClockRead, NEW t \in Threads, CheckLimit(t)
  PROVE  LET k == thread[t].key IN
         \E d \in 0..Len(window[k]), w \in Seq(1..MaxTime) :
           /\ Len(w) = Len(window[k]) - d
           /\ \A i \in 1..d : window[k][i] + Window < thread[t].now
           /\ \A i \in 1..Len(w) : w[i] = window[k][i + d]
           /\ \/ /\ window' = [window EXCEPT ![k] = w]
                 /\ thread' = [thread EXCEPT ![t] = Idle]
                 /\ admitted' = admitted
              \/ /\ Len(w) < thread[t].limit
                 /\ window' = [window EXCEPT ![k] = Append(w, thread[t].now)]
                 /\ thread' = [thread EXCEPT ![t] = [thread[t] EXCEPT !.pc = "record"]]
                 /\ admitted' = [admitted EXCEPT ![k] = Append(admitted[k], clock)]
<1> DEFINE k == thread[t].key
           w == Evict(window[k], thread[t].now)
<1>1. /\ k \in Keys /\ thread[t].now \in Nat /\ thread[t].limit \in Nat
      /\ window[k] \in Seq(1..MaxTime) /\ 1..MaxTime \subseteq Nat
  <2>1. thread[t] \in Thread
    BY DEF TypeOK
  <2>2. k \in Keys /\ thread[t].now \in Nat /\ thread[t].limit \in Limits \cup {0}
    BY <2>1 DEF Thread
  <2>3. window[k] \in Seq(1..MaxTime)
    BY <2>2 DEF TypeOK
  <2>4. thread[t].limit \in Nat
    <3>1. Limits \subseteq Nat
      BY KeyAssumption
    <3>2. \A x \in Limits \cup {0} : x \in Nat
      BY <3>1
    <3> QED BY <2>2, <3>2
  <2>5. 1..MaxTime \subseteq Nat
    OBVIOUS
  <2> QED BY <2>2, <2>3, <2>4, <2>5
<1>2. PICK d \in 0..Len(window[k]) :
         /\ Len(w) = Len(window[k]) - d /\ w \in Seq(1..MaxTime)
         /\ \A i \in 1..d : window[k][i] + Window < thread[t].now
         /\ \A i \in 1..(Len(window[k]) - d) : w[i] = window[k][i + d]
  <2> DEFINE v == window[k]
             n == thread[t].now
             S == 1..MaxTime
  <2>1. S \subseteq Nat /\ v \in Seq(S) /\ n \in Nat
    BY <1>1
  <2> HIDE DEF v, n, S
  <2>2. \E d \in 0..Len(v) :
            /\ Len(Evict(v, n)) = Len(v) - d /\ Evict(v, n) \in Seq(S)
            /\ \A i \in 1..d : v[i] + Window < n
            /\ \A i \in 1..(Len(v) - d) : Evict(v, n)[i] = v[i + d]
    BY <2>1, EvictEnd
  <2> QED BY <2>2 DEF v, n, S
<1>3. \/ /\ window' = [window EXCEPT ![k] = w] /\ thread' = [thread EXCEPT ![t] = Idle]
         /\ admitted' = admitted
      \/ /\ ~Full(w, thread[t].limit)
         /\ window' = [window EXCEPT ![k] = Append(w, thread[t].now)]
         /\ thread' = [thread EXCEPT ![t] = [thread[t] EXCEPT !.pc = "record"]]
         /\ admitted' = [admitted EXCEPT ![k] = Append(@, clock)]
  BY DEF CheckLimit, Step
<1> HIDE DEF w
<1>4. ~Full(w, thread[t].limit) => Len(w) < thread[t].limit
  BY <1>1, <1>2 DEF Full
<1>5. admitted' = [admitted EXCEPT ![k] = Append(@, clock)]
        => admitted' = [admitted EXCEPT ![k] = Append(admitted[k], clock)]
  BY <1>1 DEF TypeOK
<1>6. \A i \in 1..Len(w) : w[i] = window[k][i + d]
  BY <1>2
<1> HIDE DEF k
<1> QED BY <1>2, <1>3, <1>4, <1>5, <1>6 DEF k

LEMMA TypeThreads ==
  ASSUME TypeOK, ClockRead, NEW t \in Threads, NEW k \in Keys,
         LookUp(t, k) \/ ReadClock(t) \/ CheckLimit(t) \/ Record(t)
  PROVE  TypeOK'
<1>0. /\ thread[t] \in Thread /\ thread[t].key \in Keys /\ keys[k] \in Row
      /\ thread[t].now \in 0..MaxTime /\ clock \in 0..MaxTime /\ clock \in 1..MaxTime /\ 0 \in 0..MaxTime
  <2>1. thread[t] \in Thread /\ keys[k] \in Row /\ clock \in 1..MaxTime
    BY DEF TypeOK
  <2>2. thread[t].key \in Keys /\ thread[t].now \in 0..MaxTime
    BY <2>1 DEF Thread
  <2> QED BY <2>1, <2>2, KeyAssumption
<1>1. CASE LookUp(t, k)
  <2> DEFINE r == [pc |-> IF keys[k].limit = 0 THEN "record" ELSE "limit",
                   key |-> k, limit |-> keys[k].limit, now |-> 0]
  <2>1. r \in Thread
    BY <1>0 DEF Thread, Row
  <2>2. thread' = [thread EXCEPT ![t] = r]
    BY <1>1 DEF LookUp, Step
  <2> HIDE DEF r
  <2> QED BY <1>1, <2>1, <2>2 DEF TypeOK, LookUp, historyVars
<1>2. CASE ReadClock(t)
  BY <1>0, <1>2, ChangedThread DEF TypeOK, ReadClock, Step, historyVars
<1>3. CASE CheckLimit(t)
  <2> DEFINE q == thread[t].key
  <2>1. /\ window[q] \in Seq(1..MaxTime) /\ admitted[q] \in Seq(1..MaxTime)
        /\ thread[t].now \in 1..MaxTime
    BY <1>0, <1>3 DEF TypeOK, CheckLimit, ClockRead
  <2>2. UNCHANGED <<clock, up, keys, pending, flush, admin, faults, served, lost, culprit>>
    BY <1>3 DEF CheckLimit
  <2>3. PICK w \in Seq(1..MaxTime) :
           \/ /\ window' = [window EXCEPT ![q] = w]
              /\ thread' = [thread EXCEPT ![t] = Idle]
              /\ admitted' = admitted
           \/ /\ window' = [window EXCEPT ![q] = Append(w, thread[t].now)]
              /\ thread' = [thread EXCEPT ![t] = [thread[t] EXCEPT !.pc = "record"]]
              /\ admitted' = [admitted EXCEPT ![q] = Append(admitted[q], clock)]
    BY <1>3, LimitCases
  <2>4. window' \in [Keys -> Seq(1..MaxTime)]
    <3>1. w \in Seq(1..MaxTime) /\ Append(w, thread[t].now) \in Seq(1..MaxTime)
      BY <2>1
    <3> QED BY <1>0, <2>3, <3>1 DEF TypeOK
  <2>5. admitted' \in [Keys -> Seq(1..MaxTime)]
    <3>1. Append(admitted[q], clock) \in Seq(1..MaxTime)
      BY <1>0, <2>1
    <3> QED BY <1>0, <2>3, <3>1 DEF TypeOK
  <2>6. thread' \in [Threads -> Thread]
    BY <1>0, <2>3, InitialStates, ChangedThread, ZenonT(30) DEF TypeOK
  <2> QED BY <2>2, <2>4, <2>5, <2>6 DEF TypeOK
<1>4. CASE Record(t)
  <2> DEFINE q == thread[t].key
  <2>1. /\ pending[q].count + 1 \in Nat /\ served[q].count + 1 \in Nat
    <3>1. pending[q] \in Use /\ served[q] \in Use
      BY <1>0 DEF TypeOK
    <3> QED BY <3>1 DEF Use
  <2>2. /\ [count |-> pending[q].count + 1, last |-> clock] \in Use
        /\ [count |-> served[q].count + 1, last |-> clock] \in Use
    BY <1>0, <2>1 DEF Use
  <2>3. /\ pending' = [pending EXCEPT ![q] = [count |-> pending[q].count + 1, last |-> clock]]
        /\ served' = [served EXCEPT ![q] = [count |-> served[q].count + 1, last |-> clock]]
        /\ thread' = [thread EXCEPT ![t] = Idle]
        /\ UNCHANGED <<clock, up, keys, window, flush, admin, faults, lost, admitted, culprit>>
    BY <1>0, <1>4 DEF Record, Step, TypeOK
  <2> QED BY <2>2, <2>3, InitialStates DEF TypeOK
<1> QED BY <1>1, <1>2, <1>3, <1>4

(* The flush: an entry it has in hand is added, fails, or is put back.     *)
LEMMA BatchType ==
  ASSUME TypeOK, NEW k \in Keys
  PROVE  /\ keys[k] \in Row /\ keys[k].total \in Nat /\ keys[k].last \in 0..MaxTime
         /\ pending[k] \in Use /\ pending[k].count \in Nat /\ pending[k].last \in 0..MaxTime
         /\ flush.batch[k] \in Use /\ flush.batch[k].count \in Nat /\ flush.batch[k].last \in 0..MaxTime
         /\ flush.failed[k] \in Use /\ flush.failed[k].count \in Nat /\ flush.failed[k].last \in 0..MaxTime
         /\ served[k] \in Use /\ served[k].count \in Nat /\ served[k].last \in 0..MaxTime
         /\ lost[k] \in Nat
<1>1. /\ keys[k] \in Row /\ pending[k] \in Use /\ flush.batch[k] \in Use
      /\ flush.failed[k] \in Use /\ served[k] \in Use /\ lost[k] \in Nat
  BY DEF TypeOK, Flush
<1>2. keys[k].total \in Nat /\ keys[k].last \in 0..MaxTime
  BY <1>1 DEF Row
<1>3. \A u \in Use : u.count \in Nat /\ u.last \in 0..MaxTime
  BY DEF Use
<1> QED BY <1>1, <1>2, <1>3

(* What a flush becomes                                                    *)
LEMMA FlushFields ==
  ASSUME TypeOK, NEW k \in Keys, NEW pc \in {"idle", "next", "touch"}
  PROVE  /\ [flush EXCEPT !.pc = "touch", !.key = k] \in Flush
         /\ [flush EXCEPT !.pc = pc, !.left = flush.left \ {k}] \in Flush
         /\ [flush EXCEPT !.pc = pc, !.left = flush.left \ {k},
                          !.failed = [flush.failed EXCEPT ![k] = flush.batch[k]]] \in Flush
<1>1. /\ flush \in Flush /\ flush.left \ {k} \in SUBSET Keys
      /\ [flush.failed EXCEPT ![k] = flush.batch[k]] \in [Keys -> Use]
  BY DEF TypeOK, Flush
<1> QED BY <1>1 DEF Flush

(* The outcomes of a step of the flush, with their entry                   *)
LEMMA FlushCases ==
  ASSUME TypeOK, FlushOK, NEW k \in Keys,
         FlushIncrement(k) \/ (FlushTouch /\ flush.key = k)
  PROVE  LET touched == flush.pc = "touch" IN
         /\ k \in flush.left /\ flush.pc \in {"next", "touch"} /\ (touched => flush.key = k)
         /\ \/ /\ ~touched /\ UNCHANGED faults
               /\ keys' = [keys EXCEPT ![k] = [keys[k] EXCEPT !.total = keys[k].total + flush.batch[k].count]]
               /\ flush' = [flush EXCEPT !.pc = "touch", !.key = k]
            \/ /\ touched /\ UNCHANGED faults
               /\ keys' = [keys EXCEPT ![k] = [keys[k] EXCEPT !.last = flush.batch[k].last]]
               /\ flush' = [flush EXCEPT !.pc = "next", !.left = flush.left \ {k}]
            \/ /\ Failing /\ UNCHANGED keys
               /\ flush' = [flush EXCEPT !.pc = "next", !.left = flush.left \ {k},
                                         !.failed = [flush.failed EXCEPT ![k] = flush.batch[k]]]
<1>0. flush \in Flush /\ keys \in [Keys -> Row] /\ keys[k] \in Row
  BY DEF TypeOK
<1>1. CASE FlushIncrement(k)
  BY <1>0, <1>1, ZenonT(30) DEF FlushIncrement, Flush
<1>2. CASE FlushTouch /\ flush.key = k
  BY <1>0, <1>2 DEF FlushTouch, FlushOK, Flush
<1> QED BY <1>1, <1>2

LEMMA TypeFlush ==
  ASSUME TypeOK, FlushOK,
         (\E stopping \in BOOLEAN : FlushTake(stopping)) \/ (\E k \in Keys : FlushIncrement(k))
           \/ FlushTouch \/ FlushRestore
  PROVE  TypeOK'
<1>0. flush \in Flush /\ flush.key \in Keys /\ NoFlush \in Flush
  BY InitialStates DEF TypeOK, Flush
<1>1. ASSUME NEW stopping \in BOOLEAN, FlushTake(stopping) PROVE TypeOK'
  <2>1. UsedKeys \in SUBSET Keys /\ pending \in [Keys -> Use]
    BY DEF UsedKeys, TypeOK
  <2> DEFINE f == [NoFlush EXCEPT !.pc = "next", !.stopping = stopping, !.left = UsedKeys, !.batch = pending]
  <2>2. f \in Flush
    BY <1>0, <2>1 DEF Flush
  <2>3. flush' = f /\ pending' = NoUse
    BY <1>1 DEF FlushTake, Swapped
  <2> HIDE DEF f
  <2> QED BY <1>1, <2>2, <2>3, InitialStates DEF TypeOK, FlushTake, historyVars
<1>2. ASSUME NEW k \in Keys, FlushIncrement(k) \/ (FlushTouch /\ flush.key = k) PROVE TypeOK'
  <2>1. UNCHANGED <<clock, up, window, thread, pending, admin, historyVars>>
    BY <1>2 DEF FlushIncrement, FlushTouch
  <2>2. keys[k].total + flush.batch[k].count \in Nat
    BY BatchType
  <2>3. \A r \in Row, total \in Nat, last \in 0..MaxTime :
           [r EXCEPT !.total = total] \in Row /\ [r EXCEPT !.last = last] \in Row
    BY DEF Row
  <2>4. keys' \in [Keys -> Row]
    <3>1. /\ [keys[k] EXCEPT !.total = keys[k].total + flush.batch[k].count] \in Row
          /\ [keys[k] EXCEPT !.last = flush.batch[k].last] \in Row
      BY <2>2, <2>3, BatchType
    <3>2. \/ UNCHANGED keys
          \/ keys' = [keys EXCEPT ![k] = [keys[k] EXCEPT !.total = keys[k].total + flush.batch[k].count]]
          \/ keys' = [keys EXCEPT ![k] = [keys[k] EXCEPT !.last = flush.batch[k].last]]
      BY <1>2, FlushCases
    <3>3. \A r \in Row : [keys EXCEPT ![k] = r] \in [Keys -> Row]
      BY DEF TypeOK
    <3>4. keys \in [Keys -> Row]
      BY DEF TypeOK
    <3> QED BY <3>1, <3>2, <3>3, <3>4, Zenon
  <2>5. flush' \in Flush
    BY <1>2, FlushCases, FlushFields
  <2>6. faults' \in 0..MaxFaults
    <3>1. faults' = faults \/ (faults < MaxFaults /\ faults' = faults + 1)
      BY <1>2, FlushCases DEF Failing
    <3> QED BY <3>1, KeyAssumption DEF TypeOK
  <2> QED BY <2>1, <2>4, <2>5, <2>6 DEF TypeOK, historyVars
<1>3. CASE FlushRestore
  <2>1. \A k \in Keys : Restored(k) \in Use
    <3> SUFFICES ASSUME NEW k \in Keys PROVE Restored(k) \in Use OBVIOUS
    <3> DEFINE n == pending[k].count + flush.failed[k].count
               m == IF pending[k].last >= flush.failed[k].last THEN pending[k].last ELSE flush.failed[k].last
    <3>1. n \in Nat /\ m \in 0..MaxTime
      BY BatchType
    <3>2. Restored(k) = [count |-> n, last |-> m]
      BY DEF Restored
    <3> HIDE DEF n, m
    <3> QED BY <3>1, <3>2 DEF Use
  <2>2. pending' \in [Keys -> Use]
    BY <1>3, <2>1 DEF FlushRestore
  <2> QED BY <1>0, <1>3, <2>2 DEF TypeOK, FlushRestore, historyVars
<1> QED BY <1>0, <1>1, <1>2, <1>3

LEMMA TypeAdmins ==
  ASSUME TypeOK, \/ \E a \in Admins : AdminStart(a) \/ AdminStep(a)
                 \/ \E k \in Keys : CreateKey(k) \/ TabRevoke(k)
  PROVE  TypeOK'
<1>0. \A a \in Admins : admin[a] \in Admin /\ admin[a].key \in Keys
  BY DEF TypeOK, Admin
<1>1. \A k \in Keys, pc \in {"idle", "revoke", "reset", "patch", "count", "done"}, warned \in BOOLEAN :
        [pc |-> pc, key |-> k, warned |-> warned] \in Admin
  BY DEF Admin
<1>2. \A r \in Admin, pc \in {"idle", "revoke", "reset", "patch", "count", "done"}, warned \in BOOLEAN :
        [r EXCEPT !.pc = pc] \in Admin /\ [r EXCEPT !.pc = pc, !.warned = warned] \in Admin
  BY DEF Admin
<1>3. BlameAdmin \/ BlameOther => culprit' \in {"none", "admin", "other"}
  BY DEF BlameAdmin, BlameOther, TypeOK
<1>4. ASSUME NEW a \in Admins, AdminStart(a) PROVE TypeOK'
  <2>1. PICK k \in Keys, pc \in {"revoke", "patch"} :
           admin' = [admin EXCEPT ![a] = [pc |-> pc, key |-> k, warned |-> FALSE]]
    BY <1>4 DEF AdminStart, AdminTo
  <2>2. admin' \in [Admins -> Admin]
    BY <1>1, <2>1 DEF TypeOK
  <2> QED BY <1>4, <2>2 DEF TypeOK, AdminStart, historyVars
<1>5. ASSUME NEW a \in Admins, AdminRevoke(a) PROVE TypeOK'
  <2>1. keys' \in [Keys -> Row]
    BY <1>0, <1>5, RevokedType DEF AdminRevoke
  <2>2. admin' \in [Admins -> Admin]
    BY <1>0, <1>2, <1>5 DEF AdminRevoke, AdminTo, TypeOK
  <2> QED BY <1>3, <1>5, <2>1, <2>2 DEF TypeOK, AdminRevoke
<1>6. ASSUME NEW a \in Admins, AdminReset(a) PROVE TypeOK'
  <2>1. admin' \in [Admins -> Admin]
    BY <1>0, <1>2, <1>6 DEF AdminReset, AdminTo, TypeOK
  <2>2. window' \in [Keys -> Seq(1..MaxTime)] /\ admitted' \in [Keys -> Seq(1..MaxTime)]
    <3>1. <<>> \in Seq(1..MaxTime)
      OBVIOUS
    <3> QED BY <1>6, <3>1 DEF AdminReset, TypeOK
  <2> QED BY <1>6, <2>1, <2>2 DEF TypeOK, AdminReset
<1>7. ASSUME NEW a \in Admins, AdminPatch(a) PROVE TypeOK'
  <2> DEFINE k == admin[a].key
  <2>1. k \in Keys /\ keys[k] \in Row /\ keys \in [Keys -> Row]
    BY <1>0 DEF TypeOK
  <2>2. \/ \E full \in BOOLEAN : keys' = [keys EXCEPT ![k] = [keys[k] EXCEPT !.full = full]]
        \/ \E limit \in Limits : keys' = [keys EXCEPT ![k] = [keys[k] EXCEPT !.limit = limit]]
        \/ \E expires \in 1..MaxTime, aware \in BOOLEAN :
             keys' = [keys EXCEPT ![k] = [keys[k] EXCEPT !.expires = expires, !.aware = aware]]
    BY <1>7, <2>1 DEF AdminPatch
  <2>3. /\ \A full \in BOOLEAN : [keys[k] EXCEPT !.full = full] \in Row
        /\ \A limit \in Limits : [keys[k] EXCEPT !.limit = limit] \in Row
        /\ \A expires \in 1..MaxTime, aware \in BOOLEAN :
             [keys[k] EXCEPT !.expires = expires, !.aware = aware] \in Row
    <3>1. \A full \in BOOLEAN : [keys[k] EXCEPT !.full = full] \in Row
      BY <2>1 DEF Row
    <3>2. \A limit \in Limits : [keys[k] EXCEPT !.limit = limit] \in Row
      BY <2>1 DEF Row
    <3>3. ASSUME NEW expires \in 1..MaxTime, NEW aware \in BOOLEAN
          PROVE  [keys[k] EXCEPT !.expires = expires, !.aware = aware] \in Row
      <4>1. expires \in Nat
        BY <3>3
      <4> QED BY <2>1, <4>1, ChangedExpiry
    <3> QED BY <3>1, <3>2, <3>3
  <2> HIDE DEF k
  <2>4. keys' \in [Keys -> Row]
    <3>1. \A r \in Row : [keys EXCEPT ![k] = r] \in [Keys -> Row]
      BY <2>1
    <3>2. PICK r \in Row : keys' = [keys EXCEPT ![k] = r]
      <4>1. CASE \E full \in BOOLEAN : keys' = [keys EXCEPT ![k] = [keys[k] EXCEPT !.full = full]]
        BY <2>3, <4>1, Zenon
      <4>2. CASE \E limit \in Limits : keys' = [keys EXCEPT ![k] = [keys[k] EXCEPT !.limit = limit]]
        BY <2>3, <4>2
      <4>3. CASE \E expires \in 1..MaxTime, aware \in BOOLEAN :
                   keys' = [keys EXCEPT ![k] = [keys[k] EXCEPT !.expires = expires, !.aware = aware]]
        BY <2>3, <4>3
      <4> QED BY <2>2, <4>1, <4>2, <4>3
    <3> QED BY <3>1, <3>2
  <2>5. admin' \in [Admins -> Admin]
    BY <1>0, <1>2, <1>7 DEF AdminPatch, AdminTo, TypeOK
  <2> QED BY <1>3, <1>7, <2>4, <2>5 DEF TypeOK, AdminPatch
<1>8. ASSUME NEW a \in Admins, AdminCount(a) PROVE TypeOK'
  <2>1. (~EnvMain /\ FullKeys = {}) \in BOOLEAN
    BY KeyAssumption, Zenon
  <2>2. admin' \in [Admins -> Admin]
    BY <1>0, <1>2, <1>8, <2>1 DEF AdminCount, AdminTo, TypeOK
  <2> QED BY <1>8, <2>2 DEF TypeOK, AdminCount, historyVars
<1>9. ASSUME NEW k \in Keys, CreateKey(k) PROVE TypeOK'
  <2>1. PICK full \in BOOLEAN, limit \in Limits, expires \in {Never} \cup (clock + 1)..MaxTime :
           keys' = [keys EXCEPT ![k] = NewKey(full, limit, expires)]
    BY <1>9 DEF CreateKey
  <2>2. expires \in Nat
    <3>1. clock \in Nat /\ MaxTime \in Nat
      BY KeyAssumption DEF TypeOK
    <3> QED BY <3>1 DEF Never
  <2>3. keys' \in [Keys -> Row]
    BY <2>1, <2>2, NewKeyType DEF TypeOK
  <2> QED BY <1>9, <2>3 DEF TypeOK, CreateKey, historyVars, ramVars
<1>10. ASSUME NEW k \in Keys, TabRevoke(k) PROVE TypeOK'
  BY <1>3, <1>10, RevokedType DEF TypeOK, TabRevoke, ramVars
<1> QED BY <1>4, <1>5, <1>6, <1>7, <1>8, <1>9, <1>10 DEF AdminStep

LEMMA TypeStep ==
  ASSUME TypeOK, FlushOK, ClockRead, Next
  PROVE  TypeOK'
<1>1. CASE Tick
  <2>1. clock' \in 1..MaxTime
    BY <1>1, KeyAssumption DEF Tick, TypeOK
  <2>2. culprit' \in {"none", "admin", "other"}
    BY <1>1 DEF Tick, BlameOther, TypeOK
  <2> QED BY <1>1, <2>1, <2>2 DEF TypeOK, Tick, ramVars
<1>2. CASE \E t \in Threads : ThreadStep(t) \/ \E k \in Keys : LookUp(t, k)
  BY <1>2, TypeThreads, KeyAssumption DEF ThreadStep
<1>3. CASE ShutDown
  BY <1>3, TypeGone DEF ShutDown, TypeOK
<1>4. CASE Crash
  <2>1. faults' \in 0..MaxFaults
    BY <1>4, KeyAssumption DEF Crash, Failing, TypeOK
  <2> QED BY <1>4, <2>1, TypeGone DEF Crash
<1>5. CASE Boot
  BY <1>5 DEF Boot, TypeOK, ramVars, historyVars
<1> QED BY <1>1, <1>2, <1>3, <1>4, <1>5, TypeFlush, TypeAdmins DEF Next

-----------------------------------------------------------------------------
(***************************************************************************)
(* Usage: where the uses of a key are, and their newest time.              *)
(***************************************************************************)
LEMMA UsageInit == Init => UsageInv
<1> SUFFICES ASSUME Init PROVE UsageInv OBVIOUS
<1>1. \A k \in Keys : /\ pending[k] = Zero /\ flush.failed[k] = Zero /\ served[k] = Zero /\ lost[k] = 0
                     /\ k \notin flush.left /\ keys[k].total = 0 /\ keys[k].last = 0
  BY DEF Init, NoUse, NoFlush, NewKey, NoKey
<1>2. /\ flush = NoFlush /\ flush.pc = "idle" /\ clock = 1
      /\ \A t \in Threads : thread[t].pc = "idle"
      /\ Zero.count = 0 /\ Zero.last = 0
  BY DEF Init, NoFlush, Idle, Zero
<1>3. KeysExist /\ FlushOK
  BY <1>1, <1>2 DEF KeysExist, FlushOK
<1>4. UsesInOrder
  BY <1>1, <1>2 DEF UsesInOrder, LastUse
<1>5. UsageNeverLost /\ UsageExact
  BY <1>1, <1>2 DEF UsageNeverLost, UsageExact, Unflushed
<1> QED BY <1>3, <1>4, <1>5 DEF UsageInv

(* A step that neither counts nor flushes: time passes, keys are made,     *)
(* changed and revoked, threads begin and are refused.                     *)
LEMMA UsageStays ==
  ASSUME TypeOK, UsageInv, UNCHANGED <<pending, flush, served, lost>>,
         faults' = faults, clock' \in Nat, clock <= clock',
         \A k \in Keys : /\ keys'[k].total = keys[k].total /\ keys'[k].last = keys[k].last
                         /\ keys'[k].status = "none" => keys[k].status = "none",
         \A t \in Threads : thread'[t].pc # "idle" =>
            \/ thread[t].pc # "idle" /\ thread'[t].key = thread[t].key
            \/ keys'[thread'[t].key].status # "none"
  PROVE  UsageInv'
<1>1. KeysExist'
  BY DEF UsageInv, KeysExist
<1>2. FlushOK'
  BY DEF UsageInv, FlushOK
<1>3. \A k \in Keys : Unflushed(k)' = Unflushed(k) /\ LastUse(k)' = LastUse(k)
  BY DEF Unflushed, LastUse
<1>4. UsesInOrder'
  <2> SUFFICES ASSUME NEW k \in Keys
               PROVE  (/\ served[k].last = LastUse(k) /\ served[k].last <= clock
                       /\ keys[k].last <= served[k].last
                       /\ k \in flush.left =>
                            keys[k].last <= flush.batch[k].last /\ flush.batch[k].last <= served[k].last
                       /\ flush.failed[k].count > 0 =>
                            keys[k].last <= flush.failed[k].last /\ flush.failed[k].last <= served[k].last)'
    BY DEF UsesInOrder
  <2>1. clock \in Nat /\ served[k].last \in Nat
    BY BatchType DEF TypeOK
  <2> QED BY <1>3, <2>1 DEF UsageInv, UsesInOrder
<1>5. UsageNeverLost' /\ UsageExact'
  BY <1>3 DEF UsageInv, UsageNeverLost, UsageExact
<1> QED BY <1>1, <1>2, <1>4, <1>5 DEF UsageInv

(* A request is counted: its time is the newest.                           *)
LEMMA UsageRecord ==
  ASSUME TypeOK, UsageInv, NEW t \in Threads, Record(t)
  PROVE  UsageInv'
<1> DEFINE q == thread[t].key
<1>0. /\ q \in Keys /\ clock \in Nat /\ thread[t].pc = "record" /\ keys[q].status # "none"
  <2>1. thread[t] \in Thread
    BY DEF TypeOK
  <2>2. thread[t].pc = "record" /\ q \in Keys
    BY <2>1 DEF Record, Thread
  <2> QED BY <2>2 DEF UsageInv, KeysExist, TypeOK
<1>1. /\ pending' = [pending EXCEPT ![q] = [count |-> pending[q].count + 1, last |-> clock]]
      /\ served' = [served EXCEPT ![q] = [count |-> served[q].count + 1, last |-> clock]]
      /\ thread' = [thread EXCEPT ![t] = Idle]
      /\ UNCHANGED <<clock, up, keys, window, flush, admin, faults, lost, admitted, culprit>>
  BY <1>0 DEF Record, Step, TypeOK
<1> HIDE DEF q
<1>2. /\ pending'[q].count = pending[q].count + 1 /\ pending'[q].last = clock
      /\ served'[q].count = served[q].count + 1 /\ served'[q].last = clock
      /\ \A k \in Keys \ {q} : pending'[k] = pending[k] /\ served'[k] = served[k]
      /\ \A u \in Threads : thread'[u].pc # "idle" => thread'[u] = thread[u]
  BY <1>0, <1>1 DEF TypeOK, Idle
<1>3. KeysExist'
  BY <1>0, <1>1, <1>2 DEF UsageInv, KeysExist
<1>4. FlushOK'
  BY <1>0, <1>1, <1>2, BatchType DEF UsageInv, FlushOK
<1>5. ASSUME NEW k \in Keys
      PROVE  /\ Unflushed(k)' = Unflushed(k) + (IF k = q THEN 1 ELSE 0)
             /\ served'[k].count = served[k].count + (IF k = q THEN 1 ELSE 0)
             /\ Unflushed(k) \in Nat /\ served[k].count \in Nat /\ keys[k].total \in Nat /\ lost[k] \in Nat
  <2>1. /\ pending'[k].count = pending[k].count + (IF k = q THEN 1 ELSE 0)
        /\ served'[k].count = served[k].count + (IF k = q THEN 1 ELSE 0)
    BY <1>0, <1>2, BatchType
  <2>2. /\ pending[k].count \in Nat /\ flush.failed[k].count \in Nat /\ flush.batch[k].count \in Nat
        /\ served[k].count \in Nat /\ keys[k].total \in Nat /\ lost[k] \in Nat
    BY BatchType
  <2> QED BY <1>1, <2>1, <2>2 DEF Unflushed
<1>6. UsageNeverLost' /\ UsageExact'
  BY <1>1, <1>5 DEF UsageInv, UsageNeverLost, UsageExact
<1>7. ASSUME NEW k \in Keys
      PROVE  (/\ served[k].last = LastUse(k) /\ served[k].last <= clock
              /\ keys[k].last <= served[k].last
              /\ k \in flush.left =>
                   keys[k].last <= flush.batch[k].last /\ flush.batch[k].last <= served[k].last
              /\ flush.failed[k].count > 0 =>
                   keys[k].last <= flush.failed[k].last /\ flush.failed[k].last <= served[k].last)'
  <2>0. /\ pending[k].count \in Nat /\ served[k].last \in Nat /\ keys[k].last \in Nat
        /\ flush.batch[k].last \in Nat /\ flush.failed[k].last \in Nat /\ clock \in Nat
    BY <1>0, BatchType
  <2>1. CASE k = q
    <3>1. LastUse(k)' = clock
      BY <1>2, <2>0, <2>1 DEF LastUse
    <3> QED BY <1>1, <1>2, <2>0, <2>1, <3>1 DEF UsageInv, UsesInOrder
  <2>2. CASE k # q
    <3>1. LastUse(k)' = LastUse(k)
      BY <1>1, <1>2, <2>2 DEF LastUse
    <3> QED BY <1>1, <1>2, <2>0, <2>2, <3>1 DEF UsageInv, UsesInOrder
  <2> QED BY <2>1, <2>2
<1>8. UsesInOrder'
  BY <1>7 DEF UsesInOrder
<1> QED BY <1>3, <1>4, <1>6, <1>8 DEF UsageInv

(* The order of the times of one key, as UsesInOrder states it.            *)
OrderOf(k) ==
  /\ served[k].last = LastUse(k) /\ served[k].last <= clock
  /\ keys[k].last <= served[k].last
  /\ k \in flush.left =>
       keys[k].last <= flush.batch[k].last /\ flush.batch[k].last <= served[k].last
  /\ flush.failed[k].count > 0 =>
       keys[k].last <= flush.failed[k].last /\ flush.failed[k].last <= served[k].last

(* The database plus what is on its way plus what was lost.                *)
Found(k) == keys[k].total + Unflushed(k) + lost[k]

LEMMA NatUses ==
  ASSUME TypeOK, NEW k \in Keys
  PROVE  /\ keys[k].total \in Nat /\ keys[k].last \in Nat /\ lost[k] \in Nat
         /\ pending[k].count \in Nat /\ pending[k].last \in Nat
         /\ flush.batch[k].count \in Nat /\ flush.batch[k].last \in Nat
         /\ flush.failed[k].count \in Nat /\ flush.failed[k].last \in Nat
         /\ served[k].count \in Nat /\ served[k].last \in Nat
         /\ clock \in Nat /\ Unflushed(k) \in Nat /\ Found(k) \in Nat
<1>1. clock \in Nat
  BY DEF TypeOK
<1>2. Unflushed(k) \in Nat
  BY UnflushedType
<1> QED BY <1>1, <1>2, BatchType DEF Found

(* A step that moves uses about, and counts and loses none.                *)
LEMMA UsageMoves ==
  ASSUME TypeOK, UsageInv, KeysExist', FlushOK', served' = served, clock' = clock,
         \A k \in Keys : OrderOf(k)',
         faults' \in Nat, faults' = 0 => faults = 0,
         \A k \in Keys : Found(k)' \in Nat /\ Found(k)' >= Found(k) /\ (faults' = 0 => Found(k)' = Found(k))
  PROVE  UsageInv'
<1>1. UsesInOrder'
  BY DEF UsesInOrder, OrderOf
<1>2. \A k \in Keys : Found(k) \in Nat /\ served[k].count \in Nat
  BY NatUses
<1>3. UsageNeverLost'
  BY <1>2 DEF UsageNeverLost, UsageInv, Found
<1>4. UsageExact'
  BY <1>2 DEF UsageExact, UsageInv, Found
<1> QED BY <1>1, <1>3, <1>4 DEF UsageInv

LEMMA UsageTake ==
  ASSUME TypeOK, UsageInv, NEW stopping \in BOOLEAN, FlushTake(stopping)
  PROVE  UsageInv'
<1>1. /\ flush = NoFlush /\ flush.left = {} /\ \A k \in Keys : flush.failed[k] = Zero
      /\ Zero.count = 0 /\ Zero.last = 0
  BY DEF FlushTake, UsageInv, FlushOK, NoFlush, NoUse, Zero
<1>2. /\ flush'.pc = "next" /\ flush'.left = UsedKeys /\ flush'.batch = pending
      /\ \A k \in Keys : flush'.failed[k] = Zero /\ pending'[k] = Zero
      /\ UNCHANGED <<clock, keys, thread, faults, served, lost>>
  BY DEF FlushTake, NoFlush, Swapped, NoUse, historyVars
<1>3. \A k \in Keys : k \in UsedKeys <=> pending[k].count > 0
  BY DEF UsedKeys
<1>4. KeysExist'
  BY <1>1, <1>2, <1>3 DEF UsageInv, KeysExist
<1>5. FlushOK'
  BY <1>1, <1>2, <1>3 DEF UsageInv, FlushOK
<1>6. ASSUME NEW k \in Keys PROVE OrderOf(k)' /\ Found(k)' = Found(k) /\ Found(k) \in Nat
  <2>1. Found(k)' = Found(k)
    BY <1>1, <1>2, <1>3, NatUses DEF Found, Unflushed
  <2>2. LastUse(k)' = LastUse(k)
    BY <1>1, <1>2, <1>3, NatUses DEF LastUse
  <2>3. k \in UsedKeys => pending[k].last = served[k].last
    BY <1>3 DEF UsageInv, UsesInOrder, LastUse
  <2>4. OrderOf(k)'
    BY <1>1, <1>2, <2>2, <2>3, NatUses DEF OrderOf, UsageInv, UsesInOrder
  <2> QED BY <2>1, <2>4, NatUses
<1>7. faults' \in Nat
  BY <1>2, KeyAssumption DEF TypeOK
<1> QED BY <1>2, <1>4, <1>5, <1>6, <1>7, UsageMoves

LEMMA UsageEntry ==
  ASSUME TypeOK, UsageInv, NEW q \in Keys, FlushIncrement(q) \/ (FlushTouch /\ flush.key = q)
  PROVE  UsageInv'
<1> DEFINE touched == flush.pc = "touch"
           Added  == /\ ~touched /\ UNCHANGED faults
                     /\ keys' = [keys EXCEPT ![q] = [keys[q] EXCEPT !.total = keys[q].total + flush.batch[q].count]]
                     /\ flush' = [flush EXCEPT !.pc = "touch", !.key = q]
           Dated  == /\ touched /\ UNCHANGED faults
                     /\ keys' = [keys EXCEPT ![q] = [keys[q] EXCEPT !.last = flush.batch[q].last]]
                     /\ flush' = [flush EXCEPT !.pc = "next", !.left = flush.left \ {q}]
           Failed == /\ Failing /\ UNCHANGED keys
                     /\ flush' = [flush EXCEPT !.pc = "next", !.left = flush.left \ {q},
                                               !.failed = [flush.failed EXCEPT ![q] = flush.batch[q]]]
<1>1. /\ q \in flush.left /\ flush.pc \in {"next", "touch"} /\ (touched => flush.key = q)
      /\ Added \/ Dated \/ Failed
  BY FlushCases DEF UsageInv
<1>2. UNCHANGED <<clock, thread, pending, served, lost>>
  BY DEF FlushIncrement, FlushTouch, historyVars
<1>3. /\ flush \in Flush /\ keys \in [Keys -> Row] /\ keys[q] \in Row /\ faults \in Nat
      /\ flush.failed \in [Keys -> Use]
      /\ flush.batch[q].count > 0 /\ flush.failed[q].count = 0
  BY <1>1, KeyAssumption, SMTT(30) DEF TypeOK, Flush, UsageInv, FlushOK
<1>4. CASE Added
  <2>1. /\ flush'.pc = "touch" /\ flush'.key = q /\ flush'.left = flush.left
        /\ flush'.batch = flush.batch /\ flush'.failed = flush.failed
    BY <1>3, <1>4 DEF Flush
  <2>2. \A k \in Keys : /\ keys'[k].status = keys[k].status /\ keys'[k].last = keys[k].last
                       /\ keys'[k].total = keys[k].total + (IF k = q THEN flush.batch[k].count ELSE 0)
    <3>1. \A k \in Keys : keys[k] \in Row /\ keys[k].total \in Nat
      BY NatUses DEF TypeOK
    <3> QED BY <1>3, <1>4, <3>1 DEF Row
  <2>3. KeysExist'
    BY <1>1, <1>2, <2>1, <2>2, NatUses DEF UsageInv, KeysExist
  <2>4. FlushOK'
    BY <1>1, <1>2, <2>1 DEF UsageInv, FlushOK
  <2>5. ASSUME NEW k \in Keys PROVE OrderOf(k)' /\ Found(k)' = Found(k) /\ Found(k) \in Nat
    <3>1. flush.pc # "touch"
      BY <1>4
    <3>2. Found(k)' = Found(k)
      BY <1>1, <1>2, <2>1, <2>2, <3>1, NatUses DEF Found, Unflushed
    <3>3. LastUse(k)' = LastUse(k)
      BY <1>2, <2>1, <2>2 DEF LastUse
    <3>4. OrderOf(k)'
      BY <1>2, <2>1, <2>2, <3>3 DEF OrderOf, UsageInv, UsesInOrder
    <3> QED BY <3>2, <3>4, NatUses
  <2>6. faults' = faults
    BY <1>4
  <2> HIDE DEF touched, Added, Dated, Failed
  <2> QED BY <1>2, <1>3, <2>3, <2>4, <2>5, <2>6, UsageMoves
<1>5. CASE Dated
  <2>1. /\ flush'.pc = "next" /\ flush'.left = flush.left \ {q}
        /\ flush'.batch = flush.batch /\ flush'.failed = flush.failed
    BY <1>3, <1>5 DEF Flush
  <2>2. \A k \in Keys : /\ keys'[k].status = keys[k].status /\ keys'[k].total = keys[k].total
                       /\ keys'[k].last = IF k = q THEN flush.batch[k].last ELSE keys[k].last
    <3>1. \A k \in Keys : keys[k] \in Row
      BY DEF TypeOK
    <3> QED BY <1>3, <1>5, <3>1 DEF Row
  <2>3. KeysExist'
    BY <1>1, <1>2, <2>1, <2>2 DEF UsageInv, KeysExist
  <2>4. FlushOK'
    BY <1>1, <1>2, <2>1 DEF UsageInv, FlushOK
  <2>5. ASSUME NEW k \in Keys PROVE OrderOf(k)' /\ Found(k)' = Found(k) /\ Found(k) \in Nat
    <3>1. flush.pc = "touch" /\ flush.key = q
      BY <1>1, <1>5
    <3>2. Found(k)' = Found(k)
      BY <1>1, <1>2, <2>1, <2>2, <3>1, NatUses DEF Found, Unflushed
    <3>3. OrderOf(k)'
      <4>1. LastUse(k)' = LastUse(k)
        BY <1>1, <1>2, <1>3, <2>1, <2>2, NatUses DEF LastUse
      <4> QED BY <1>1, <1>2, <1>3, <2>1, <2>2, <4>1, NatUses DEF OrderOf, UsageInv, UsesInOrder
    <3> QED BY <3>2, <3>3, NatUses
  <2>6. faults' = faults
    BY <1>5
  <2> HIDE DEF touched, Added, Dated, Failed
  <2> QED BY <1>2, <1>3, <2>3, <2>4, <2>5, <2>6, UsageMoves
<1>6. CASE Failed
  <2>1. /\ flush'.pc = "next" /\ flush'.left = flush.left \ {q}
        /\ flush'.batch = flush.batch /\ keys' = keys
        /\ flush'.failed = [flush.failed EXCEPT ![q] = flush.batch[q]]
    BY <1>3, <1>6 DEF Flush
  <2>2. \A k \in Keys : flush'.failed[k] = IF k = q THEN flush.batch[k] ELSE flush.failed[k]
    BY <1>3, <2>1
  <2>3. KeysExist'
    BY <1>1, <1>2, <2>1, <2>2 DEF UsageInv, KeysExist
  <2>4. FlushOK'
    BY <1>1, <1>2, <1>3, <2>1, <2>2 DEF UsageInv, FlushOK
  <2>5. ASSUME NEW k \in Keys PROVE OrderOf(k)' /\ Found(k)' \in Nat /\ Found(k)' >= Found(k)
    <3>1. Found(k)' \in Nat /\ Found(k)' >= Found(k)
      BY <1>1, <1>2, <1>3, <2>1, <2>2, NatUses DEF Found, Unflushed
    <3>2. OrderOf(k)'
      <4>1. LastUse(k)' = LastUse(k)
        BY <1>1, <1>2, <1>3, <2>1, <2>2, NatUses DEF LastUse
      <4> QED BY <1>1, <1>2, <1>3, <2>1, <2>2, <4>1, NatUses DEF OrderOf, UsageInv, UsesInOrder
    <3> QED BY <3>1, <3>2
  <2>6. faults' = faults + 1
    BY <1>6 DEF Failing
  <2> HIDE DEF touched, Added, Dated, Failed
  <2> QED BY <1>2, <1>3, <2>3, <2>4, <2>5, <2>6, UsageMoves
<1> QED BY <1>1, <1>4, <1>5, <1>6

LEMMA UsageRestore ==
  ASSUME TypeOK, UsageInv, FlushRestore
  PROVE  UsageInv'
<1>1. /\ flush.left = {} /\ flush' = NoFlush /\ flush'.pc = "idle" /\ flush'.left = {}
      /\ \A k \in Keys : flush'.failed[k].count = 0 /\ flush'.failed[k].last = 0
      /\ UNCHANGED <<clock, keys, thread, faults, served, lost>>
  BY DEF FlushRestore, NoFlush, NoUse, Zero, historyVars
<1>2. \A k \in Keys :
        /\ pending'[k].count = pending[k].count + flush.failed[k].count
        /\ pending'[k].last = IF pending[k].last >= flush.failed[k].last
                              THEN pending[k].last ELSE flush.failed[k].last
  BY DEF FlushRestore, Restored
<1>3. KeysExist'
  BY <1>1, <1>2, NatUses DEF UsageInv, KeysExist
<1>4. FlushOK'
  BY <1>1, <1>2, NatUses DEF UsageInv, FlushOK
<1>5. ASSUME NEW k \in Keys PROVE OrderOf(k)' /\ Found(k)' = Found(k) /\ Found(k) \in Nat
  <2>0. /\ pending[k].count = 0 => pending[k].last = 0
        /\ flush.failed[k].count = 0 => flush.failed[k].last = 0
    BY DEF UsageInv, FlushOK
  <2>1. Found(k)' = Found(k)
    BY <1>1, <1>2, NatUses DEF Found, Unflushed
  <2>2. LastUse(k)' = LastUse(k)
    BY <1>1, <1>2, <2>0, NatUses DEF LastUse, UsageInv, UsesInOrder
  <2>3. OrderOf(k)'
    BY <1>1, <1>2, <2>2, NatUses DEF OrderOf, UsageInv, UsesInOrder
  <2> QED BY <2>1, <2>3, NatUses
<1>6. faults' \in Nat
  BY <1>1, KeyAssumption DEF TypeOK
<1> QED BY <1>1, <1>3, <1>4, <1>5, <1>6, UsageMoves

(* What the process had not flushed goes down with it, and is lost.        *)
LEMMA UsageGone ==
  ASSUME TypeOK, UsageInv, Gone, lost' = [k \in Keys |-> lost[k] + Unflushed(k)],
         clock' = clock, keys' = keys, faults' \in Nat, faults' = 0 => faults = 0
  PROVE  UsageInv'
<1>1. /\ flush' = NoFlush /\ flush'.pc = "idle" /\ flush'.left = {}
      /\ \A k \in Keys : /\ flush'.failed[k].count = 0 /\ flush'.failed[k].last = 0
                         /\ pending'[k].count = 0 /\ pending'[k].last = 0
      /\ \A t \in Threads : thread'[t].pc = "idle"
  BY DEF Gone, NoFlush, NoUse, Zero, Idle
<1>2. \A k \in Keys : /\ lost'[k] = lost[k] + Unflushed(k)
                     /\ served'[k].count = served[k].count /\ served'[k].last = keys[k].last
  BY BatchType DEF Gone, Use
<1>3. KeysExist' /\ FlushOK'
  BY <1>1 DEF UsageInv, KeysExist, FlushOK
<1>4. ASSUME NEW k \in Keys
      PROVE  /\ OrderOf(k)' /\ Found(k)' = Found(k)
             /\ Found(k) \in Nat /\ served[k].count \in Nat /\ served'[k].count = served[k].count
  <2>1. Found(k)' = Found(k)
    BY <1>1, <1>2, NatUses DEF Found, Unflushed
  <2>2. OrderOf(k)'
    BY <1>1, <1>2, NatUses DEF OrderOf, LastUse, UsageInv, UsesInOrder
  <2> QED BY <1>2, <2>1, <2>2, NatUses
<1>5. UsesInOrder'
  BY <1>4 DEF UsesInOrder, OrderOf
<1>6. UsageNeverLost' /\ UsageExact'
  BY <1>4 DEF UsageNeverLost, UsageExact, UsageInv, Found
<1> QED BY <1>3, <1>5, <1>6 DEF UsageInv

(* The administrators' steps leave the usage columns of a row.             *)
LEMMA UsageAdmins ==
  ASSUME TypeOK, UsageInv, \/ \E a \in Admins : AdminStart(a) \/ AdminStep(a)
                           \/ \E k \in Keys : CreateKey(k) \/ TabRevoke(k)
  PROVE  UsageInv'
<1>1. /\ UNCHANGED <<clock, thread, pending, flush, faults, served, lost>>
      /\ \A k \in Keys : keys[k] \in Row /\ clock \in Nat
  <2>1. UNCHANGED <<clock, thread, pending, flush, faults, served, lost>>
    <3>1. ASSUME NEW a \in Admins, AdminStart(a) \/ AdminStep(a)
          PROVE  UNCHANGED <<clock, thread, pending, flush, faults, served, lost>>
      BY <3>1 DEF AdminStep, AdminStart, AdminRevoke, AdminReset, AdminPatch, AdminCount, historyVars
    <3>2. ASSUME NEW k \in Keys, CreateKey(k) \/ TabRevoke(k)
          PROVE  UNCHANGED <<clock, thread, pending, flush, faults, served, lost>>
      BY <3>2 DEF CreateKey, TabRevoke, historyVars, ramVars
    <3> QED BY <3>1, <3>2
  <2> QED BY <2>1 DEF TypeOK
<1>2. ASSUME NEW k \in Keys, NEW s
      PROVE  /\ [keys[k] EXCEPT !.status = s].total = keys[k].total
             /\ [keys[k] EXCEPT !.status = s].last = keys[k].last
             /\ [keys[k] EXCEPT !.status = s].status = s
  BY <1>1 DEF Row
<1> DEFINE Same(k) == /\ keys'[k].total = keys[k].total /\ keys'[k].last = keys[k].last
                      /\ keys'[k].status = "none" => keys[k].status = "none"
<1>3. ASSUME NEW q \in Keys, keys' = RevokedRow(q), NEW k \in Keys PROVE Same(k)
  <2> DEFINE s == IF keys[q].status = "live" THEN "revoked" ELSE keys[q].status
  <2>1. s \in {"none", "live", "revoked"} /\ (s = "none" => keys[q].status = "none")
    BY <1>1 DEF Row
  <2>2. keys' = [keys EXCEPT ![q] = [keys[q] EXCEPT !.status = s]] /\ keys \in [Keys -> Row]
    BY <1>3 DEF RevokedRow, TypeOK
  <2> HIDE DEF s
  <2> QED BY <1>2, <2>1, <2>2
<1>4. ASSUME NEW k \in Keys PROVE Same(k)
  <2>0. keys \in [Keys -> Row] /\ \A a \in Admins : admin[a].key \in Keys
    BY DEF TypeOK, Admin
  <2>1. CASE \E a \in Admins : AdminStart(a) \/ AdminReset(a) \/ AdminCount(a)
    BY <2>1 DEF AdminStart, AdminReset, AdminCount, historyVars
  <2>2. CASE (\E a \in Admins : AdminRevoke(a)) \/ \E q \in Keys : TabRevoke(q)
    BY <1>3, <2>0, <2>2 DEF AdminRevoke, TabRevoke
  <2>3. ASSUME NEW a \in Admins, AdminPatch(a) PROVE Same(k)
    <3> DEFINE q == admin[a].key
    <3>1. q \in Keys
      BY <2>0
    <3>2. \/ \E full \in BOOLEAN : keys' = [keys EXCEPT ![q] = [keys[q] EXCEPT !.full = full]]
          \/ \E limit \in Limits : keys' = [keys EXCEPT ![q] = [keys[q] EXCEPT !.limit = limit]]
          \/ \E expires \in 1..MaxTime, aware \in BOOLEAN :
               keys' = [keys EXCEPT ![q] = [keys[q] EXCEPT !.expires = expires, !.aware = aware]]
      BY <2>0, <2>3, <3>1 DEF AdminPatch
    <3> HIDE DEF q
    <3>3. ASSUME NEW r, keys' = [keys EXCEPT ![q] = r], r.total = keys[q].total, r.last = keys[q].last,
                 r.status = keys[q].status
          PROVE  Same(k)
      BY <2>0, <3>1, <3>3
    <3>4. CASE \E full \in BOOLEAN : keys' = [keys EXCEPT ![q] = [keys[q] EXCEPT !.full = full]]
      <4>1. PICK full \in BOOLEAN : keys' = [keys EXCEPT ![q] = [keys[q] EXCEPT !.full = full]]
        BY <3>4
      <4>2. /\ [keys[q] EXCEPT !.full = full].total = keys[q].total
            /\ [keys[q] EXCEPT !.full = full].last = keys[q].last
            /\ [keys[q] EXCEPT !.full = full].status = keys[q].status
        BY <1>1, <3>1 DEF Row
      <4> QED BY <3>3, <4>1, <4>2
    <3>5. CASE \E limit \in Limits : keys' = [keys EXCEPT ![q] = [keys[q] EXCEPT !.limit = limit]]
      <4>1. PICK limit \in Limits : keys' = [keys EXCEPT ![q] = [keys[q] EXCEPT !.limit = limit]]
        BY <3>5
      <4>2. /\ [keys[q] EXCEPT !.limit = limit].total = keys[q].total
            /\ [keys[q] EXCEPT !.limit = limit].last = keys[q].last
            /\ [keys[q] EXCEPT !.limit = limit].status = keys[q].status
        BY <1>1, <3>1 DEF Row
      <4> QED BY <3>3, <4>1, <4>2
    <3>6. CASE \E expires \in 1..MaxTime, aware \in BOOLEAN :
                 keys' = [keys EXCEPT ![q] = [keys[q] EXCEPT !.expires = expires, !.aware = aware]]
      <4>1. PICK expires \in 1..MaxTime, aware \in BOOLEAN :
               keys' = [keys EXCEPT ![q] = [keys[q] EXCEPT !.expires = expires, !.aware = aware]]
        BY <3>6
      <4>2. /\ [keys[q] EXCEPT !.expires = expires, !.aware = aware].total = keys[q].total
            /\ [keys[q] EXCEPT !.expires = expires, !.aware = aware].last = keys[q].last
            /\ [keys[q] EXCEPT !.expires = expires, !.aware = aware].status = keys[q].status
        BY <1>1, <3>1 DEF Row
      <4> QED BY <3>3, <4>1, <4>2
    <3> QED BY <3>2, <3>4, <3>5, <3>6
  <2>4. ASSUME NEW q \in Keys, CreateKey(q) PROVE Same(k)
    <3>1. PICK full \in BOOLEAN, limit \in Limits, expires \in {Never} \cup (clock + 1)..MaxTime :
             keys' = [keys EXCEPT ![q] = NewKey(full, limit, expires)]
      BY <2>4 DEF CreateKey
    <3>2. /\ NewKey(full, limit, expires).total = 0 /\ NewKey(full, limit, expires).last = 0
          /\ NewKey(full, limit, expires).status = "live"
      BY DEF NewKey
    <3>3. keys[q].total = 0 /\ keys[q].last = 0
      BY <2>4 DEF CreateKey, UsageInv, KeysExist
    <3> QED BY <2>0, <3>1, <3>2, <3>3
  <2> HIDE DEF Same
  <2>5. ASSUME NEW a \in Admins, AdminStart(a) \/ AdminStep(a) PROVE Same(k)
    BY <2>1, <2>2, <2>3, <2>5 DEF AdminStep
  <2>6. ASSUME NEW q \in Keys, CreateKey(q) \/ TabRevoke(q) PROVE Same(k)
    BY <2>2, <2>4, <2>6
  <2> QED BY <2>5, <2>6
<1>5. clock' \in Nat /\ clock <= clock'
  BY <1>1 DEF TypeOK
<1> QED BY <1>1, <1>4, <1>5, UsageStays

LEMMA UsageStep ==
  ASSUME TypeOK, UsageInv, Next
  PROVE  UsageInv'
<1>0. clock \in Nat /\ faults \in Nat
  BY KeyAssumption DEF TypeOK
<1>1. CASE Tick
  BY <1>0, <1>1, UsageStays DEF Tick, ramVars
<1>2. ASSUME NEW t \in Threads, NEW k \in Keys, LookUp(t, k) PROVE UsageInv'
  <2>1. \A u \in Threads : thread'[u] = thread[u] \/ (u = t /\ thread'[u].key = k)
    BY <1>2 DEF LookUp, Step, TypeOK
  <2>2. keys' = keys /\ keys[k].status # "none" /\ UNCHANGED <<pending, flush, served, lost, faults, clock>>
    BY <1>2 DEF LookUp, Usable, historyVars
  <2> QED BY <1>0, <2>1, <2>2, UsageStays
<1>3. ASSUME NEW t \in Threads, ReadClock(t) PROVE UsageInv'
  <2>1. \A u \in Threads : thread'[u].pc # "idle" => thread[u].pc # "idle" /\ thread'[u].key = thread[u].key
    BY <1>3 DEF ReadClock, Step, TypeOK, Thread
  <2>2. UNCHANGED <<keys, pending, flush, served, lost, faults, clock>>
    BY <1>3 DEF ReadClock, historyVars
  <2> QED BY <1>0, <2>1, <2>2, UsageStays
<1>4. ASSUME NEW t \in Threads, CheckLimit(t) PROVE UsageInv'
  <2>1. /\ thread' = [thread EXCEPT ![t] = Idle] \/ thread' = [thread EXCEPT ![t] = [thread[t] EXCEPT !.pc = "record"]]
        /\ thread[t].pc # "idle" /\ Idle.pc = "idle" /\ thread[t] \in Thread /\ thread \in [Threads -> Thread]
    BY <1>4 DEF CheckLimit, Step, Idle, TypeOK
  <2>2. \A u \in Threads : thread'[u].pc # "idle" => thread[u].pc # "idle" /\ thread'[u].key = thread[u].key
    BY <2>1 DEF Thread
  <2>3. UNCHANGED <<keys, pending, flush, served, lost, faults, clock>>
    BY <1>4 DEF CheckLimit
  <2> QED BY <1>0, <2>2, <2>3, UsageStays
<1>5. CASE ShutDown
  BY <1>0, <1>5, UsageGone DEF ShutDown
<1>6. CASE Crash
  BY <1>0, <1>6, UsageGone DEF Crash, Failing
<1>7. CASE Boot
  BY <1>0, <1>7, UsageStays DEF Boot, ramVars, historyVars
<1>8. CASE (\E k \in Keys : FlushIncrement(k)) \/ FlushTouch
  <2>1. flush.key \in Keys
    BY DEF TypeOK, Flush
  <2> QED BY <1>8, <2>1, UsageEntry
<1> QED BY <1>1, <1>2, <1>3, <1>4, <1>5, <1>6, <1>7, <1>8, UsageRecord, UsageTake, UsageRestore, UsageAdmins
        DEF Next, ThreadStep

-----------------------------------------------------------------------------
(***************************************************************************)
(* The rate limit: the window of a key against the requests really let in. *)
(***************************************************************************)
LEMMA EntriesOf ==
  ASSUME NEW S, NEW s \in Seq(S)
  PROVE  Len(s) \in Nat /\ \A i \in 1..Len(s) : s[i] \in S
OBVIOUS

LEMMA WindowTypes ==
  ASSUME TypeOK, NEW k \in Keys
  PROVE  /\ window[k] \in Seq(1..MaxTime) /\ admitted[k] \in Seq(1..MaxTime)
         /\ Len(window[k]) \in Nat /\ Len(admitted[k]) \in Nat
         /\ \A i \in 1..Len(window[k]) : window[k][i] \in Nat
         /\ \A i \in 1..Len(admitted[k]) : admitted[k][i] \in Nat
         /\ clock \in Nat /\ MaxDelay \in Nat /\ Window \in Nat
<1>1. window[k] \in Seq(1..MaxTime) /\ admitted[k] \in Seq(1..MaxTime) /\ clock \in Nat
  BY DEF TypeOK
<1>2. ASSUME NEW s \in Seq(1..MaxTime)
      PROVE  Len(s) \in Nat /\ \A i \in 1..Len(s) : s[i] \in Nat
  <2>1. Len(s) \in Nat /\ \A i \in 1..Len(s) : s[i] \in 1..MaxTime
    BY EntriesOf, Zenon
  <2>2. \A x \in 1..MaxTime : x \in Nat
    OBVIOUS
  <2> QED BY <2>1, <2>2, Zenon
<1> QED BY <1>1, <1>2, KeyAssumption

LEMMA WindowInit == Init => WindowInv
<1> SUFFICES ASSUME Init PROVE WindowInv OBVIOUS
<1>1. \A k \in Keys : window[k] = <<>> /\ admitted[k] = <<>>
  BY DEF Init
<1>2. \A t \in Threads : thread[t].pc = "idle"
  BY DEF Init, Idle
<1>3. ASSUME NEW k \in Keys PROVE WindowOf(k)
  <2>1. Len(admitted[k]) = 0 /\ Len(window[k]) = 0
    BY <1>1
  <2> QED BY <2>1 DEF WindowOf
<1> QED BY <1>2, <1>3 DEF WindowInv, ClockRead

(* Time passes: what left the window only gets older.                      *)
LEMMA WindowStays ==
  ASSUME TypeOK, WindowInv, clock' \in Nat, clock <= clock', ClockRead', NEW S \in SUBSET Keys,
         \A k \in S : window'[k] = window[k] /\ admitted'[k] = admitted[k],
         \A k \in Keys \ S : WindowOf(k)'
  PROVE  WindowInv'
<1>1. ASSUME NEW k \in S PROVE WindowOf(k)'
  <2> DEFINE gone == Len(admitted[k]) - Len(window[k])
  <2>1. /\ gone \in Nat
        /\ \A i \in 1..gone : admitted[k][i] + Window < clock + MaxDelay
        /\ \A i \in 1..Len(window[k]) :
             window[k][i] <= admitted[k][i + gone] /\ admitted[k][i + gone] <= window[k][i] + MaxDelay
    BY DEF WindowInv, WindowOf
  <2>2. \A i \in 1..gone : admitted[k][i] \in Nat
    BY <2>1, WindowTypes
  <2>3. \A i \in 1..gone : admitted[k][i] + Window < clock' + MaxDelay
    BY <2>1, <2>2, WindowTypes
  <2>4. window'[k] = window[k] /\ admitted'[k] = admitted[k]
    OBVIOUS
  <2> QED BY <2>1, <2>3, <2>4 DEF WindowOf
<1> QED BY <1>1 DEF WindowInv

(* What the limiter drops was let in more than a window ago, as far as     *)
(* anyone can tell with clocks read before the lock.                       *)
LEMMA WindowAfter ==
  ASSUME TypeOK, WindowInv, NEW t \in Threads, thread[t].pc = "timed", NEW k \in Keys,
         NEW d \in 0..Len(window[k]), NEW w \in Seq(1..MaxTime), Len(w) = Len(window[k]) - d,
         \A i \in 1..d : window[k][i] + Window < thread[t].now,
         \A i \in 1..Len(w) : w[i] = window[k][i + d]
  PROVE  LET gone == Len(admitted[k]) - Len(w) IN
         /\ gone \in Nat
         /\ \A i \in 1..gone : admitted[k][i] + Window < clock + MaxDelay
         /\ \A i \in 1..Len(w) : w[i] <= admitted[k][i + gone] /\ admitted[k][i + gone] <= w[i] + MaxDelay
<1> DEFINE A == admitted[k]
           V == window[k]
           n == Len(A)
           m == Len(V)
           l == Len(w)
           tick == thread[t].now
           old == n - m
           gone == n - l
<1>1. /\ old \in Nat
      /\ \A i \in 1..old : A[i] + Window < clock + MaxDelay
      /\ \A i \in 1..m : V[i] <= A[i + old] /\ A[i + old] <= V[i] + MaxDelay
  BY DEF WindowInv, WindowOf
<1>2. /\ n \in Nat /\ m \in Nat /\ clock \in Nat /\ MaxDelay \in Nat /\ Window \in Nat
      /\ (\A i \in 1..m : V[i] \in Nat) /\ (\A i \in 1..n : A[i] \in Nat)
  BY WindowTypes
<1>3. tick \in 1..clock
  BY DEF WindowInv, ClockRead
<1>4. /\ l = m - d /\ d \in 0..m
      /\ \A i \in 1..d : V[i] + Window < tick
      /\ \A i \in 1..l : w[i] = V[i + d]
  OBVIOUS
<1> HIDE DEF A, V, n, m, l, tick
<1>5. gone = old + d /\ gone \in Nat /\ l \in Nat /\ d \in Nat /\ tick \in Nat /\ tick <= clock
  BY <1>1, <1>2, <1>3, <1>4
<1>6. ASSUME NEW i \in 1..gone PROVE A[i] + Window < clock + MaxDelay
  <2>1. CASE i <= old
    <3>1. i \in 1..old
      BY <1>1, <1>5, <2>1
    <3> QED BY <1>1, <3>1
  <2>2. CASE i > old
    <3> DEFINE j == i - old
    <3>1. j \in 1..d /\ i = j + old
      BY <1>1, <1>5, <2>2
    <3>2. j \in 1..m /\ i \in 1..n
      BY <1>1, <1>2, <1>4, <1>5, <3>1
    <3>3. V[j] + Window < tick /\ A[i] <= V[j] + MaxDelay /\ V[j] \in Nat /\ A[i] \in Nat
      BY <1>1, <1>2, <1>4, <3>1, <3>2
    <3> QED BY <1>2, <1>5, <3>3
  <2> QED BY <1>1, <1>5, <2>1, <2>2
<1>7. ASSUME NEW i \in 1..l PROVE w[i] <= A[i + gone] /\ A[i + gone] <= w[i] + MaxDelay
  <2>1. i + d \in 1..m /\ (i + d) + old = i + gone
    BY <1>1, <1>2, <1>4, <1>5
  <2>2. w[i] = V[i + d]
    BY <1>4
  <2> QED BY <1>1, <2>1, <2>2
<1> QED BY <1>5, <1>6, <1>7 DEF A, V, n, m, l, tick

LEMMA WindowLimit ==
  ASSUME TypeOK, WindowInv, NEW t \in Threads, CheckLimit(t)
  PROVE  WindowInv'
<1>k. PICK k \in Keys : k = thread[t].key
  BY DEF TypeOK, Thread
<1>0. /\ k \in Keys /\ thread[t].pc = "timed" /\ clock' = clock
      /\ thread[t].now \in Nat /\ thread[t].now <= clock /\ clock <= thread[t].now + MaxDelay
  <2>1. k \in Keys /\ thread[t].pc = "timed" /\ clock' = clock
    BY DEF CheckLimit
  <2> QED BY <2>1, WindowTypes DEF WindowInv, ClockRead
<1>1. PICK d \in 0..Len(window[k]), w \in Seq(1..MaxTime) :
           /\ Len(w) = Len(window[k]) - d
           /\ \A i \in 1..d : window[k][i] + Window < thread[t].now
           /\ \A i \in 1..Len(w) : w[i] = window[k][i + d]
           /\ \/ /\ window' = [window EXCEPT ![k] = w]
                 /\ thread' = [thread EXCEPT ![t] = Idle]
                 /\ admitted' = admitted
              \/ /\ Len(w) < thread[t].limit
                 /\ window' = [window EXCEPT ![k] = Append(w, thread[t].now)]
                 /\ thread' = [thread EXCEPT ![t] = [thread[t] EXCEPT !.pc = "record"]]
                 /\ admitted' = [admitted EXCEPT ![k] = Append(admitted[k], clock)]
  BY <1>k, LimitCases, ZenonT(30) DEF WindowInv
<1> DEFINE gone == Len(admitted[k]) - Len(w)
<1>2. /\ gone \in Nat
      /\ \A i \in 1..gone : admitted[k][i] + Window < clock + MaxDelay
      /\ \A i \in 1..Len(w) : w[i] <= admitted[k][i + gone] /\ admitted[k][i + gone] <= w[i] + MaxDelay
  BY <1>0, <1>1, WindowAfter
<1>3. ClockRead'
  <2>1. \A u \in Threads : thread'[u].pc = "timed" => thread'[u] = thread[u]
    <3>1. thread \in [Threads -> Thread] /\ Idle.pc # "timed" /\ [thread[t] EXCEPT !.pc = "record"].pc # "timed"
      BY DEF TypeOK, Idle, Thread
    <3> QED BY <1>1, <3>1
  <2> QED BY <1>0, <2>1 DEF ClockRead, WindowInv
<1>4. WindowOf(k)'
  <2>1. CASE window' = [window EXCEPT ![k] = w] /\ admitted' = admitted
    <3>1. window'[k] = w /\ admitted'[k] = admitted[k]
      BY <1>0, <2>1 DEF TypeOK
    <3> QED BY <1>0, <1>2, <3>1 DEF WindowOf
  <2>2. CASE /\ window' = [window EXCEPT ![k] = Append(w, thread[t].now)]
             /\ admitted' = [admitted EXCEPT ![k] = Append(admitted[k], clock)]
    <3> DEFINE A == admitted[k]
               n == Len(A)
               l == Len(w)
               tick == thread[t].now
               v == Append(w, tick)
               a == Append(A, clock)
    <3>1. window'[k] = v /\ admitted'[k] = a
      BY <1>0, <2>2 DEF TypeOK
    <3>2. /\ gone = n - l /\ l \in Nat /\ n \in Nat
          /\ tick \in Nat /\ tick <= clock /\ clock <= tick + MaxDelay /\ clock' = clock
      BY <1>0, WindowTypes
    <3>3. Len(v) = l + 1 /\ v[l + 1] = tick /\ \A i \in 1..l : v[i] = w[i]
      OBVIOUS
    <3>4. Len(a) = n + 1 /\ a[n + 1] = clock /\ \A i \in 1..n : a[i] = A[i]
      <4>1. A \in Seq(1..MaxTime)
        BY <1>0, WindowTypes
      <4> HIDE DEF A
      <4> QED BY <4>1
    <3>5. /\ gone \in Nat
          /\ \A i \in 1..gone : A[i] + Window < clock + MaxDelay
          /\ \A i \in 1..l : w[i] <= A[i + gone] /\ A[i + gone] <= w[i] + MaxDelay
      BY <1>2
    <3> HIDE DEF v, a, gone, n, l, tick, A
    <3>6. Len(a) - Len(v) = gone
      BY <3>2, <3>3, <3>4
    <3>7. \A i \in 1..gone : a[i] + Window < clock + MaxDelay
      <4>1. \A i \in 1..gone : i \in 1..n
        BY <3>2, <3>5
      <4> QED BY <3>4, <3>5, <4>1
    <3>8. ASSUME NEW i \in 1..Len(v)
          PROVE  v[i] <= a[i + gone] /\ a[i + gone] <= v[i] + MaxDelay
      <4>1. CASE i = l + 1
        <5>1. i + gone = n + 1
          BY <3>2, <4>1
        <5> QED BY <3>2, <3>3, <3>4, <4>1, <5>1, WindowTypes
      <4>2. CASE i # l + 1
        <5>1. i \in 1..l /\ i + gone \in 1..n
          BY <3>2, <3>3, <3>5, <4>2
        <5> QED BY <3>3, <3>4, <3>5, <5>1
      <4> QED BY <4>1, <4>2
    <3> QED BY <3>1, <3>2, <3>5, <3>6, <3>7, <3>8 DEF WindowOf
  <2> QED BY <1>1, <2>1, <2>2
<1>5. \A q \in Keys \ {k} : window'[q] = window[q] /\ admitted'[q] = admitted[q]
  BY <1>0, <1>1 DEF TypeOK
<1>6. Keys \ {k} \in SUBSET Keys /\ clock' \in Nat /\ clock <= clock'
  BY <1>0, WindowTypes
<1> QED BY <1>3, <1>4, <1>5, <1>6, WindowStays

LEMMA WindowEmpty ==
  ASSUME NEW k \in Keys, window'[k] = <<>>, admitted'[k] = <<>>
  PROVE  WindowOf(k)'
<1>1. Len(admitted'[k]) = 0 /\ Len(window'[k]) = 0
  OBVIOUS
<1> QED BY <1>1 DEF WindowOf

LEMMA WindowGone ==
  ASSUME Gone
  PROVE  WindowInv'
<1>1. \A t \in Threads : thread'[t].pc # "timed"
  BY DEF Gone, Idle
<1>2. \A k \in Keys : window'[k] = <<>> /\ admitted'[k] = <<>>
  BY DEF Gone
<1>3. \A k \in Keys : WindowOf(k)'
  BY <1>2, WindowEmpty
<1> QED BY <1>1, <1>3 DEF WindowInv, ClockRead

(* What every step but the limiter's, a reset and an end of the process    *)
(* leaves of the windows.                                                  *)
LEMMA WindowUnchanged ==
  ASSUME TypeOK, WindowInv, UNCHANGED <<window, admitted>>, clock' \in Nat, clock <= clock', ClockRead'
  PROVE  WindowInv'
<1>1. Keys \in SUBSET Keys /\ \A k \in Keys \ Keys : WindowOf(k)'
  OBVIOUS
<1> QED BY <1>1, WindowStays

LEMMA WindowStep ==
  ASSUME TypeOK, WindowInv, Next
  PROVE  WindowInv'
<1>0. /\ clock \in Nat /\ clock >= 1 /\ MaxDelay \in Nat /\ thread \in [Threads -> Thread]
      /\ \A t \in Threads : thread[t].pc = "timed" =>
           thread[t].now \in Nat /\ thread[t].now \in 1..clock /\ clock <= thread[t].now + MaxDelay
  BY KeyAssumption DEF TypeOK, WindowInv, ClockRead
<1>1. CASE Tick
  <2>1. clock' = clock + 1 /\ UNCHANGED <<window, admitted, thread>>
    BY <1>1 DEF Tick, ramVars
  <2>2. ASSUME NEW t \in Threads, thread[t].pc = "timed"
        PROVE  thread[t].now \in 1..(clock + 1) /\ clock + 1 <= thread[t].now + MaxDelay
    <3>1. clock < thread[t].now + MaxDelay
      BY <1>1, <2>2 DEF Tick
    <3> QED BY <1>0, <2>2, <3>1
  <2>3. ClockRead'
    BY <2>1, <2>2 DEF ClockRead
  <2> QED BY <1>0, <2>1, <2>3, WindowUnchanged
<1>2. ASSUME NEW t \in Threads, UNCHANGED <<clock, window, admitted>>,
             \A u \in Threads : u # t => thread'[u] = thread[u],
             thread'[t].pc = "timed" => thread'[t].now = clock
      PROVE  WindowInv'
  <2>1. ClockRead'
    BY <1>0, <1>2 DEF ClockRead
  <2> QED BY <1>0, <1>2, <2>1, WindowUnchanged
<1>3. ASSUME NEW t \in Threads, (\E k \in Keys : LookUp(t, k)) \/ ReadClock(t) \/ Record(t)
      PROVE  WindowInv'
  <2>1. CASE \E k \in Keys : LookUp(t, k)
    <3>1. PICK k \in Keys : LookUp(t, k)
      BY <2>1
    <3>2. thread' = [thread EXCEPT ![t] = [pc |-> IF keys[k].limit = 0 THEN "record" ELSE "limit",
                                           key |-> k, limit |-> keys[k].limit, now |-> 0]]
      BY <3>1 DEF LookUp, Step
    <3>3. thread'[t].pc # "timed" /\ \A u \in Threads : u # t => thread'[u] = thread[u]
      BY <1>0, <3>2
    <3>4. UNCHANGED <<clock, window, admitted>>
      BY <3>1 DEF LookUp, historyVars
    <3> QED BY <1>2, <3>3, <3>4
  <2>2. CASE ReadClock(t)
    <3>1. thread' = [thread EXCEPT ![t] = [thread[t] EXCEPT !.pc = "timed", !.now = clock]]
      BY <2>2 DEF ReadClock, Step
    <3>2. thread'[t].now = clock /\ \A u \in Threads : u # t => thread'[u] = thread[u]
      BY <1>0, <3>1 DEF Thread
    <3>3. UNCHANGED <<clock, window, admitted>>
      BY <2>2 DEF ReadClock, historyVars
    <3> QED BY <1>2, <3>2, <3>3
  <2>3. CASE Record(t)
    <3>1. thread'[t].pc # "timed" /\ \A u \in Threads : u # t => thread'[u] = thread[u]
      BY <1>0, <2>3 DEF Record, Step, Idle
    <3>2. UNCHANGED <<clock, window, admitted>>
      BY <2>3 DEF Record
    <3> QED BY <1>2, <3>1, <3>2
  <2> QED BY <1>3, <2>1, <2>2, <2>3
<1>4. ASSUME UNCHANGED <<clock, window, admitted, thread>>
      PROVE  WindowInv'
  <2>1. ClockRead'
    BY <1>4 DEF ClockRead, WindowInv
  <2> QED BY <1>0, <1>4, <2>1, WindowUnchanged
<1>5. CASE \/ \E stopping \in BOOLEAN : FlushTake(stopping)
           \/ \E k \in Keys : FlushIncrement(k)
           \/ FlushTouch \/ FlushRestore \/ Boot
  BY <1>4, <1>5 DEF FlushTake, FlushIncrement, FlushTouch, FlushRestore, Boot, ramVars, historyVars
<1>6. CASE ShutDown \/ Crash
  BY <1>6, WindowGone DEF ShutDown, Crash
<1>7. ASSUME NEW a \in Admins, AdminReset(a) PROVE WindowInv'
  <2>1. PICK k \in Keys : k = admin[a].key
    BY DEF TypeOK, Admin
  <2>2. /\ window' = [window EXCEPT ![k] = <<>>] /\ admitted' = [admitted EXCEPT ![k] = <<>>]
        /\ UNCHANGED <<clock, thread>>
    BY <1>7, <2>1 DEF AdminReset
  <2>3. window'[k] = <<>> /\ admitted'[k] = <<>>
    BY <2>2 DEF TypeOK
  <2>4. \A q \in Keys \ {k} : window'[q] = window[q] /\ admitted'[q] = admitted[q]
    BY <2>2 DEF TypeOK
  <2>5. WindowOf(k)'
    BY <2>3, WindowEmpty
  <2>6. ClockRead' /\ clock' \in Nat /\ clock <= clock' /\ Keys \ {k} \in SUBSET Keys
    BY <1>0, <2>2 DEF ClockRead, WindowInv
  <2>7. \A q \in Keys \ (Keys \ {k}) : WindowOf(q)'
    BY <2>5
  <2> QED BY <2>4, <2>6, <2>7, WindowStays
<1>8. ASSUME NEW a \in Admins, AdminStart(a) \/ AdminRevoke(a) \/ AdminPatch(a) \/ AdminCount(a)
      PROVE  WindowInv'
  BY <1>4, <1>8 DEF AdminStart, AdminRevoke, AdminPatch, AdminCount, historyVars
<1>9. ASSUME NEW k \in Keys, CreateKey(k) \/ TabRevoke(k) PROVE WindowInv'
  BY <1>4, <1>9 DEF CreateKey, TabRevoke, ramVars, historyVars
<1> QED BY <1>1, <1>3, <1>5, <1>6, <1>7, <1>8, <1>9, WindowLimit DEF Next, ThreadStep, AdminStep

(* What the step of the limiter shows of the requests let in.              *)
LEMMA LimitStep ==
  ASSUME TypeOK, WindowInv, NEW t \in Threads, CheckLimit(t), thread'[t].pc = "record",
         NEW k \in Keys, k = thread[t].key
  PROVE  Cardinality({i \in 1..Len(admitted[k]) : admitted[k][i] + Window >= clock + MaxDelay})
           < thread[t].limit
<1>1. PICK d \in 0..Len(window[k]), w \in Seq(1..MaxTime) :
           /\ Len(w) = Len(window[k]) - d
           /\ \A i \in 1..d : window[k][i] + Window < thread[t].now
           /\ \A i \in 1..Len(w) : w[i] = window[k][i + d]
           /\ \/ thread' = [thread EXCEPT ![t] = Idle]
              \/ Len(w) < thread[t].limit
  BY LimitCases DEF WindowInv
<1> DEFINE gone == Len(admitted[k]) - Len(w)
           n == Len(admitted[k])
           A == admitted[k]
           recent == {i \in 1..n : A[i] + Window >= clock + MaxDelay}
<1>2. thread[t].pc = "timed" /\ Len(w) < thread[t].limit /\ thread[t].limit \in Nat
  <2>1. thread \in [Threads -> Thread] /\ thread[t].pc = "timed"
    BY DEF TypeOK, CheckLimit
  <2>2. thread[t].limit \in Nat
    <3>1. thread[t].limit \in Limits \cup {0}
      BY <2>1 DEF Thread
    <3>2. \A x \in Limits \cup {0} : x \in Nat
      BY KeyAssumption
    <3> QED BY <3>1, <3>2
  <2>3. thread' # [thread EXCEPT ![t] = Idle]
    BY <2>1 DEF Idle
  <2>4. Len(w) < thread[t].limit
    BY <1>1, <2>3, Zenon
  <2> QED BY <2>1, <2>2, <2>4
<1>3. gone \in Nat /\ \A i \in 1..gone : A[i] + Window < clock + MaxDelay
  BY <1>1, <1>2, WindowAfter
<1>4. /\ n \in Nat /\ Len(w) \in Nat /\ gone = n - Len(w)
      /\ clock \in Nat /\ MaxDelay \in Nat /\ Window \in Nat /\ \A i \in 1..n : A[i] \in Nat
  BY WindowTypes
<1> HIDE DEF gone, n, A
<1>5. recent \subseteq (gone + 1)..n
  <2> SUFFICES ASSUME NEW i \in recent PROVE i \in (gone + 1)..n OBVIOUS
  <2>1. i \in 1..n /\ A[i] \in Nat /\ ~(A[i] + Window < clock + MaxDelay)
    BY <1>4
  <2>2. i \notin 1..gone
    BY <1>3, <2>1
  <2> QED BY <1>3, <1>4, <2>1, <2>2
<1> HIDE DEF recent
<1>6. IsFiniteSet((gone + 1)..n) /\ Cardinality((gone + 1)..n) = Len(w)
  <2>1. gone + 1 \in Int /\ n \in Int
    BY <1>3, <1>4
  <2>2. IsFiniteSet((gone + 1)..n)
        /\ Cardinality((gone + 1)..n) = IF gone + 1 > n THEN 0 ELSE n - (gone + 1) + 1
    BY <2>1, FS_Interval
  <2> HIDE DEF gone, n
  <2>3. (IF gone + 1 > n THEN 0 ELSE n - (gone + 1) + 1) = Len(w)
    BY <1>3, <1>4
  <2> QED BY <2>2, <2>3
<1>7. Cardinality(recent) \in Nat /\ Cardinality(recent) <= Len(w)
  BY <1>5, <1>6, FS_Subset, FS_CardinalityType, ZenonT(30)
<1>8. Cardinality(recent) < thread[t].limit
  BY <1>2, <1>4, <1>7
<1> QED BY <1>8 DEF recent, n, A

LEMMA RateStep ==
  ASSUME TypeOK, WindowInv, [Next]_vars, NEW t \in Threads, NEW k \in Keys, k = thread[t].key,
         admitted'[k] # admitted[k], thread'[t].pc = "record", thread[t].pc = "timed"
  PROVE  Cardinality({i \in 1..Len(admitted[k]) : admitted[k][i] + Window >= clock + MaxDelay})
           < thread[t].limit
<1>1. thread \in [Threads -> Thread] /\ Idle.pc = "idle"
  BY DEF TypeOK, Idle
<1>2. thread' # thread /\ Next
  BY DEF vars, ramVars
<1>3. \A u \in Threads : u # t => ~(ThreadStep(u) \/ \E q \in Keys : LookUp(u, q))
  <2> SUFFICES ASSUME NEW u \in Threads, u # t, ThreadStep(u) \/ \E q \in Keys : LookUp(u, q)
               PROVE  thread'[t] = thread[t]
    OBVIOUS
  <2> QED BY <1>1 DEF ThreadStep, ReadClock, CheckLimit, Record, LookUp, Step
<1>4. ~Gone
  BY <1>1 DEF Gone
<1>5. \E u \in Threads : ThreadStep(u) \/ \E q \in Keys : LookUp(u, q)
  <2>1. \A stopping \in BOOLEAN : FlushTake(stopping) => thread' = thread
    BY DEF FlushTake
  <2>2. /\ \A q \in Keys : FlushIncrement(q) => thread' = thread
        /\ (Tick \/ FlushTouch \/ FlushRestore \/ Boot => thread' = thread)
    BY DEF Tick, FlushIncrement, FlushTouch, FlushRestore, Boot, ramVars
  <2>3. \A a \in Admins : AdminStart(a) \/ AdminStep(a) => thread' = thread
    BY DEF AdminStart, AdminStep, AdminRevoke, AdminReset, AdminPatch, AdminCount
  <2>4. \A q \in Keys : CreateKey(q) \/ TabRevoke(q) => thread' = thread
    BY DEF CreateKey, TabRevoke, ramVars
  <2> QED BY <1>2, <1>4, <2>1, <2>2, <2>3, <2>4 DEF Next, ShutDown, Crash
<1>6. ThreadStep(t) \/ \E q \in Keys : LookUp(t, q)
  BY <1>3, <1>5
<1>7. CheckLimit(t)
  BY <1>1, <1>6 DEF ThreadStep, ReadClock, Record, LookUp, historyVars
<1> QED BY <1>7, LimitStep

-----------------------------------------------------------------------------
(***************************************************************************)
(* The warning: who took away the last source of full scope, and who says. *)
(***************************************************************************)
LEMMA WarningStays ==
  ASSUME WarningDue, admin' = admin,
         LockedOut' /\ culprit' = "admin" /\ NoOffsets' => LockedOut /\ culprit = "admin" /\ NoOffsets
  PROVE  WarningDue'
BY DEF WarningDue, NoOffsets

LEMMA WarningOther ==
  ASSUME WarningDue, admin' = admin, BlameOther, NoOffsets' => NoOffsets
  PROVE  WarningDue'
BY WarningStays DEF BlameOther

LEMMA WarningAdmin ==
  ASSUME TypeOK, WarningDue, NEW a \in Admins, NEW pc \in {"reset", "count"},
         admin[a].pc \in {"revoke", "patch"}, admin' = [admin EXCEPT ![a] = [admin[a] EXCEPT !.pc = pc]],
         BlameAdmin
  PROVE  WarningDue'
<1>1. admin \in [Admins -> Admin] /\ admin[a] \in Admin
  BY DEF TypeOK
<1>2. ~admin[a].warned
  BY DEF WarningDue
<1>3. admin'[a].pc = pc /\ admin'[a].warned = admin[a].warned /\ \A b \in Admins : b # a => admin'[b] = admin[b]
  BY <1>1 DEF Admin
<1>4. \A b \in Admins : admin'[b].warned => admin'[b].pc = "done"
  BY <1>2, <1>3 DEF WarningDue
<1>5. \E b \in Admins : admin'[b].pc \in {"reset", "count"} \/ admin'[b].warned
  BY <1>3
<1> QED BY <1>4, <1>5 DEF WarningDue

LEMMA WarningStep ==
  ASSUME TypeOK, WarningDue, Next
  PROVE  WarningDue'
<1>0. admin \in [Admins -> Admin] /\ keys \in [Keys -> Row] /\ clock \in Nat
  BY DEF TypeOK
<1>1. ASSUME admin' = admin, keys' = keys, clock' = clock, culprit' = culprit
      PROVE  WarningDue'
  BY <1>1, WarningStays DEF LockedOut, FullKeys, Counted, NoOffsets
<1>2. CASE Tick \/ \E k \in Keys : TabRevoke(k)
  <2>1. CASE Tick
    BY <2>1, WarningOther DEF Tick, ramVars, NoOffsets
  <2>2. ASSUME NEW k \in Keys, TabRevoke(k) PROVE WarningDue'
    <3> DEFINE r == [keys[k] EXCEPT !.status = IF keys[k].status = "live" THEN "revoked" ELSE keys[k].status]
    <3>1. keys' = [keys EXCEPT ![k] = r]
      BY <1>0, <2>2 DEF TabRevoke, RevokedRow
    <3>2. r.aware = keys[k].aware /\ (keys[k].status # "none" => r.status # "none")
      BY <1>0 DEF Row
    <3> HIDE DEF r
    <3>3. NoOffsets' => NoOffsets
      BY <1>0, <3>1, <3>2 DEF NoOffsets
    <3> QED BY <2>2, <3>3, WarningOther DEF TabRevoke, ramVars
  <2> QED BY <1>2, <2>1, <2>2
<1>3. ASSUME NEW t \in Threads, ThreadStep(t) \/ \E k \in Keys : LookUp(t, k)
      PROVE  WarningDue'
  BY <1>1, <1>3 DEF ThreadStep, ReadClock, CheckLimit, Record, LookUp, historyVars
<1>4. CASE (\E stopping \in BOOLEAN : FlushTake(stopping)) \/ FlushRestore \/ Boot
  BY <1>1, <1>4 DEF FlushTake, FlushRestore, Boot, ramVars, historyVars
<1>5. CASE ShutDown \/ Crash
  <2>1. culprit' = "none" /\ admin' = [a \in Admins |-> IdleAdmin]
    BY <1>5 DEF ShutDown, Crash, Gone
  <2>2. \A a \in Admins : ~admin'[a].warned
    BY <2>1 DEF IdleAdmin
  <2> QED BY <2>1, <2>2 DEF WarningDue
<1>6. ASSUME NEW k \in Keys, admin' = admin, clock' = clock, culprit' = culprit,
             \A q \in Keys : q # k => keys'[q] = keys[q],
             Counted(k) /\ keys[k].full => keys'[k].status = "live" /\ keys'[k].full
                                           /\ keys'[k].expires = keys[k].expires,
             keys[k].status # "none" => keys'[k].status # "none" /\ (~keys'[k].aware => ~keys[k].aware)
      PROVE  WarningDue'
  <2>1. \A q \in FullKeys : q \in FullKeys'
    BY <1>6 DEF FullKeys, Counted
  <2>2. NoOffsets' => NoOffsets
    BY <1>6 DEF NoOffsets
  <2>3. LockedOut' /\ NoOffsets' => LockedOut
    <3>1. \A q \in FullKeys' : q \in Keys /\ keys'[q].status = "live"
      BY DEF FullKeys, Counted
    <3>2. ASSUME NoOffsets' PROVE \A q \in FullKeys' : ~keys'[q].aware
      BY <3>1, <3>2 DEF NoOffsets
    <3>3. ASSUME LockedOut', NEW q \in FullKeys PROVE keys'[q].aware
      BY <2>1, <3>3 DEF LockedOut
    <3>4. ASSUME LockedOut' PROVE ~EnvMain
      BY <3>4 DEF LockedOut
    <3>5. ASSUME LockedOut', NoOffsets' PROVE \A q \in FullKeys : FALSE
      BY <2>1, <3>2, <3>3, <3>5
    <3> QED BY <3>4, <3>5 DEF LockedOut
  <2> QED BY <1>6, <2>2, <2>3, WarningStays
<1>7. ASSUME NEW k \in Keys, NEW r \in Row, keys' = [keys EXCEPT ![k] = r], r.status = keys[k].status,
             r.full = keys[k].full, r.expires = keys[k].expires, r.aware = keys[k].aware,
             admin' = admin, clock' = clock, culprit' = culprit
      PROVE  WarningDue'
  <2>1. keys'[k] = r /\ \A q \in Keys : q # k => keys'[q] = keys[q]
    BY <1>0, <1>7
  <2> QED BY <1>6, <1>7, <2>1 DEF Counted
<1>8. ASSUME NEW k \in Keys, FlushIncrement(k) PROVE WarningDue'
  <2>1. admin' = admin /\ clock' = clock /\ culprit' = culprit
    BY <1>8 DEF FlushIncrement, historyVars
  <2>2. CASE keys' = keys
    BY <1>1, <2>1, <2>2
  <2>3. CASE keys' = [keys EXCEPT ![k].total = @ + flush.batch[k].count]
    <3>1. PICK n \in Nat : n = keys[k].total + flush.batch[k].count
      <4>1. keys[k].total \in Nat /\ flush.batch[k].count \in Nat
        BY <1>0 DEF TypeOK, Flush, Use, Row
      <4> QED BY <4>1
    <3> DEFINE r == [keys[k] EXCEPT !.total = n]
    <3>2. keys' = [keys EXCEPT ![k] = r]
      BY <1>0, <2>3, <3>1
    <3>3. r \in Row /\ r.status = keys[k].status /\ r.full = keys[k].full
          /\ r.expires = keys[k].expires /\ r.aware = keys[k].aware
      <4>1. keys[k] \in Row
        BY <1>0
      <4> QED BY <4>1 DEF Row
    <3> HIDE DEF r
    <3> QED BY <1>7, <2>1, <3>2, <3>3
  <2> QED BY <1>8, <2>2, <2>3 DEF FlushIncrement
<1>9. CASE FlushTouch
  <2>1. admin' = admin /\ clock' = clock /\ culprit' = culprit
    BY <1>9 DEF FlushTouch, historyVars
  <2>2. CASE keys' = keys
    BY <1>1, <2>1, <2>2
  <2>3. CASE keys' = [keys EXCEPT ![flush.key].last = flush.batch[flush.key].last]
    <3>1. PICK k \in Keys, time \in 0..MaxTime : k = flush.key /\ time = flush.batch[k].last
      BY DEF TypeOK, Flush, Use
    <3> DEFINE r == [keys[k] EXCEPT !.last = time]
    <3>2. keys' = [keys EXCEPT ![k] = r]
      BY <1>0, <2>3, <3>1
    <3>3. r \in Row /\ r.status = keys[k].status /\ r.full = keys[k].full
          /\ r.expires = keys[k].expires /\ r.aware = keys[k].aware
      <4>1. keys[k] \in Row
        BY <1>0
      <4> QED BY <4>1 DEF Row
    <3> HIDE DEF r
    <3> QED BY <1>7, <2>1, <3>2, <3>3
  <2> QED BY <1>9, <2>2, <2>3 DEF FlushTouch
<1>10. ASSUME NEW k \in Keys, CreateKey(k) PROVE WarningDue'
  <2>1. \A q \in Keys : q # k => keys'[q] = keys[q]
    BY <1>0, <1>10 DEF CreateKey
  <2>2. ~Counted(k) /\ admin' = admin /\ clock' = clock /\ culprit' = culprit
    BY <1>10 DEF CreateKey, Counted, ramVars, historyVars
  <2>3. keys[k].status = "none"
    BY <1>10 DEF CreateKey
  <2> QED BY <1>6, <2>1, <2>2, <2>3
<1>11. ASSUME NEW a \in Admins, AdminStart(a) PROVE WarningDue'
  <2>1. PICK k \in Keys, pc \in {"revoke", "patch"} :
           admin' = [admin EXCEPT ![a] = [pc |-> pc, key |-> k, warned |-> FALSE]]
    BY <1>11 DEF AdminStart, AdminTo
  <2>2. \A b \in Admins : admin'[b].warned => admin'[b].pc = "done"
    BY <1>0, <2>1 DEF WarningDue
  <2>3. ~LockedOut'
    BY <1>11 DEF AdminStart, LockedOut, FullKeys, Counted
  <2> QED BY <2>2, <2>3 DEF WarningDue
<1>12. ASSUME NEW a \in Admins, AdminRevoke(a) \/ AdminPatch(a) PROVE WarningDue'
  <2>1. admin[a].pc \in {"revoke", "patch"} /\ BlameAdmin
    BY <1>12 DEF AdminRevoke, AdminPatch
  <2>2. CASE \E pc \in {"reset", "count"} : admin' = [admin EXCEPT ![a] = [admin[a] EXCEPT !.pc = pc]]
    BY <2>1, <2>2, WarningAdmin
  <2>3. CASE /\ admin' = [admin EXCEPT ![a] = [admin[a] EXCEPT !.pc = "done"]]
             /\ Raises(keys'[admin[a].key])
    <3>1. admin'[a].pc = "done" /\ \A b \in Admins : b # a => admin'[b] = admin[b]
      BY <1>0, <2>3 DEF Admin
    <3>2. \A b \in Admins : admin'[b].warned => admin'[b].pc = "done"
      BY <3>1 DEF WarningDue
    <3>3. ~NoOffsets'
      BY <1>0, <2>3 DEF NoOffsets, Raises, Admin
    <3> QED BY <3>2, <3>3 DEF WarningDue, NoOffsets
  <2> QED BY <1>12, <2>2, <2>3 DEF AdminRevoke, AdminPatch, AdminTo
<1>13. ASSUME NEW a \in Admins, AdminReset(a) PROVE WarningDue'
  <2>1. /\ admin' = [admin EXCEPT ![a] = [admin[a] EXCEPT !.pc = "count"]] /\ admin[a].pc = "reset"
        /\ keys' = keys /\ clock' = clock /\ culprit' = culprit
    BY <1>13 DEF AdminReset, AdminTo
  <2>2. /\ admin'[a].pc = "count" /\ admin'[a].warned = admin[a].warned
        /\ \A b \in Admins : b # a => admin'[b] = admin[b]
    BY <1>0, <2>1 DEF Admin
  <2>3. \A b \in Admins : admin'[b].warned => admin'[b].pc = "done"
    BY <2>1, <2>2 DEF WarningDue
  <2> QED BY <2>2, <2>3 DEF WarningDue
<1>14. ASSUME NEW a \in Admins, AdminCount(a) PROVE WarningDue'
  <2>1. /\ admin' = [admin EXCEPT ![a] = [admin[a] EXCEPT !.pc = "done", !.warned = ~EnvMain /\ FullKeys = {}]]
        /\ keys' = keys /\ clock' = clock /\ culprit' = culprit
    BY <1>14 DEF AdminCount, AdminTo, historyVars
  <2>2. /\ admin'[a].pc = "done" /\ (LockedOut /\ NoOffsets => admin'[a].warned)
        /\ \A b \in Admins : b # a => admin'[b] = admin[b]
    <3>1. LockedOut /\ NoOffsets => ~EnvMain /\ FullKeys = {}
      <4>1. \A k \in FullKeys : k \in Keys /\ keys[k].status = "live"
        BY DEF FullKeys, Counted
      <4> QED BY <4>1 DEF LockedOut, NoOffsets
    <3> DEFINE said == ~EnvMain /\ FullKeys = {}
    <3>2. admin' = [admin EXCEPT ![a] = [admin[a] EXCEPT !.pc = "done", !.warned = said]]
      BY <2>1
    <3> HIDE DEF said
    <3>3. admin'[a].pc = "done" /\ (admin'[a].warned <=> said)
      BY <1>0, <3>2 DEF Admin
    <3>4. \A b \in Admins : b # a => admin'[b] = admin[b]
      BY <1>0, <3>2
    <3> QED BY <3>1, <3>3, <3>4 DEF said
  <2>3. LockedOut' /\ NoOffsets' => LockedOut /\ NoOffsets
    BY <2>1 DEF LockedOut, FullKeys, Counted, NoOffsets
  <2>4. \A b \in Admins : admin'[b].warned => admin'[b].pc = "done"
    BY <2>2 DEF WarningDue
  <2> QED BY <2>2, <2>3, <2>4 DEF WarningDue, NoOffsets
<1> QED BY <1>2, <1>3, <1>4, <1>5, <1>8, <1>9, <1>10, <1>11, <1>12, <1>13, <1>14 DEF Next, AdminStep

-----------------------------------------------------------------------------
LEMMA WarningInit == Init => WarningDue
<1> SUFFICES ASSUME Init PROVE WarningDue OBVIOUS
<1>1. culprit = "none" /\ \A a \in Admins : ~admin[a].warned
  BY DEF Init, IdleAdmin
<1> QED BY <1>1 DEF WarningDue

LEMMA KeyStep == KeyInv /\ [Next]_vars => KeyInv'
<1> SUFFICES ASSUME KeyInv, [Next]_vars PROVE KeyInv' OBVIOUS
<1>1. TypeOK /\ UsageInv /\ WindowInv /\ WarningDue
  BY DEF KeyInv
<1>2. CASE Next
  <2>1. FlushOK /\ ClockRead
    BY <1>1 DEF UsageInv, WindowInv
  <2>2. TypeOK'
    BY <1>1, <1>2, <2>1, TypeStep
  <2>3. UsageInv'
    BY <1>1, <1>2, UsageStep
  <2>4. WindowInv'
    BY <1>1, <1>2, WindowStep
  <2>5. WarningDue'
    BY <1>1, <1>2, WarningStep
  <2> QED BY <2>2, <2>3, <2>4, <2>5 DEF KeyInv
<1>3. CASE UNCHANGED vars
  <2> USE <1>3 DEF vars, ramVars, historyVars
  <2>1. TypeOK'
    BY <1>1 DEF TypeOK
  <2>2. UsageInv'
    BY <1>1 DEF UsageInv, KeysExist, FlushOK, UsesInOrder, LastUse, UsageNeverLost, UsageExact, Unflushed
  <2>3. WindowInv'
    BY <1>1 DEF WindowInv, ClockRead, WindowOf
  <2>4. WarningDue'
    BY <1>1 DEF WarningDue, LockedOut, FullKeys, Counted, NoOffsets
  <2> QED BY <2>1, <2>2, <2>3, <2>4 DEF KeyInv
<1> QED BY <1>2, <1>3

(* The invariant the theorems below rest on: where every use that has been *)
(* served is, what the windows hold of the requests let in, and who is     *)
(* still to warn.                                                          *)
THEOREM KeyInvariant == Spec => []KeyInv
<1>1. Init => KeyInv
  BY TypeInit, UsageInit, WindowInit, WarningInit DEF KeyInv
<1> QED BY <1>1, KeyStep, PTL DEF Spec

(* No failing flush, overlapping request or restart loses the uses of a    *)
(* key or the time of its last, whichever of the two transactions fails.   *)
THEOREM UsageIsKept == Spec => []UsageKept
<1>1. ASSUME KeyInv PROVE UsageKept
  <2>1. TypeOK /\ FlushOK /\ UsesInOrder /\ UsageNeverLost /\ UsageExact
    BY <1>1 DEF KeyInv, UsageInv
  <2>2. ASSUME NEW k \in Keys
        PROVE  LET times == {keys[k].last, pending[k].last, flush.failed[k].last}
                              \cup IF k \in flush.left THEN {flush.batch[k].last} ELSE {}
               IN served[k].last \in times /\ \A time \in times : time <= served[k].last
    <3>1. /\ keys[k].last \in Nat /\ served[k].last \in Nat
          /\ pending[k].count \in Nat /\ flush.failed[k].count \in Nat
          /\ pending[k].last \in Nat /\ flush.failed[k].last \in Nat /\ flush.batch[k].last \in Nat
      <4>1. /\ keys[k] \in Row /\ served[k] \in Use /\ pending[k] \in Use
            /\ flush.failed[k] \in Use /\ flush.batch[k] \in Use
        BY <2>1 DEF TypeOK, Flush
      <4> QED BY <4>1 DEF Use, Row
    <3>2. /\ served[k].last = LastUse(k) /\ keys[k].last <= served[k].last
          /\ (k \in flush.left => flush.batch[k].last <= served[k].last)
          /\ (flush.failed[k].count > 0 => flush.failed[k].last <= served[k].last)
          /\ (pending[k].count = 0 => pending[k].last = 0)
          /\ (flush.failed[k].count = 0 => flush.failed[k].last = 0)
      BY <2>1 DEF UsesInOrder, FlushOK
    <3>3. pending[k].last <= served[k].last
      BY <3>1, <3>2 DEF LastUse
    <3>4. flush.failed[k].last <= served[k].last
      BY <3>1, <3>2
    <3> QED BY <3>1, <3>2, <3>3, <3>4 DEF LastUse
  <2> QED BY <2>1, <2>2 DEF UsageKept, LastUseKept
<1> QED BY <1>1, KeyInvariant, PTL

(* However threads stop between reading the clock and entering the window, *)
(* no key gets more than its limit into a minute less that stop.           *)
THEOREM RateIsBounded == Spec => RateBound
<1>1. ASSUME KeyInv, [Next]_vars
      PROVE  [\A t \in Threads :
                LET k == thread[t].key IN
                admitted'[k] # admitted[k] /\ thread'[t].pc = "record" /\ thread[t].pc = "timed" =>
                  Cardinality({i \in 1..Len(admitted[k]) : admitted[k][i] + Window >= clock + MaxDelay})
                    < thread[t].limit]_vars
  <2>1. TypeOK /\ WindowInv
    BY <1>1 DEF KeyInv
  <2>2. \A t \in Threads : \E k \in Keys : k = thread[t].key
    BY <2>1 DEF TypeOK, Thread
  <2> QED BY <1>1, <2>1, <2>2, RateStep
<1> QED BY <1>1, KeyInvariant, PTL DEF Spec, RateBound

(* Two administrators who together take away the last source of full scope *)
(* cannot both be told that there is one left, as long as no expiry names  *)
(* its offset (with one that does, they can: run lockout_unwarned).        *)
THEOREM LockoutsAreWarned == Spec => []LockoutWarned
<1>1. KeyInv => LockoutWarned
  BY DEF KeyInv, WarningDue, LockoutWarned, LockoutAlwaysWarned
<1> QED BY <1>1, KeyInvariant, PTL

-----------------------------------------------------------------------------
(* The agents' credentials.                                                *)

Case    == [agent : Agents, key : IdempotencyKeys, day : Nat, live : BOOLEAN]
Receipt == [agent : Agents, key : IdempotencyKeys, case : Nat, day : Nat]
Grant   == [status : {"none", "live", "revoked"}, cases : SUBSET Nat, expires : Nat]

ReceiptOf(c) == [agent |-> made[c].agent, key |-> made[c].key, case |-> c, day |-> made[c].day]

(* Only the parts of the state that submissions depend on need types.      *)
RowsOK ==
  /\ now \in Nat
  /\ grants \in [Agents -> Grant]
  /\ made \in Seq(Case)
  /\ retries \in SUBSET Receipt /\ IsFiniteSet(retries)
  /\ \A x \in retries : x.case \in Ids

(* A credential that does not exist yet reaches no case.                   *)
NewGrantsEmpty == \A a \in Agents : grants[a].status = "none" => grants[a].cases = {}

(* A request past its admission is of a credential.                        *)
RequestsOK ==
  /\ DOMAIN ask = Asks
  /\ \A r \in Asks :
       /\ DOMAIN ask[r] = {"pc", "agent", "key"}
       /\ ask[r].pc # "idle" => ask[r].agent \in Agents
       /\ ask[r].pc = "upload" => ask[r].key \in IdempotencyKeys

(* A case that exists has its receipt, and there is one receipt to a key.  *)
ReceiptKept == \A c \in Ids : made[c].live => ReceiptOf(c) \in retries

OneReceipt == \A x, y \in retries : x.agent = y.agent /\ x.key = y.key => x = y

(* The receipts of a day are within the quota.                             *)
ReceiptsOf(a, d) == {x \in retries : x.agent = a /\ x.day = d}

ReceiptsBounded == \A a \in Agents, d \in Nat : Cardinality(ReceiptsOf(a, d)) <= DailySubmissions

SubmissionInv ==
  /\ RowsOK /\ NewGrantsEmpty /\ RequestsOK
  /\ ReceiptKept /\ OneReceipt /\ ReceiptsBounded
  /\ SubmittedIsGranted
-----------------------------------------------------------------------------
(* Cases are numbered, and days are numbers.                               *)
LEMMA CaseRows ==
  ASSUME RowsOK
  PROVE  /\ Len(made) \in Nat /\ Ids = 1..Len(made)
         /\ \A c \in Ids : made[c] \in Case /\ made[c].agent \in Agents
  <1>1. Len(made) \in Nat /\ Ids = 1..Len(made)  BY DEF RowsOK, Ids
  <1>2. \A c \in 1..Len(made) : made[c] \in Case  BY DEF RowsOK
  <1> QED  BY <1>1, <1>2 DEF Case

LEMMA DayType == now \in Nat => now \div Day \in Nat
  <1>1. Day \in Nat /\ Day # 0  BY AgentAssumption
  <1> QED  BY <1>1

(* The cases of an agent and a day that exist are no more than their       *)
(* receipts: each is that of another case.                                 *)
LEMMA CasesWithinReceipts ==
  ASSUME RowsOK, ReceiptKept, NEW a \in Agents, NEW d \in Nat
  PROVE  Cardinality({c \in Ids : made[c].live /\ made[c].agent = a /\ made[c].day = d})
           <= Cardinality(ReceiptsOf(a, d))
  <1> DEFINE S == {c \in Ids : made[c].live /\ made[c].agent = a /\ made[c].day = d}
             f == [c \in S |-> ReceiptOf(c)]
  <1>1. IsFiniteSet(ReceiptsOf(a, d))
    BY FS_Subset DEF RowsOK, ReceiptsOf
  <1>2. f \in [S -> ReceiptsOf(a, d)]
    BY DEF ReceiptKept, ReceiptsOf, ReceiptOf
  <1>3. \A c, e \in S : f[c] = f[e] => c = e
    <2> SUFFICES ASSUME NEW c \in S, NEW e \in S, f[c] = f[e] PROVE c = e  OBVIOUS
    <2>1. f[c].case = c /\ f[e].case = e  BY DEF ReceiptOf
    <2> QED  BY <2>1
  <1>4. f \in Injection(S, ReceiptsOf(a, d))
    BY <1>2, <1>3 DEF Injection, IsInjective
  <1> QED  BY <1>1, <1>4, FS_Injection

(* The invariant gives what the runs check.                                *)
LEMMA InvariantImplies == SubmissionInv => SubmissionsStand
  <1> SUFFICES ASSUME SubmissionInv PROVE SubmissionsStand  OBVIOUS
  <1>1. SubmittedIsGranted  BY DEF SubmissionInv
  <1>2. SubmittedOnce
    <2> SUFFICES ASSUME NEW c \in Ids, NEW d \in Ids, made[c].live, made[d].live,
                        made[c].agent = made[d].agent, made[c].key = made[d].key
                 PROVE  c = d
      BY DEF SubmittedOnce
    <2>1. ReceiptOf(c) = ReceiptOf(d)
      BY DEF SubmissionInv, ReceiptKept, OneReceipt, ReceiptOf
    <2>2. ReceiptOf(c).case = c /\ ReceiptOf(d).case = d  BY DEF ReceiptOf
    <2> QED  BY <2>1, <2>2
  <1>3. QuotaHolds
    <2> SUFFICES ASSUME NEW a \in Agents, NEW t \in 0..MaxTicks
                 PROVE  Cardinality({c \in Ids : made[c].live /\ made[c].agent = a /\ made[c].day = t \div Day})
                          <= DailySubmissions
      BY DEF QuotaHolds
    <2>1. t \div Day \in Nat  BY AgentAssumption
    <2>2. IsFiniteSet(ReceiptsOf(a, t \div Day))
      BY FS_Subset DEF SubmissionInv, RowsOK, ReceiptsOf
    <2>3. Cardinality(ReceiptsOf(a, t \div Day)) \in Nat
      BY <2>2, FS_CardinalityType
    <2> DEFINE S == {c \in Ids : made[c].live /\ made[c].agent = a /\ made[c].day = t \div Day}
    <2>4. Cardinality(S) <= Cardinality(ReceiptsOf(a, t \div Day))
      BY <2>1, CasesWithinReceipts DEF SubmissionInv
    <2>5. IsFiniteSet(S)
      <3>1. IsFiniteSet(Ids)
        <4>1. Ids = 1..Len(made) /\ Len(made) \in Nat  BY DEF SubmissionInv, RowsOK, Ids
        <4> QED  BY <4>1, FS_Interval
      <3> QED  BY <3>1, FS_Subset
    <2>6. Cardinality(S) \in Nat  BY <2>5, FS_CardinalityType
    <2> HIDE DEF S
    <2>7. Cardinality(S) <= DailySubmissions
      BY <2>1, <2>3, <2>4, <2>6, AgentAssumption DEF SubmissionInv, ReceiptsBounded
    <2> QED  BY <2>7 DEF S
  <1> QED  BY <1>1, <1>2, <1>3 DEF SubmissionsStand
-----------------------------------------------------------------------------
LEMMA AgentStart == AgentInit => SubmissionInv
  <1> SUFFICES ASSUME AgentInit PROVE SubmissionInv  OBVIOUS
  <1>1. RowsOK
    BY FS_EmptySet DEF AgentInit, RowsOK, Grant, Ids
  <1>2. RequestsOK
    BY DEF AgentInit, RequestsOK, AtRest
  <1>3. ReceiptKept /\ OneReceipt /\ SubmittedIsGranted
    BY DEF AgentInit, ReceiptKept, OneReceipt, SubmittedIsGranted, Ids
  <1>4. ReceiptsBounded
    <2> SUFFICES ASSUME NEW a \in Agents, NEW d \in Nat
                 PROVE  Cardinality(ReceiptsOf(a, d)) <= DailySubmissions
      BY DEF ReceiptsBounded
    <2>1. ReceiptsOf(a, d) = {}  BY DEF AgentInit, ReceiptsOf
    <2> QED  BY <2>1, FS_EmptySet, AgentAssumption
  <1>5. NewGrantsEmpty  BY DEF AgentInit, NewGrantsEmpty
  <1> QED  BY <1>1, <1>2, <1>3, <1>4, <1>5 DEF SubmissionInv

(* A step that touches neither rows nor receipts keeps what is said of     *)
(* them.                                                                   *)
LEMMA RowsLeft ==
  ASSUME SubmissionInv, UNCHANGED <<made, retries>>, now' \in Nat,
         grants' \in [Agents -> Grant],
         \A a \in Agents : grants'[a].cases = grants[a].cases, NewGrantsEmpty', RequestsOK'
  PROVE  SubmissionInv'
  <1>1. RowsOK'  BY DEF SubmissionInv, RowsOK, Ids
  <1>2. ReceiptKept' /\ OneReceipt' /\ ReceiptsBounded'
    BY DEF SubmissionInv, ReceiptKept, OneReceipt, ReceiptsBounded, ReceiptsOf, ReceiptOf, Ids
  <1>3. SubmittedIsGranted'
    <2>1. \A c \in Ids : made[c].agent \in Agents  BY CaseRows DEF SubmissionInv
    <2> QED  BY <2>1 DEF SubmissionInv, SubmittedIsGranted, Ids
  <1> QED  BY <1>1, <1>2, <1>3 DEF SubmissionInv

(* Deletions take receipts with their cases.                               *)
LEMMA CasesDeleted ==
  ASSUME SubmissionInv, NEW D \in SUBSET Ids,
         made' = [c \in Ids |-> IF c \in D THEN [made[c] EXCEPT !.live = FALSE] ELSE made[c]],
         retries' = {x \in retries : x.case \notin D},
         grants' \in [Agents -> Grant],
         \A c \in Ids \ D : made[c].live => c \in grants'[made[c].agent].cases,
         NewGrantsEmpty',
         UNCHANGED <<now, ask>>
  PROVE  SubmissionInv'
  <1>1. made' \in Seq(Case) /\ Ids' = Ids
    <2>1. Ids = 1..Len(made) /\ Len(made) \in Nat /\ \A c \in Ids : made[c] \in Case
      BY CaseRows DEF SubmissionInv
    <2>2. \A c \in Ids : made'[c] \in Case  BY <2>1 DEF Case
    <2>3. made' \in [1..Len(made) -> Case]  BY <2>1, <2>2
    <2> QED  BY <2>1, <2>3 DEF Ids
  <1>2. RowsOK'
    <2>1. IsFiniteSet(retries')  BY FS_Subset DEF SubmissionInv, RowsOK
    <2> QED  BY <1>1, <2>1 DEF SubmissionInv, RowsOK
  <1>3. RequestsOK'  BY DEF SubmissionInv, RequestsOK
  <1>4. ReceiptKept'
    BY <1>1 DEF SubmissionInv, ReceiptKept, ReceiptOf, RowsOK, Case, Ids
  <1>5. OneReceipt'  BY DEF SubmissionInv, OneReceipt
  <1>6. ReceiptsBounded'
    <2> SUFFICES ASSUME NEW a \in Agents, NEW d \in Nat
                 PROVE  Cardinality(ReceiptsOf(a, d)') <= DailySubmissions
      BY DEF ReceiptsBounded
    <2>1. ReceiptsOf(a, d)' \in SUBSET ReceiptsOf(a, d)  BY DEF ReceiptsOf
    <2>2. IsFiniteSet(ReceiptsOf(a, d))  BY FS_Subset DEF SubmissionInv, RowsOK, ReceiptsOf
    <2>3. /\ IsFiniteSet(ReceiptsOf(a, d)')
          /\ Cardinality(ReceiptsOf(a, d)') <= Cardinality(ReceiptsOf(a, d))
      BY <2>1, <2>2, FS_Subset
    <2>4. Cardinality(ReceiptsOf(a, d)') \in Nat /\ Cardinality(ReceiptsOf(a, d)) \in Nat
      BY <2>2, <2>3, FS_CardinalityType
    <2>5. Cardinality(ReceiptsOf(a, d)) <= DailySubmissions  BY DEF SubmissionInv, ReceiptsBounded
    <2> QED  BY <2>3, <2>4, <2>5, AgentAssumption
  <1>7. SubmittedIsGranted'
    BY <1>1 DEF SubmissionInv, SubmittedIsGranted, RowsOK, Case, Ids
  <1> QED  BY <1>2, <1>3, <1>4, <1>5, <1>6, <1>7 DEF SubmissionInv

(* A submission makes a case, its grant and its receipt together.          *)
LEMMA SubmitKeeps ==
  ASSUME SubmissionInv, NEW r \in Asks, Submit(r)
  PROVE  SubmissionInv'
  <1> DEFINE a == ask[r].agent
             n == Len(made) + 1
             d == now \div Day
             x == [agent |-> a, key |-> ask[r].key, case |-> n, day |-> d]
             row == [agent |-> a, key |-> ask[r].key, day |-> d, live |-> TRUE]
  <1>1. a \in Agents /\ ask[r].key \in IdempotencyKeys
    BY DEF Submit, SubmissionInv, RequestsOK
  <1>2. Len(made) \in Nat /\ Ids = 1..Len(made) /\ d \in Nat /\ n \in Nat /\ n \notin Ids
    <2>1. Len(made) \in Nat /\ Ids = 1..Len(made)  BY CaseRows DEF SubmissionInv
    <2>2. d \in Nat  BY DayType DEF SubmissionInv, RowsOK
    <2> QED  BY <2>1, <2>2
  <1>3. row \in Case /\ x \in Receipt
    BY <1>1, <1>2 DEF Case, Receipt
  <1>4. /\ made' = Append(made, row) /\ retries' = retries \cup {x}
        /\ grants' = [grants EXCEPT ![a].cases = @ \cup {n}]
        /\ Remembered(r) = {} /\ UsedToday(a) < DailySubmissions
        /\ now' = now /\ ask' = [ask EXCEPT ![r].pc = "answered"]
    BY DEF Submit, Granted, Remember, GoTo
  <1> HIDE DEF a, d, n, x, row
  <1>5. /\ made' \in Seq(Case) /\ Ids' = Ids \cup {n}
        /\ \A c \in Ids : made'[c] = made[c]
        /\ made'[n] = row
    <2>1. made \in Seq(Case)  BY DEF SubmissionInv, RowsOK
    <2>2. made' \in Seq(Case) /\ Len(made') = Len(made) + 1
      BY <1>3, <1>4, <2>1
    <2>3. Ids' = 1..Len(made')  BY <2>2 DEF Ids
    <2>4. made'[Len(made) + 1] = row /\ \A i \in 1..Len(made) : made'[i] = made[i]
      BY <1>3, <1>4, <2>1
    <2> QED  BY <1>2, <2>2, <2>3, <2>4 DEF n
  <1>6. /\ grants' \in [Agents -> Grant]
        /\ \A b \in Agents : grants[b].cases \subseteq grants'[b].cases
        /\ n \in grants'[a].cases
    <2>1. grants \in [Agents -> Grant]  BY DEF SubmissionInv, RowsOK
    <2>2. grants[a] \in Grant  BY <1>1, <2>1
    <2>3. [grants[a] EXCEPT !.cases = @ \cup {n}] \in Grant
      BY <1>2, <2>2 DEF Grant
    <2>4. grants' = [grants EXCEPT ![a] = [grants[a] EXCEPT !.cases = @ \cup {n}]]
      BY <1>4
    <2> QED  BY <2>1, <2>2, <2>3, <2>4, <1>1 DEF Grant
  <1>7. RowsOK'
    <2>1. IsFiniteSet(retries')  BY <1>4, FS_AddElement DEF SubmissionInv, RowsOK
    <2>2. \A y \in retries' : y.case \in Ids'
      BY <1>4, <1>5 DEF SubmissionInv, RowsOK, x
    <2> QED  BY <1>3, <1>4, <1>5, <1>6, <2>1, <2>2 DEF SubmissionInv, RowsOK
  <1>8. RequestsOK'
    <2>1. ask[r].pc # "idle"  BY DEF Submit
    <2> QED  BY <1>4, <2>1 DEF SubmissionInv, RequestsOK
  <1>9. ReceiptKept'
    <2> SUFFICES ASSUME NEW c \in Ids', made'[c].live PROVE ReceiptOf(c)' \in retries'
      BY DEF ReceiptKept
    <2>1. CASE c \in Ids
      BY <2>1, <1>4, <1>5 DEF SubmissionInv, ReceiptKept, ReceiptOf
    <2>2. CASE c = n
      <3>1. ReceiptOf(c)' = x  BY <2>2, <1>5 DEF ReceiptOf, row, x
      <3> QED  BY <3>1, <1>4
    <2> QED  BY <2>1, <2>2, <1>5
  <1>10. OneReceipt'
    <2>1. \A y \in retries : ~(y.agent = x.agent /\ y.key = x.key)
      BY <1>4 DEF Remembered, x, a
    <2> QED  BY <1>4, <2>1 DEF SubmissionInv, OneReceipt
  <1>11. ReceiptsBounded'
    <2> SUFFICES ASSUME NEW b \in Agents, NEW e \in Nat
                 PROVE  Cardinality(ReceiptsOf(b, e)') <= DailySubmissions
      BY DEF ReceiptsBounded
    <2>1. IsFiniteSet(ReceiptsOf(b, e)) /\ Cardinality(ReceiptsOf(b, e)) \in Nat
      BY FS_Subset, FS_CardinalityType DEF SubmissionInv, RowsOK, ReceiptsOf
    <2>2. CASE b = a /\ e = d
      <3>1. ReceiptsOf(b, e)' = ReceiptsOf(b, e) \cup {x}
        BY <2>2, <1>4 DEF ReceiptsOf, x
      <3>2. Cardinality(ReceiptsOf(b, e)) < DailySubmissions
        BY <2>2, <1>4 DEF ReceiptsOf, UsedToday, d
      <3>3. Cardinality(ReceiptsOf(b, e) \cup {x}) <= Cardinality(ReceiptsOf(b, e)) + 1
        <4>1. Cardinality(ReceiptsOf(b, e) \cup {x}) =
                IF x \in ReceiptsOf(b, e) THEN Cardinality(ReceiptsOf(b, e)) ELSE Cardinality(ReceiptsOf(b, e)) + 1
          BY <2>1, FS_AddElement
        <4> QED  BY <2>1, <4>1
      <3>4. Cardinality(ReceiptsOf(b, e) \cup {x}) \in Nat
        BY <2>1, FS_AddElement, FS_CardinalityType
      <3> QED  BY <2>1, <3>1, <3>2, <3>3, <3>4, AgentAssumption
    <2>3. CASE ~(b = a /\ e = d)
      <3>1. ReceiptsOf(b, e)' = ReceiptsOf(b, e)
        BY <2>3, <1>4 DEF ReceiptsOf, x
      <3> QED  BY <3>1 DEF SubmissionInv, ReceiptsBounded
    <2> QED  BY <2>2, <2>3
  <1>12. SubmittedIsGranted'
    <2> SUFFICES ASSUME NEW c \in Ids', made'[c].live PROVE c \in grants'[made'[c].agent].cases
      BY DEF SubmittedIsGranted
    <2>1. CASE c \in Ids
      <3>1. made[c].agent \in Agents  BY <2>1, CaseRows DEF SubmissionInv
      <3>2. c \in grants[made[c].agent].cases
        BY <2>1, <1>5 DEF SubmissionInv, SubmittedIsGranted
      <3> QED  BY <2>1, <3>1, <3>2, <1>5, <1>6
    <2>2. CASE c = n
      <3>1. made'[c].agent = a  BY <2>2, <1>5 DEF row
      <3> QED  BY <2>2, <3>1, <1>6
    <2> QED  BY <2>1, <2>2, <1>5
  <1>13. NewGrantsEmpty'
    <2>1. grants[a].status # "none"  BY DEF Submit, StillValid, Valid, a
    <2>2. \A b \in Agents : grants'[b].status = grants[b].status /\ (b # a => grants'[b] = grants[b])
      BY <1>1, <1>4 DEF SubmissionInv, RowsOK, Grant
    <2> QED  BY <2>1, <2>2 DEF SubmissionInv, NewGrantsEmpty
  <1> QED  BY <1>7, <1>8, <1>9, <1>10, <1>11, <1>12, <1>13 DEF SubmissionInv

(* What a request does besides submitting                                  *)
LEMMA RequestsKeep ==
  ASSUME SubmissionInv, NEW r \in Asks, AskStep(r), ~Submit(r)
  PROVE  SubmissionInv'
  <1>1. UNCHANGED <<made, retries, grants, now>>
    BY DEF AskStep, Admit, Answer, BeginUpload, Submit, SubmitNothing, Audit
  <1>2. RequestsOK'
    <2> USE DEF SubmissionInv, RequestsOK
    <2>1. ASSUME NEW a \in Agents, Admit(r, a) PROVE RequestsOK'  BY <2>1 DEF Admit
    <2>2. CASE Answer(r)  BY <2>2 DEF Answer, GoTo
    <2>3. ASSUME NEW k \in IdempotencyKeys, BeginUpload(r, k) PROVE RequestsOK'
      BY <2>3 DEF BeginUpload
    <2>4. CASE SubmitNothing(r)  BY <2>4 DEF SubmitNothing, GoTo
    <2>5. CASE Audit(r)  BY <2>5 DEF Audit, AtRest
    <2> QED  BY <2>1, <2>2, <2>3, <2>4, <2>5 DEF AskStep
  <1>3. NewGrantsEmpty'  BY <1>1 DEF SubmissionInv, NewGrantsEmpty
  <1> QED  BY <1>1, <1>2, <1>3, RowsLeft DEF SubmissionInv, RowsOK

LEMMA AgentStep == SubmissionInv /\ [AgentNext]_agentVars => SubmissionInv'
  <1> SUFFICES ASSUME SubmissionInv, [AgentNext]_agentVars PROVE SubmissionInv'  OBVIOUS
  <1> USE DEF SubmissionInv, RowsOK
  <1>1. ASSUME NEW r \in Asks, AskStep(r) PROVE SubmissionInv'
    BY <1>1, RequestsKeep, SubmitKeeps
  <1>2. ASSUME NEW a \in Agents, CreateAgent(a) PROVE SubmissionInv'
    <2>1. RequestsOK'  BY <1>2 DEF CreateAgent, RequestsOK
    <2>2. grants[a].cases = {}  BY <1>2 DEF CreateAgent, NewGrantsEmpty
    <2>3. [status |-> "live", cases |-> {}, expires |-> now + Lifetime] \in Grant
      BY AgentAssumption DEF Grant
    <2>4. /\ grants' \in [Agents -> Grant]
          /\ \A b \in Agents : grants'[b].cases = grants[b].cases
      BY <1>2, <2>2, <2>3 DEF CreateAgent
    <2>5. NewGrantsEmpty'  BY <1>2, <2>2, <2>4 DEF CreateAgent, NewGrantsEmpty
    <2> QED  BY <1>2, <2>1, <2>4, <2>5, RowsLeft DEF CreateAgent
  <1>3. ASSUME NEW a \in Agents, RevokeAgent(a) PROVE SubmissionInv'
    <2>1. grants' \in [Agents -> Grant] /\ \A b \in Agents : grants'[b].cases = grants[b].cases
      BY <1>3 DEF RevokeAgent, Grant
    <2>2. RequestsOK'  BY <1>3 DEF RevokeAgent, RequestsOK
    <2>3. NewGrantsEmpty'  BY <1>3 DEF RevokeAgent, NewGrantsEmpty
    <2> QED  BY <1>3, <2>1, <2>2, <2>3, RowsLeft DEF RevokeAgent
  <1>4. ASSUME NEW c \in Ids, DeleteCase(c) PROVE SubmissionInv'
    <2>1. made' = [e \in Ids |-> IF e \in {c} THEN [made[e] EXCEPT !.live = FALSE] ELSE made[e]]
      BY <1>4, CaseRows DEF DeleteCase, Ids
    <2>2. retries' = {x \in retries : x.case \notin {c}}  BY <1>4 DEF DeleteCase
    <2>3. \A e \in Ids \ {c} : made[e].live => e \in grants'[made[e].agent].cases
      BY <1>4 DEF DeleteCase, SubmittedIsGranted
    <2>4. NewGrantsEmpty'  BY <1>4 DEF DeleteCase, NewGrantsEmpty
    <2> QED  BY <1>4, <2>1, <2>2, <2>3, <2>4, CasesDeleted DEF DeleteCase
  <1>5. CASE ClearAll
    <2>1. made' = [e \in Ids |-> IF e \in Ids THEN [made[e] EXCEPT !.live = FALSE] ELSE made[e]]
      BY <1>5 DEF ClearAll
    <2>2. retries' = {x \in retries : x.case \notin Ids}  BY <1>5 DEF ClearAll
    <2>3. grants' \in [Agents -> Grant]  BY <1>5 DEF ClearAll, Grant
    <2>4. NewGrantsEmpty'  BY <1>5 DEF ClearAll, NewGrantsEmpty, Grant
    <2> QED  BY <1>5, <2>1, <2>2, <2>3, <2>4, CasesDeleted DEF ClearAll
  <1>6. CASE ServerDies
    <2>1. RequestsOK'  BY <1>6 DEF ServerDies, RequestsOK, AtRest
    <2>2. NewGrantsEmpty'  BY <1>6 DEF ServerDies, NewGrantsEmpty
    <2> QED  BY <1>6, <2>1, <2>2, RowsLeft DEF ServerDies
  <1>7. CASE TickAgents
    <2>1. RequestsOK'  BY <1>7 DEF TickAgents, RequestsOK
    <2>2. NewGrantsEmpty'  BY <1>7 DEF TickAgents, NewGrantsEmpty
    <2> QED  BY <1>7, <2>1, <2>2, RowsLeft DEF TickAgents
  <1>8. CASE UNCHANGED agentVars
    <2>1. RequestsOK'  BY <1>8 DEF agentVars, RequestsOK
    <2>2. NewGrantsEmpty'  BY <1>8 DEF agentVars, NewGrantsEmpty
    <2> QED  BY <1>8, <2>1, <2>2, RowsLeft DEF agentVars
  <1> QED  BY <1>1, <1>2, <1>3, <1>4, <1>5, <1>6, <1>7, <1>8 DEF AgentNext
-----------------------------------------------------------------------------
(* Whatever requests overlap, are repeated or die, and whatever is         *)
(* deleted: rows, receipts and grants of submissions agree.                *)
THEOREM SubmissionInvariant == AgentSpec => []SubmissionInv
  BY AgentStart, AgentStep, PTL DEF AgentSpec

(* A case an agent submitted is in its reach as long as it exists, is the  *)
(* only one of its idempotency key, and counts against the quota of its    *)
(* day (submission.py).                                                    *)
THEOREM AgentSubmissionsStand == AgentSpec => []SubmissionsStand
  BY SubmissionInvariant, InvariantImplies, PTL

-----------------------------------------------------------------------------
(***************************************************************************)
(* Budgets                                                                 *)
(***************************************************************************)
LEMMA BucketTypes ==
  ASSUME NEW t \in 0..MaxTicks
  PROVE  MinuteOf(t) \in Buckets /\ DayOf(t) \in Buckets /\ BucketsOf(t) \subseteq Buckets
  BY DEF BucketsOf, Buckets

(* A minute is not a day.                                                  *)
LEMMA MinuteIsNoDay == ASSUME NEW s, NEW t PROVE MinuteOf(s) # DayOf(t)
  BY DEF MinuteOf, DayOf

(* What one more request adds to the charges.                              *)
LEMMA OneMoreCharged ==
  ASSUME NEW s \in Seq(0..MaxTicks), NEW t \in 0..MaxTicks, NEW b
  PROVE  ChargesTo(Append(s, t), b) = ChargesTo(s, b) + IF b \in BucketsOf(t) THEN 1 ELSE 0
  <1> DEFINE n   == Len(s)
             a   == Append(s, t)
             old == {i \in DOMAIN s : b \in BucketsOf(s[i])}
             new == {i \in DOMAIN a : b \in BucketsOf(a[i])}
  <1>1. /\ n \in Nat /\ DOMAIN s = 1..n /\ DOMAIN a = 1..(n + 1)
        /\ a[n + 1] = t /\ \A i \in 1..n : a[i] = s[i]
    OBVIOUS
  <1> HIDE DEF n, a
  <1>2. IsFiniteSet(old) /\ Cardinality(old) \in Nat
    <2>1. IsFiniteSet(1..n)  BY <1>1, FS_Interval
    <2>2. old \subseteq 1..n  BY <1>1
    <2> HIDE DEF old
    <2> QED  BY <2>1, <2>2, FS_Subset, FS_CardinalityType
  <1>3. n + 1 \notin old  BY <1>1
  <1>4. b \in BucketsOf(t) => new = old \cup {n + 1}
    BY <1>1
  <1>5. b \notin BucketsOf(t) => new = old
    BY <1>1
  <1>6. ChargesTo(s, b) = Cardinality(old) /\ ChargesTo(a, b) = Cardinality(new)
    BY DEF ChargesTo
  <1> HIDE DEF old, new
  <1>7. CASE b \in BucketsOf(t)
    <2>1. Cardinality(new) = Cardinality(old) + 1
      BY <1>2, <1>3, <1>4, <1>7, FS_AddElement
    <2> QED  BY <1>6, <1>7, <2>1 DEF a
  <1>8. CASE b \notin BucketsOf(t)
    <2>1. Cardinality(new) = Cardinality(old) /\ Cardinality(old) = Cardinality(old) + 0
      BY <1>2, <1>5, <1>8
    <2> QED  BY <1>6, <1>8, <2>1 DEF a
  <1> QED  BY <1>7, <1>8

(* A request is charged in the transaction that lets it in, or not at all. *)
LEMMA AdmitCharges ==
  ASSUME SubmissionInv, BudgetsExact, NEW r \in Asks, NEW a \in Agents, Admit(r, a)
  PROVE  /\ usage' \in [Agents -> [Buckets -> Nat]] /\ letIn' \in [Agents -> Seq(0..MaxTicks)]
         /\ ChargedAsLetIn'
  <1>0. /\ now \in 0..MaxTicks /\ usage \in [Agents -> [Buckets -> Nat]]
        /\ letIn \in [Agents -> Seq(0..MaxTicks)] /\ ChargedAsLetIn
    BY DEF BudgetsExact, AgentTypeOK
  <1>1. CASE UNCHANGED <<usage, letIn>>
    BY <1>0, <1>1 DEF ChargedAsLetIn
  <1>2. CASE ~Spent(a) /\ Charge(a, BucketsOf(now)) /\ letIn' = [letIn EXCEPT ![a] = Append(letIn[a], now)]
    <2> DEFINE row == [b \in Buckets |-> usage[a][b] + IF b \in BucketsOf(now) THEN 1 ELSE 0]
               list == Append(letIn[a], now)
    <2>1. row \in [Buckets -> Nat] /\ list \in Seq(0..MaxTicks)
      <3>1. usage[a] \in [Buckets -> Nat] /\ letIn[a] \in Seq(0..MaxTicks)  BY <1>0
      <3> QED  BY <1>0, <3>1
    <2>2. usage' = [usage EXCEPT ![a] = row] /\ letIn' = [letIn EXCEPT ![a] = list]
      BY <1>2 DEF Charge
    <2>3. \A b \in Buckets : row[b] = ChargesTo(list, b)
      <3> SUFFICES ASSUME NEW b \in Buckets PROVE row[b] = ChargesTo(list, b)
        OBVIOUS
      <3>1. letIn[a] \in Seq(0..MaxTicks)  BY <1>0
      <3>2. usage[a][b] = ChargesTo(letIn[a], b)
        BY <1>0 DEF ChargedAsLetIn
      <3>3. ChargesTo(list, b) = ChargesTo(letIn[a], b) + IF b \in BucketsOf(now) THEN 1 ELSE 0
        BY <1>0, <3>1, OneMoreCharged
      <3>4. row[b] = usage[a][b] + IF b \in BucketsOf(now) THEN 1 ELSE 0
        OBVIOUS
      <3> QED  BY <3>2, <3>3, <3>4
    <2>4. \A t \in 0..MaxTicks : row[MinuteOf(t)] <= Rpm /\ row[DayOf(t)] <= DailyRequests
      <3> SUFFICES ASSUME NEW t \in 0..MaxTicks
                   PROVE  row[MinuteOf(t)] <= Rpm /\ row[DayOf(t)] <= DailyRequests
        OBVIOUS
      <3>1. /\ usage[a][MinuteOf(t)] \in Nat /\ usage[a][DayOf(t)] \in Nat
            /\ usage[a][MinuteOf(t)] <= Rpm /\ usage[a][DayOf(t)] <= DailyRequests
            /\ Rpm \in Nat /\ DailyRequests \in Nat
        BY <1>0, BucketTypes, AgentAssumption DEF ChargedAsLetIn
      <3>2. /\ ~(usage[a][MinuteOf(now)] >= Rpm) /\ ~(usage[a][DayOf(now)] >= DailyRequests)
        BY <1>2 DEF Spent
      <3>3. /\ row[MinuteOf(t)] = usage[a][MinuteOf(t)] + IF MinuteOf(t) \in BucketsOf(now) THEN 1 ELSE 0
            /\ row[DayOf(t)] = usage[a][DayOf(t)] + IF DayOf(t) \in BucketsOf(now) THEN 1 ELSE 0
        BY BucketTypes
      <3>4. /\ MinuteOf(t) \in BucketsOf(now) => MinuteOf(t) = MinuteOf(now)
            /\ DayOf(t) \in BucketsOf(now) => DayOf(t) = DayOf(now)
        BY MinuteIsNoDay DEF BucketsOf
      <3> HIDE DEF row
      <3>5. row[MinuteOf(t)] <= Rpm
        BY <3>1, <3>2, <3>3, <3>4
      <3>6. row[DayOf(t)] <= DailyRequests
        BY <3>1, <3>2, <3>3, <3>4
      <3> QED  BY <3>5, <3>6
    <2> HIDE DEF row, list
    <2>5. usage' \in [Agents -> [Buckets -> Nat]] /\ letIn' \in [Agents -> Seq(0..MaxTicks)]
      BY <1>0, <2>1, <2>2
    <2>6. \A e \in Agents : IF e = a THEN usage'[e] = row /\ letIn'[e] = list
                                      ELSE usage'[e] = usage[e] /\ letIn'[e] = letIn[e]
      BY <1>0, <2>2
    <2>7. ChargedAsLetIn'
      BY <1>0, <2>3, <2>4, <2>6 DEF ChargedAsLetIn
    <2> QED  BY <2>5, <2>7
  <1> QED  BY <1>1, <1>2 DEF Admit, Refused

(* What most steps leave of the budgets and the audit.                     *)
LEMMA BudgetsLeft ==
  ASSUME BudgetsExact, UNCHANGED <<usage, letIn>>, now' \in 0..MaxTicks, slips' \in 0..MaxSlips,
         uploading' \in Asks \cup {Free},
         \A a \in Agents : grants'[a].status \in {"none", "live", "revoked"} /\ grants'[a].cases \subseteq Ids',
         \A x \in retries' : x.agent \in Agents /\ x.case \in Ids',
         \A r \in Asks : ask'[r].pc \in {"idle", "admitted", "upload", "answered"},
         audit' \in [Agents -> Nat], told' \in [Agents -> Nat], AnswersAudited'
  PROVE  BudgetsExact'
  <1>1. ChargedAsLetIn'  BY DEF BudgetsExact, ChargedAsLetIn
  <1>2. AgentTypeOK'  BY DEF BudgetsExact, AgentTypeOK
  <1> QED  BY <1>1, <1>2 DEF BudgetsExact

(* A request's steps, but letting it in and submitting.                    *)
LEMMA AnswersKeep ==
  ASSUME SubmissionInv, BudgetsExact, NEW r \in Asks,
         Answer(r) \/ (\E k \in IdempotencyKeys : BeginUpload(r, k)) \/ SubmitNothing(r) \/ Audit(r)
  PROVE  BudgetsExact'
  <1>1. UNCHANGED <<usage, letIn, now, grants, retries, made>>
    BY DEF Answer, BeginUpload, SubmitNothing, Audit
  <1>2. uploading' \in Asks \cup {Free} /\ slips' \in 0..MaxSlips
    BY AgentAssumption DEF BudgetsExact, AgentTypeOK, Answer, BeginUpload, SubmitNothing, Audit, Slips
  <1>3. \A s \in Asks : ask'[s].pc \in {"idle", "admitted", "upload", "answered"}
    <2>1. DOMAIN ask = Asks /\ \A s \in Asks : DOMAIN ask[s] = {"pc", "agent", "key"}
      BY DEF SubmissionInv, RequestsOK
    <2> USE DEF BudgetsExact, AgentTypeOK
    <2>2. CASE Answer(r)  BY <2>1, <2>2 DEF Answer, GoTo
    <2>3. ASSUME NEW k \in IdempotencyKeys, BeginUpload(r, k)
          PROVE  \A s \in Asks : ask'[s].pc \in {"idle", "admitted", "upload", "answered"}
      BY <2>1, <2>3 DEF BeginUpload
    <2>4. CASE SubmitNothing(r)  BY <2>1, <2>4 DEF SubmitNothing, GoTo
    <2>5. CASE Audit(r)  BY <2>1, <2>5 DEF Audit, AtRest
    <2> QED  BY <2>2, <2>3, <2>4, <2>5
  <1>4. audit' \in [Agents -> Nat] /\ told' \in [Agents -> Nat] /\ AnswersAudited'
    <2>1. audit \in [Agents -> Nat] /\ told \in [Agents -> Nat] /\ AnswersAudited
      BY DEF BudgetsExact, AgentTypeOK
    <2>2. CASE UNCHANGED <<audit, told>>  BY <2>1, <2>2 DEF AnswersAudited
    <2>3. CASE Audit(r) /\ audit' = [audit EXCEPT ![ask[r].agent] = @ + 1]
                       /\ told' = [told EXCEPT ![ask[r].agent] = @ + 1]
      <3>1. PICK a \in Agents : a = ask[r].agent
        BY <2>3 DEF Audit, SubmissionInv, RequestsOK
      <3> QED  BY <2>1, <2>3, <3>1 DEF AnswersAudited
    <2> QED  BY <2>2, <2>3 DEF Answer, BeginUpload, SubmitNothing, Audit
  <1> QED  BY <1>1, <1>2, <1>3, <1>4, BudgetsLeft DEF BudgetsExact, AgentTypeOK, Ids

LEMMA BudgetStep == SubmissionInv /\ BudgetsExact /\ [AgentNext]_agentVars => BudgetsExact'
  <1> SUFFICES ASSUME SubmissionInv, BudgetsExact, [AgentNext]_agentVars PROVE BudgetsExact'  OBVIOUS
  <1>0. /\ AgentTypeOK /\ ChargedAsLetIn /\ AnswersAudited
        /\ grants \in [Agents -> Grant] /\ made \in Seq(Case)
        /\ DOMAIN ask = Asks /\ \A s \in Asks : DOMAIN ask[s] = {"pc", "agent", "key"}
    BY DEF BudgetsExact, SubmissionInv, RowsOK, RequestsOK
  <1>1. ASSUME NEW r \in Asks, NEW a \in Agents, Admit(r, a) PROVE BudgetsExact'
    <2>1. usage' \in [Agents -> [Buckets -> Nat]] /\ letIn' \in [Agents -> Seq(0..MaxTicks)] /\ ChargedAsLetIn'
      BY <1>1, AdmitCharges
    <2>2. UNCHANGED <<now, grants, audit, retries, made, uploading, slips, told>>
      BY <1>1 DEF Admit
    <2>3. \A s \in Asks : ask'[s].pc \in {"idle", "admitted", "upload", "answered"}
      BY <1>0, <1>1, ZenonT(30) DEF Admit, AgentTypeOK
    <2>4. AgentTypeOK' /\ AnswersAudited'
      BY <1>0, <2>1, <2>2, <2>3 DEF AgentTypeOK, AnswersAudited, Ids
    <2> QED  BY <2>1, <2>4 DEF BudgetsExact
  <1>2. ASSUME NEW r \in Asks, Submit(r) PROVE BudgetsExact'
    <2>1. PICK a \in Agents, k \in IdempotencyKeys : a = ask[r].agent /\ k = ask[r].key
      BY <1>2 DEF Submit, SubmissionInv, RequestsOK
    <2> DEFINE row == [agent |-> a, key |-> k, day |-> now \div Day, live |-> TRUE]
               c == Len(made) + 1
    <2>2. made' = Append(made, row) /\ UNCHANGED <<now, usage, audit, slips, letIn, told>> /\ uploading' = Free
      BY <1>2, <2>1 DEF Submit
    <2>3. c \in Ids' /\ Ids \subseteq Ids'
      BY <1>0, <2>2 DEF Ids
    <2>4. /\ grants' = [grants EXCEPT ![a] = [grants[a] EXCEPT !.cases = grants[a].cases \cup {c}]]
          /\ retries' = retries \cup {[agent |-> a, key |-> k, case |-> c, day |-> now \div Day]}
          /\ ask' = [ask EXCEPT ![r].pc = "answered"]
      BY <1>0, <1>2, <2>1 DEF Submit, Granted, Remember, GoTo
    <2> HIDE DEF c
    <2>5. /\ \A b \in Agents : grants'[b].status \in {"none", "live", "revoked"} /\ grants'[b].cases \subseteq Ids'
          /\ \A s \in Asks : ask'[s].pc \in {"idle", "admitted", "upload", "answered"}
          /\ \A x \in retries' : x.agent \in Agents /\ x.case \in Ids'
      BY <1>0, <2>3, <2>4 DEF AgentTypeOK, Grant
    <2>6. now' \in 0..MaxTicks /\ slips' \in 0..MaxSlips /\ audit' \in [Agents -> Nat] /\ told' \in [Agents -> Nat]
          /\ AnswersAudited' /\ uploading' \in Asks \cup {Free}
      BY <1>0, <2>2 DEF AgentTypeOK, AnswersAudited
    <2> QED  BY <2>2, <2>5, <2>6, BudgetsLeft
  <1>3. ASSUME NEW a \in Agents, CreateAgent(a) \/ RevokeAgent(a) PROVE BudgetsExact'
    <2>1. UNCHANGED <<now, usage, audit, retries, made, ask, uploading, slips, letIn, told>>
      BY <1>3 DEF CreateAgent, RevokeAgent
    <2> DEFINE Fit(g) == g.status \in {"none", "live", "revoked"} /\ g.cases \subseteq Ids
    <2>2. \A b \in Agents : Fit(grants[b]) /\ grants[b] \in Grant
      BY <1>0 DEF AgentTypeOK
    <2>3. PICK g : Fit(g) /\ grants' = [grants EXCEPT ![a] = g]
      <3>1. CASE CreateAgent(a)
        <4> DEFINE g == [status |-> "live", cases |-> {}, expires |-> now + Lifetime]
        <4>1. Fit(g) /\ grants' = [grants EXCEPT ![a] = g]
          BY <3>1 DEF CreateAgent
        <4> QED  BY <4>1
      <3>2. CASE RevokeAgent(a)
        <4> DEFINE g == [grants[a] EXCEPT !.status = "revoked"]
        <4>1. grants' = [grants EXCEPT ![a] = g]
          BY <1>0, <3>2 DEF RevokeAgent
        <4>2. Fit(g)
          BY <2>2 DEF Grant
        <4> QED  BY <4>1, <4>2
      <3> QED  BY <1>3, <3>1, <3>2
    <2>4. \A b \in Agents : Fit(grants'[b])
      BY <1>0, <2>2, <2>3
    <2> QED  BY <1>0, <2>1, <2>4 DEF BudgetsExact, AgentTypeOK, ChargedAsLetIn, AnswersAudited, Ids
  <1>4. ASSUME NEW c \in Ids, DeleteCase(c) PROVE BudgetsExact'
    <2>1. UNCHANGED <<now, grants, usage, audit, ask, uploading, slips, letIn, told>> /\ retries' \subseteq retries
      BY <1>4 DEF DeleteCase
    <2>2. Ids' = Ids
      BY <1>0, <1>4 DEF DeleteCase, Ids
    <2> QED  BY <1>0, <2>1, <2>2 DEF BudgetsExact, AgentTypeOK, ChargedAsLetIn, AnswersAudited
  <1>5. CASE ClearAll
    <2>1. UNCHANGED <<now, usage, audit, ask, uploading, slips, letIn, told>> /\ retries' = {}
      BY <1>5 DEF ClearAll
    <2>2. Ids' = Ids
      BY <1>5 DEF ClearAll, Ids
    <2>3. \A b \in Agents : grants'[b].status = grants[b].status /\ grants'[b].cases = {}
      <3>1. \A b \in Agents : grants[b] \in Grant /\ grants'[b] = [grants[b] EXCEPT !.cases = {}]
        BY <1>0, <1>5 DEF ClearAll
      <3> QED  BY <3>1 DEF Grant
    <2> QED  BY <1>0, <2>1, <2>2, <2>3 DEF BudgetsExact, AgentTypeOK, ChargedAsLetIn, AnswersAudited
  <1>6. CASE ServerDies
    <2>1. UNCHANGED <<now, grants, usage, audit, retries, made, letIn, told>> /\ uploading' = Free
      BY <1>6 DEF ServerDies
    <2>2. slips' \in 0..MaxSlips /\ \A s \in Asks : ask'[s].pc = "idle"
      BY <1>0, <1>6, AgentAssumption DEF ServerDies, Slips, AtRest, AgentTypeOK
    <2> QED  BY <1>0, <2>1, <2>2, BudgetsLeft DEF AgentTypeOK, AnswersAudited, Ids
  <1>7. CASE TickAgents
    <2>1. now' \in 0..MaxTicks
      BY <1>0, <1>7, AgentAssumption, SMTT(30) DEF TickAgents, AgentTypeOK
    <2>2. UNCHANGED <<grants, usage, audit, retries, made, ask, uploading, slips, letIn, told>>
      BY <1>7 DEF TickAgents
    <2> QED  BY <1>0, <2>1, <2>2, BudgetsLeft DEF AgentTypeOK, AnswersAudited, Ids
  <1>8. CASE UNCHANGED agentVars
    BY <1>0, <1>8 DEF agentVars, BudgetsExact, AgentTypeOK, ChargedAsLetIn, AnswersAudited, Ids
  <1> QED  BY <1>1, <1>2, <1>3, <1>4, <1>5, <1>6, <1>7, <1>8, AnswersKeep DEF AgentNext, AskStep

LEMMA BudgetStart == AgentInit => BudgetsExact
  <1> SUFFICES ASSUME AgentInit PROVE BudgetsExact  OBVIOUS
  <1>1. AgentTypeOK /\ AnswersAudited
    BY AgentAssumption DEF AgentInit, AgentTypeOK, AnswersAudited, AtRest
  <1>2. ASSUME NEW a \in Agents
        PROVE  /\ \A b \in Buckets : usage[a][b] = ChargesTo(letIn[a], b)
               /\ \A t \in 0..MaxTicks : usage[a][MinuteOf(t)] <= Rpm /\ usage[a][DayOf(t)] <= DailyRequests
    <2>1. letIn[a] = <<>> /\ \A b \in Buckets : usage[a][b] = 0
      BY DEF AgentInit
    <2>2. ASSUME NEW b PROVE ChargesTo(<<>>, b) = 0
      <3>1. {i \in DOMAIN <<>> : b \in BucketsOf(<<>>[i])} = {}  OBVIOUS
      <3> QED  BY <3>1, FS_EmptySet DEF ChargesTo
    <2>3. 0 <= Rpm /\ 0 <= DailyRequests  BY AgentAssumption
    <2> QED  BY <2>1, <2>2, <2>3, BucketTypes
  <1>3. ChargedAsLetIn  BY <1>2 DEF ChargedAsLetIn
  <1> QED  BY <1>1, <1>3 DEF BudgetsExact

(* However requests of an agent overlap, are refused or die, it is charged *)
(* exactly for those it was let in for, never beyond the budget of a       *)
(* minute or a day, and hears no answer the audit does not know of.        *)
THEOREM AgentBudgetsExact == AgentSpec => []BudgetsExact
  BY SubmissionInvariant, BudgetStart, BudgetStep, PTL DEF AgentSpec

(* A credential that was revoked, or expired, between the admission of a   *)
(* request and the commit of its capture gets no case out of it.           *)
THEOREM GoneAgentsSubmitNothing == AgentSpec => GoneSubmitNothing
  <1>1. ASSUME SubmissionInv, [AgentNext]_agentVars
        PROVE  [Len(made') > Len(made) =>
                  LET a == made'[Len(made')].agent IN grants[a].status = "live" /\ now < grants[a].expires]_agentVars
    <2> SUFFICES ASSUME AgentNext, Len(made') > Len(made)
                 PROVE  LET a == made'[Len(made')].agent IN grants[a].status = "live" /\ now < grants[a].expires
      BY <1>1
    <2>0. made \in Seq(Case) /\ Len(made) \in Nat
      BY <1>1 DEF SubmissionInv, RowsOK
    <2>1. made' # made
      BY <2>0
    <2>2. ~(\E c \in Ids : DeleteCase(c)) /\ ~ClearAll
      <3>1. ASSUME DOMAIN made' = DOMAIN made, made' \in Seq(Case) PROVE FALSE
        BY <2>0, <3>1
      <3>2. ASSUME NEW c \in Ids, DeleteCase(c) PROVE FALSE
        BY <2>0, <3>1, <3>2 DEF DeleteCase, Case, Ids
      <3>3. ASSUME ClearAll PROVE FALSE
        <4>1. DOMAIN made' = DOMAIN made
          BY <3>3 DEF ClearAll, Ids
        <4>2. \A c \in Ids : made'[c] \in Case
          BY <2>0, <3>3, CaseRows, <1>1 DEF ClearAll, Case, SubmissionInv
        <4> QED  BY <2>0, <3>1, <3>3, <4>1, <4>2 DEF ClearAll, Ids
      <3> QED  BY <3>2, <3>3
    <2>3. PICK r \in Asks : Submit(r)
      BY <2>1, <2>2 DEF AgentNext, AskStep, Admit, Answer, BeginUpload, SubmitNothing, Audit, CreateAgent,
                        RevokeAgent, ServerDies, TickAgents
    <2> DEFINE row == [agent |-> ask[r].agent, key |-> ask[r].key, day |-> now \div Day, live |-> TRUE]
    <2>4. made' = Append(made, row) /\ Valid(ask[r].agent)
      BY <2>3 DEF Submit, StillValid
    <2>5. made'[Len(made')] = row
      <3> HIDE DEF row
      <3> QED  BY <2>0, <2>4
    <2> QED  BY <2>4, <2>5 DEF Valid
  <1> QED  BY <1>1, SubmissionInvariant, PTL DEF AgentSpec, GoneSubmitNothing
=============================================================================
