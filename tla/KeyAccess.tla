----------------------------- MODULE KeyAccess -----------------------------
(***************************************************************************)
(* API keys: authenticate() of app/api/key_auth.py with the sliding window *)
(* of rate_limiter.py and the counters of usage_tracker.py, the admin      *)
(* handlers of routers/admin.py, the workbench's key tab, and the start    *)
(* and stop of the API process (app/api/app.py).                           *)
(*                                                                         *)
(* Handlers run in threads.  An action is a statement on the key database  *)
(* or a section under one of the two locks, so a thread may stop between   *)
(* looking a key up, reading the clock, entering the window and counting   *)
(* the request.  The limiter and the counters live in the process; the     *)
(* workbench shares only the database.  A key's daily counters are written *)
(* in the transaction that writes its total and are left out.              *)
(***************************************************************************)
EXTENDS Naturals, Sequences, FiniteSets

CONSTANTS
  Keys, Threads, Admins,
  Limits,      \* rate limits a key may be given; 0 is unlimited (NULL)
  Window,      \* the 60 seconds of the limiter
  MaxDelay,    \* longest stop of a thread between the clock and the lock
  EnvMain,     \* whether PCAP_HUNTER_API_KEY is set
  MaxTime,     \* bound on the clock
  MaxUses,     \* bound on the requests of a key
  MaxFaults,   \* bound on failing database writes and deaths
  InitialKeys  \* keys that exist at first, live and of full scope

ASSUME KeyAssumption ==
  /\ Limits \subseteq Nat
  /\ MaxDelay \in Nat /\ Window \in Nat /\ MaxDelay <= Window
  /\ EnvMain \in BOOLEAN
  /\ MaxTime \in Nat \ {0} /\ MaxUses \in Nat /\ MaxFaults \in Nat
  /\ InitialKeys \subseteq Keys /\ Keys # {}

VARIABLES
  clock, up,
  keys,      \* the rows of api_keys
  window,    \* RateLimiter._windows
  thread,    \* requests that present a key
  pending,   \* UsageTracker._counts and _last_used
  flush,     \* the flush in progress
  admin,     \* admin requests
  faults,
  served, lost, admitted, culprit  \* history, see below

ramVars     == <<window, thread, pending, flush, admin>>
historyVars == <<served, lost, admitted, culprit>>
vars        == <<clock, up, keys, ramVars, faults, historyVars>>

-----------------------------------------------------------------------------
(* Rows, and what authenticate and count_active_keys make of them.         *)

(* aware: the expiry names its offset.  Python compares no such time with  *)
(* the naive datetime.now(): whoever asks whether the key is live raises.  *)
Never  == MaxTime + 1
NoKey  == [status |-> "none", full |-> FALSE, limit |-> 0, expires |-> Never, aware |-> FALSE,
           total |-> 0, last |-> 0]
NewKey(full, limit, expires) ==
  [status |-> "live", full |-> full, limit |-> limit, expires |-> expires, aware |-> FALSE,
   total |-> 0, last |-> 0]

Raises(row) == row.status = "live" /\ row.aware
Usable(k)   == keys[k].status = "live" /\ ~keys[k].aware /\ clock <= keys[k].expires

(* The database compares the times as text, and counts such a key.         *)
Counted(k)  == keys[k].status = "live" /\ clock < keys[k].expires
FullKeys    == {k \in Keys : Counted(k) /\ keys[k].full}
LockedOut   == ~EnvMain /\ \A k \in FullKeys : keys[k].aware

Zero      == [count |-> 0, last |-> 0]
NoUse     == [k \in Keys |-> Zero]
Idle      == [pc |-> "idle", key |-> CHOOSE k \in Keys : TRUE, limit |-> 0, now |-> 0]
IdleAdmin == [pc |-> "idle", key |-> CHOOSE k \in Keys : TRUE, warned |-> FALSE]
NoFlush   == [pc |-> "idle", stopping |-> FALSE, left |-> {}, key |-> CHOOSE k \in Keys : TRUE,
              batch |-> NoUse, failed |-> NoUse]

Init ==
  /\ clock = 1 /\ up = TRUE /\ faults = 0
  /\ keys = [k \in Keys |-> IF k \in InitialKeys THEN NewKey(TRUE, 0, Never) ELSE NoKey]
  /\ window = [k \in Keys |-> <<>>]
  /\ thread = [t \in Threads |-> Idle]
  /\ pending = NoUse
  /\ flush = NoFlush
  /\ admin = [a \in Admins |-> IdleAdmin]
  /\ served = NoUse
  /\ culprit = "none"
  /\ lost = [k \in Keys |-> 0]
  /\ admitted = [k \in Keys |-> <<>>]

(* culprit: as history, whose change left no source of full scope.         *)
BlameAdmin == culprit' = IF LockedOut' /\ ~LockedOut THEN "admin" ELSE culprit
BlameOther == culprit' = IF LockedOut' /\ ~LockedOut THEN "other" ELSE culprit

Tick ==
  /\ clock < MaxTime
  /\ \A t \in Threads : thread[t].pc = "timed" => clock < thread[t].now + MaxDelay
  /\ clock' = clock + 1
  /\ UNCHANGED <<up, keys, ramVars, faults, served, lost, admitted>>
  /\ BlameOther

-----------------------------------------------------------------------------
(* authenticate(): a request presents key k.                               *)

Step(t, rec) == thread' = [thread EXCEPT ![t] = rec]

InFlight(k) == {t \in Threads : thread[t].pc # "idle" /\ thread[t].key = k}

(* The row is read; a key that is unknown, revoked or expired, or lacks    *)
(* the scope, is refused, which changes nothing.                           *)
LookUp(t, k) ==
  /\ up /\ thread[t].pc = "idle" /\ ~flush.stopping
  /\ Usable(k)
  /\ served[k].count + Cardinality(InFlight(k)) < MaxUses
  /\ Step(t, [pc |-> IF keys[k].limit = 0 THEN "record" ELSE "limit",
              key |-> k, limit |-> keys[k].limit, now |-> 0])
  /\ UNCHANGED <<clock, up, keys, window, pending, flush, admin, faults, historyVars>>

(* RateLimiter.check reads the clock before it takes the lock.             *)
ReadClock(t) ==
  /\ thread[t].pc = "limit"
  /\ Step(t, [thread[t] EXCEPT !.pc = "timed", !.now = clock])
  /\ UNCHANGED <<clock, up, keys, window, pending, flush, admin, faults, historyVars>>

(* Entries are dropped from the left while they are older than the window. *)
(* They need not be in order: `late` is the first that stays.              *)
Stays(w, now)   == {i \in 1..Len(w) : w[i] + Window >= now}
Evict(w, now)   ==
  IF Stays(w, now) = {} THEN <<>>
  ELSE SubSeq(w, CHOOSE i \in Stays(w, now) : \A j \in Stays(w, now) : i <= j, Len(w))

(* Mutant: the window is full one request late.                            *)
FullOneMore(w, limit) == Len(w) > limit

Full(w, limit) == Len(w) >= limit

(* admitted: when requests of a key really entered its window, since the   *)
(* window was last reset.                                                  *)
CheckLimit(t) ==
  LET k == thread[t].key
      w == Evict(window[k], thread[t].now)
  IN /\ thread[t].pc = "timed"
     /\ IF Full(w, thread[t].limit)
        THEN /\ window' = [window EXCEPT ![k] = w]
             /\ Step(t, Idle)
             /\ UNCHANGED admitted
        ELSE /\ window' = [window EXCEPT ![k] = Append(w, thread[t].now)]
             /\ Step(t, [thread[t] EXCEPT !.pc = "record"])
             /\ admitted' = [admitted EXCEPT ![k] = Append(@, clock)]
     /\ UNCHANGED <<clock, up, keys, pending, flush, admin, faults, served, lost, culprit>>

(* UsageTracker.record; served counts, as history, what it was called for. *)
Record(t) ==
  LET k == thread[t].key IN
  /\ thread[t].pc = "record"
  /\ pending' = [pending EXCEPT ![k] = [count |-> @.count + 1, last |-> clock]]
  /\ served' = [served EXCEPT ![k] = [count |-> @.count + 1, last |-> clock]]
  /\ Step(t, Idle)
  /\ UNCHANGED <<clock, up, keys, window, flush, admin, faults, lost, admitted, culprit>>

-----------------------------------------------------------------------------
(* UsageTracker.flush, once a minute and when the process stops.  It runs  *)
(* on the event loop: one at a time, with request threads beside it.       *)

UsedKeys == {k \in Keys : pending[k].count > 0}

Swapped == NoUse

FlushTake(stopping) ==
  /\ up /\ flush.pc = "idle" /\ ~flush.stopping
  /\ stopping => \A t \in Threads : thread[t].pc = "idle"
  /\ stopping => \A a \in Admins : admin[a].pc \in {"idle", "done"}
  /\ stopping \/ UsedKeys # {}
  /\ flush' = [NoFlush EXCEPT !.pc = "next", !.stopping = stopping,
                              !.left = UsedKeys, !.batch = pending]
  /\ pending' = Swapped
  /\ UNCHANGED <<clock, up, keys, window, thread, admin, faults, historyVars>>

Failing == faults < MaxFaults /\ faults' = faults + 1

(* One transaction adds the count ...                                      *)
FlushIncrement(k) ==
  /\ flush.pc = "next" /\ k \in flush.left
  /\ \/ /\ keys' = [keys EXCEPT ![k].total = @ + flush.batch[k].count]
        /\ flush' = [flush EXCEPT !.pc = "touch", !.key = k]
        /\ UNCHANGED faults
     \/ /\ Failing
        /\ flush' = [flush EXCEPT !.left = @ \ {k}, !.failed[k] = flush.batch[k]]
        /\ UNCHANGED keys
  /\ UNCHANGED <<clock, up, window, thread, pending, admin, historyVars>>

(* ... and another sets last_used_at.  If only this one fails the entry is *)
(* restored all the same, so its requests will be added again.             *)
FlushTouch ==
  LET k == flush.key IN
  /\ flush.pc = "touch"
  /\ \/ /\ keys' = [keys EXCEPT ![k].last = flush.batch[k].last]
        /\ flush' = [flush EXCEPT !.pc = "next", !.left = @ \ {k}]
        /\ UNCHANGED faults
     \/ /\ Failing
        /\ flush' = [flush EXCEPT !.pc = "next", !.left = @ \ {k}, !.failed[k] = flush.batch[k]]
        /\ UNCHANGED keys
  /\ UNCHANGED <<clock, up, window, thread, pending, admin, historyVars>>

(* Mutant: what failed is dropped.                                         *)
RestoredNot(k) ==
  IF pending[k].count > 0 \/ flush.failed[k].count = 0 THEN pending[k] ELSE flush.failed[k]

(* What failed is added to what was counted meanwhile.                     *)
Restored(k) ==
  [count |-> pending[k].count + flush.failed[k].count,
   last  |-> IF pending[k].last >= flush.failed[k].last THEN pending[k].last ELSE flush.failed[k].last]

FlushRestore ==
  /\ flush.pc = "next" /\ flush.left = {} /\ ~flush.stopping
  /\ pending' = [k \in Keys |-> Restored(k)]
  /\ flush' = NoFlush
  /\ UNCHANGED <<clock, up, keys, window, thread, admin, faults, historyVars>>

(* The process is gone, and with it all it kept in memory.                 *)
Gone ==
  /\ up' = FALSE
  /\ window' = [k \in Keys |-> <<>>]
  /\ thread' = [t \in Threads |-> Idle]
  /\ pending' = NoUse
  /\ flush' = NoFlush
  /\ admin' = [a \in Admins |-> IdleAdmin]
  /\ admitted' = [k \in Keys |-> <<>>]
  /\ culprit' = "none"
  /\ served' = [k \in Keys |-> [served[k] EXCEPT !.last = keys[k].last]]

(* What has been counted and is not in the database.  A key that is being  *)
(* touched is in it already.                                               *)
Unflushed(k) ==
  pending[k].count + flush.failed[k].count
  + (IF k \in flush.left /\ ~(flush.pc = "touch" /\ flush.key = k) THEN flush.batch[k].count ELSE 0)

(* lost: as history, what went with a process.                             *)
ShutDown ==
  /\ flush.pc = "next" /\ flush.left = {} /\ flush.stopping
  /\ lost' = [k \in Keys |-> lost[k] + Unflushed(k)]
  /\ Gone
  /\ UNCHANGED <<clock, keys, faults>>

Crash ==
  /\ up /\ Failing
  /\ lost' = [k \in Keys |-> lost[k] + Unflushed(k)]
  /\ Gone
  /\ UNCHANGED <<clock, keys>>

(* create_app() refuses to start when no key could ever be accepted.       *)
Boot ==
  /\ ~up
  /\ EnvMain \/ \E k \in Keys : Counted(k)
  /\ up' = TRUE
  /\ UNCHANGED <<clock, keys, ramVars, faults, historyVars>>

-----------------------------------------------------------------------------
(* /api/v1/admin/keys.  Every request needs a full-scope key first.        *)

AdminTo(a, rec) == admin' = [admin EXCEPT ![a] = rec]

AdminStart(a) ==
  /\ up /\ ~flush.stopping /\ ~LockedOut
  /\ admin[a].pc \in {"idle", "done"}
  /\ \E k \in Keys, pc \in {"revoke", "patch"} :
       /\ keys[k].status # "none"
       /\ AdminTo(a, [pc |-> pc, key |-> k, warned |-> FALSE])
  /\ UNCHANGED <<clock, up, keys, window, thread, pending, flush, faults, historyVars>>

(* KeyRepository.revoke_key                                                *)
RevokedRow(k) == [keys EXCEPT ![k].status = IF @ = "live" THEN "revoked" ELSE @]

AdminRevoke(a) ==
  /\ admin[a].pc = "revoke"
  /\ keys' = RevokedRow(admin[a].key)
  /\ AdminTo(a, [admin[a] EXCEPT !.pc = "reset"])
  /\ UNCHANGED <<clock, up, window, thread, pending, flush, faults, served, lost, admitted>>
  /\ BlameAdmin

(* rate_limiter.reset                                                      *)
AdminReset(a) ==
  LET k == admin[a].key IN
  /\ admin[a].pc = "reset"
  /\ window' = [window EXCEPT ![k] = <<>>]
  /\ admitted' = [admitted EXCEPT ![k] = <<>>]
  /\ AdminTo(a, [admin[a] EXCEPT !.pc = "count"])
  /\ UNCHANGED <<clock, up, keys, thread, pending, flush, faults, served, lost, culprit>>

(* PATCH: any of scope, rate limit and expiry, which may name its offset.  *)
(* The answer shows the key's status: it is committed, and that raises, so *)
(* that nobody counts.                                                     *)
AdminPatch(a) ==
  LET k == admin[a].key IN
  /\ admin[a].pc = "patch"
  /\ \/ \E full \in BOOLEAN : keys' = [keys EXCEPT ![k].full = full]
     \/ \E limit \in Limits : keys' = [keys EXCEPT ![k].limit = limit]
     \/ \E expires \in 1..MaxTime, aware \in BOOLEAN :
          keys' = [keys EXCEPT ![k] = [@ EXCEPT !.expires = expires, !.aware = aware]]
  /\ AdminTo(a, [admin[a] EXCEPT !.pc = IF Raises(keys'[k]) THEN "done" ELSE "count"])
  /\ UNCHANGED <<clock, up, window, thread, pending, flush, faults, served, lost, admitted>>
  /\ BlameAdmin

(* _full_scope_lockout_warning: counted after the change, on its own.      *)
AdminCount(a) ==
  /\ admin[a].pc = "count"
  /\ AdminTo(a, [admin[a] EXCEPT !.pc = "done", !.warned = ~EnvMain /\ FullKeys = {}])
  /\ UNCHANGED <<clock, up, keys, window, thread, pending, flush, faults, historyVars>>

(* New keys come from POST /admin/keys or from the key tab, which also     *)
(* revokes, without the limiter's process noticing.                        *)
CreateKey(k) ==
  /\ keys[k].status = "none"
  /\ \E full \in BOOLEAN, limit \in Limits, expires \in {Never} \cup (clock + 1)..MaxTime :
       keys' = [keys EXCEPT ![k] = NewKey(full, limit, expires)]
  /\ UNCHANGED <<clock, up, ramVars, faults, historyVars>>

TabRevoke(k) ==
  /\ keys[k].status = "live"
  /\ keys' = RevokedRow(k)
  /\ UNCHANGED <<clock, up, ramVars, faults, served, lost, admitted>>
  /\ BlameOther

ThreadStep(t) == ReadClock(t) \/ CheckLimit(t) \/ Record(t)
AdminStep(a)  == AdminRevoke(a) \/ AdminReset(a) \/ AdminPatch(a) \/ AdminCount(a)

Next ==
  \/ Tick
  \/ \E t \in Threads : ThreadStep(t) \/ \E k \in Keys : LookUp(t, k)
  \/ \E stopping \in BOOLEAN : FlushTake(stopping)
  \/ \E k \in Keys : FlushIncrement(k)
  \/ FlushTouch \/ FlushRestore \/ ShutDown \/ Crash \/ Boot
  \/ \E a \in Admins : AdminStart(a) \/ AdminStep(a)
  \/ \E k \in Keys : CreateKey(k) \/ TabRevoke(k)

Spec == Init /\ [][Next]_vars

(* Threads go on.  No request has to come.                                 *)
Fairness == \A t \in Threads : WF_vars(ThreadStep(t))
FairSpec == Spec /\ Fairness

-----------------------------------------------------------------------------
Use    == [count : Nat, last : 0..MaxTime]
Row    == [status : {"none", "live", "revoked"}, full : BOOLEAN, limit : Limits \cup {0},
           expires : Nat, aware : BOOLEAN, total : Nat, last : 0..MaxTime]
Thread == [pc : {"idle", "limit", "timed", "record"}, key : Keys, limit : Limits \cup {0}, now : 0..MaxTime]
Flush  == [pc : {"idle", "next", "touch"}, stopping : BOOLEAN, left : SUBSET Keys, key : Keys,
           batch : [Keys -> Use], failed : [Keys -> Use]]
Admin  == [pc : {"idle", "revoke", "reset", "patch", "count", "done"}, key : Keys, warned : BOOLEAN]

TypeOK ==
  /\ clock \in 1..MaxTime /\ up \in BOOLEAN /\ faults \in 0..MaxFaults
  /\ keys \in [Keys -> Row]
  /\ window \in [Keys -> Seq(1..MaxTime)]
  /\ thread \in [Threads -> Thread]
  /\ pending \in [Keys -> Use]
  /\ flush \in Flush
  /\ admin \in [Admins -> Admin]
  /\ culprit \in {"none", "admin", "other"}
  /\ served \in [Keys -> Use] /\ lost \in [Keys -> Nat] /\ admitted \in [Keys -> Seq(1..MaxTime)]

(* A request is let in only while fewer than its limit were let in within  *)
(* the last minute, less the longest stop of a thread: reading the clock   *)
(* outside the lock puts entries out of order and costs no more than that. *)
RateBound ==
  [][\A t \in Threads :
       LET k == thread[t].key IN
       admitted'[k] # admitted[k] /\ thread'[t].pc = "record" /\ thread[t].pc = "timed" =>
         Cardinality({i \in 1..Len(admitted[k]) : admitted[k][i] + Window >= clock + MaxDelay})
           < thread[t].limit]_vars

(* Every request that was served is in the database, in memory, in the     *)
(* flush under way, or went down with a process; failing flushes lose none.*)
UsageNeverLost == \A k \in Keys : keys[k].total + Unflushed(k) + lost[k] >= served[k].count

(* Without failures each is counted once.                                  *)
UsageExact ==
  faults = 0 => \A k \in Keys : keys[k].total + Unflushed(k) + lost[k] = served[k].count

(* However flushes fail and requests come meanwhile, the time of the last  *)
(* request is on its way to the database, and nothing later.               *)
LastUseKept ==
  \A k \in Keys :
    LET times == {keys[k].last, pending[k].last, flush.failed[k].last}
                   \cup IF k \in flush.left THEN {flush.batch[k].last} ELSE {}
    IN served[k].last \in times /\ \A time \in times : time <= served[k].last

(* The usage of a key survives failing flushes, overlapping requests and   *)
(* flushes, and restarts (usage_tracker.py:26-78).                         *)
UsageKept == TypeOK /\ UsageNeverLost /\ UsageExact /\ LastUseKept

(* If an admin request took away the last source of full scope, one of     *)
(* those answered since said so, however their changes and counts met ...  *)
LockoutAlwaysWarned ==
  LockedOut /\ culprit = "admin" /\ (\A a \in Admins : admin[a].pc \in {"idle", "done"})
    => \E a \in Admins : admin[a].warned

(* ... which holds as long as no expiry of a key names an offset.          *)
NoOffsets == \A k \in Keys : keys[k].status # "none" => ~keys[k].aware

LockoutWarned == NoOffsets => LockoutAlwaysWarned

(* Requests that looked a key up before it was revoked end, and no others  *)
(* follow them.                                                            *)
RevokedKeysFallSilent ==
  \A k \in Keys :
    <>[](keys[k].status = "revoked" => \A t \in Threads : thread[t].pc # "idle" => thread[t].key # k)

-----------------------------------------------------------------------------
(***************************************************************************)
(* The inductive invariants behind the properties above.                   *)
(***************************************************************************)
(* A key that is not there has no uses on their way.                       *)
KeysExist ==
  \A k \in Keys : keys[k].status = "none" =>
    /\ keys[k].total = 0 /\ keys[k].last = 0
    /\ pending[k].count = 0 /\ flush.failed[k].count = 0 /\ k \notin flush.left
    /\ \A t \in Threads : thread[t].pc # "idle" => thread[t].key # k

(* What a flush has in hand: a use fails or is left to flush, never both.  *)
FlushOK ==
  /\ flush.pc = "idle" => flush = NoFlush
  /\ flush.pc = "touch" => flush.key \in flush.left
  /\ \A k \in Keys :
       /\ pending[k].count = 0 => pending[k].last = 0
       /\ flush.failed[k].count = 0 => flush.failed[k].last = 0
       /\ k \in flush.left => flush.batch[k].count > 0 /\ flush.failed[k].count = 0

(* The newest time of use is where the next flush will find it, and no     *)
(* older one is written over a newer.                                      *)
LastUse(k) ==
  IF pending[k].count > 0 THEN pending[k].last
  ELSE IF flush.failed[k].count > 0 THEN flush.failed[k].last
  ELSE IF k \in flush.left THEN flush.batch[k].last
  ELSE keys[k].last

UsesInOrder ==
  \A k \in Keys :
    /\ served[k].last = LastUse(k) /\ served[k].last <= clock
    /\ keys[k].last <= served[k].last
    /\ k \in flush.left =>
         keys[k].last <= flush.batch[k].last /\ flush.batch[k].last <= served[k].last
    /\ flush.failed[k].count > 0 =>
         keys[k].last <= flush.failed[k].last /\ flush.failed[k].last <= served[k].last

UsageInv == KeysExist /\ FlushOK /\ UsesInOrder /\ UsageNeverLost /\ UsageExact

(* A thread between the clock and the lock.                                *)
ClockRead ==
  \A t \in Threads : thread[t].pc = "timed" =>
    thread[t].now \in 1..clock /\ clock <= thread[t].now + MaxDelay

(* The window is the end of the requests let in, each entered by a clock   *)
(* read at most MaxDelay before; what is no longer in it is old.           *)
WindowOf(k) ==
  LET gone == Len(admitted[k]) - Len(window[k])
  IN  /\ gone \in Nat
      /\ \A i \in 1..gone : admitted[k][i] + Window < clock + MaxDelay
      /\ \A i \in 1..Len(window[k]) :
           /\ window[k][i] <= admitted[k][i + gone]
           /\ admitted[k][i + gone] <= window[k][i] + MaxDelay

WindowInv == ClockRead /\ \A k \in Keys : WindowOf(k)

(* While nobody has full scope, nobody who said so is asked again; and,    *)
(* with no offset in an expiry, an administrator who brought it about says *)
(* so or is about to count.                                                *)
WarningDue ==
  /\ \A a \in Admins : admin[a].warned => admin[a].pc = "done"
  /\ LockedOut /\ culprit = "admin" /\ NoOffsets =>
       \E a \in Admins : admin[a].pc \in {"reset", "count"} \/ admin[a].warned

KeyInv == TypeOK /\ UsageInv /\ WindowInv /\ WarningDue
=============================================================================
