---------------------------- MODULE ConfigStore ----------------------------
(***************************************************************************)
(* Settings on disk (app/utils/config_manager.py) and the processes that   *)
(* share them: the server of the React workbench, with its workers         *)
(* (app/web/app.py), and the Streamlit workbench (app/ui/config_ui.py).    *)
(*                                                                         *)
(* Of the settings there are a connection to a language model and one      *)
(* secret.  A secret on file is sealed by a key, by its number, or, left   *)
(* by an older version, by none or by the host's name (OldSeal).  The file *)
(* is replaced as a whole, under a lock.  The key file can get lost while  *)
(* nothing runs, and come back from a backup.  A key injected by the       *)
(* environment (PCAP_HUNTER_CONFIG_KEY), for which no key file is read or  *)
(* made, is left out.                                                      *)
(***************************************************************************)
EXTENDS Integers, FiniteSets

CONSTANTS
  Processes,     \* the server and the workbench
  Server,        \* of Processes
  Workbench,     \* of Processes
  Connections,
  Secrets,
  Default,       \* settings of a new installation
  Budgets        \* bounds: how often what happens in a run

NoSecret == ""
NoSeal   == 0
OldSeal  == -1
Absent   == 0    \* of the key file
Empty    == -1   \* created, not yet written
Free     == "free"

Settings == [conn : Connections, secret : Secrets \union {NoSecret}]

ASSUME ConfigAssumption ==
  /\ Server \in Processes /\ Workbench \in Processes \ {Server} /\ Free \notin Processes
  /\ NoSecret \notin Secrets /\ Default \in Settings /\ Default.secret = NoSecret
  /\ Budgets \subseteq [{"saves", "faults", "failures", "jobs", "edits", "queries"} -> Nat]

VARIABLES
  file,     \* the settings file: [form, values, seal]
  key,      \* the key file: Absent, Empty or the number of a key
  keys,     \* keys generated so far
  lock,     \* process that holds the locks of both files, or Free
  temp,     \* what it is about to replace the file by
  fernet,   \* key each process has in memory, 0 when it is down
  put,      \* settings request the server handles
  held,     \* settings the Streamlit session loaded or saved last
  entered,  \* secret last saved by someone who had typed it
  stale,    \* a save was based on settings someone replaced since
  budget,   \* what is left of the bounds
  backup    \* number of the key that got lost, 0 if none did

storeVars == <<file, key, keys, lock, temp, fernet, put, held, entered, stale, budget, backup>>

Spend(what) == budget' = [budget EXCEPT ![what] = @ - 1]

None == [kind |-> "none"]
NoFile == [form |-> "absent", values |-> Default, seal |-> NoSeal]

-----------------------------------------------------------------------------
(* _read_saved(): a file that is missing or does not parse has nothing.    *)
OnFile == IF file.form = "json" THEN file.values ELSE Default
Sealed == file.form = "json" /\ file.values.secret # NoSecret /\ file.seal > 0
SealOutdated == file.form = "json" /\ file.values.secret # NoSecret /\ file.seal = OldSeal

(* load(): a secret of another key cannot be decoded.                      *)
Loads(p) == fernet[p] > 0 /\ lock = Free /\ ~SealOutdated /\ (Sealed => file.seal = fernet[p])

(* _save_locked(): written aside first.                                    *)
Aside(p, new, base, typed) ==
  [kind |-> "new", typed |-> typed, base |-> base,
   file |-> [form |-> "json", values |-> new, seal |-> IF new.secret = NoSecret THEN NoSeal ELSE fernet[p]]]

BeginSave(p, new, base, typed) ==
  /\ lock = Free /\ budget.saves > 0
  /\ lock' = p
  /\ temp' = Aside(p, new, base, typed)
  /\ UNCHANGED file

Replace(p) ==
  /\ lock = p /\ temp.kind = "new"
  /\ file' = temp.file
  /\ stale' = (stale \/ temp.base # OnFile)
  /\ entered' = IF temp.typed THEN temp.file.values.secret ELSE entered
  /\ lock' = Free /\ temp' = None /\ Spend("saves")
  /\ UNCHANGED <<key, keys, fernet, put, held, backup>>

-----------------------------------------------------------------------------
(* ConfigManager(): the first use in a process.  Mutant: it makes a key    *)
(* whenever there is none.                                                 *)
CreatesAnyway == key = Absent
Creates == key = Absent /\ ~Sealed

StartWithKey(p) ==
  /\ fernet[p] = 0 /\ lock = Free /\ key > 0
  /\ fernet' = [fernet EXCEPT ![p] = key]
  /\ UNCHANGED <<file, key, keys, lock, temp, put, held, entered, stale, budget, backup>>

CreateKey(p) ==
  /\ fernet[p] = 0 /\ lock = Free /\ Creates
  /\ key' = Empty /\ lock' = p
  /\ UNCHANGED <<file, keys, temp, fernet, put, held, entered, stale, budget, backup>>

WriteKey(p) ==
  /\ lock = p /\ key = Empty
  /\ keys' = keys + 1 /\ key' = keys + 1
  /\ fernet' = [fernet EXCEPT ![p] = keys + 1]
  /\ lock' = Free
  /\ UNCHANGED <<file, temp, put, held, entered, stale, budget, backup>>

(* Secrets of an older version are sealed by the first load.               *)
Migrate(p) ==
  /\ fernet[p] > 0 /\ SealOutdated
  /\ BeginSave(p, OnFile, OnFile, FALSE)
  /\ UNCHANGED <<key, keys, fernet, put, held, entered, stale, budget, backup>>

-----------------------------------------------------------------------------
(* A secret left empty in the browser keeps the one on file.               *)
MergedPut(loaded, sent) == IF sent.secret = NoSecret THEN [sent EXCEPT !.secret = loaded.secret] ELSE sent

(* save_ui_settings(): load and save take the lock separately.             *)
PutLoad ==
  /\ put.kind = "sent" /\ Loads(Server)
  /\ put' = [kind |-> "loaded", sent |-> put.sent, loaded |-> OnFile]
  /\ UNCHANGED <<file, key, keys, lock, temp, fernet, held, entered, stale, budget, backup>>

PutSave ==
  /\ put.kind = "loaded"
  /\ BeginSave(Server, MergedPut(put.loaded, put.sent), put.loaded, put.sent.secret # NoSecret)
  /\ put' = [kind |-> "saving"]
  /\ UNCHANGED <<key, keys, fernet, held, entered, stale, budget, backup>>

-----------------------------------------------------------------------------
(* init_config_defaults(), load_config()                                   *)
SessionLoad ==
  /\ Loads(Workbench)
  /\ held' = [kind |-> "open", base |-> OnFile]
  /\ UNCHANGED <<file, key, keys, lock, temp, fernet, put, entered, stale, budget, backup>>

(* save_config(): everything the session holds, edited since it was loaded *)
(* or not, and not read again                                              *)
SessionSave(values) ==
  /\ held.kind = "open"
  /\ BeginSave(Workbench, values, held.base, values.secret # held.base.secret)
  /\ held' = [held EXCEPT !.base = values]
  /\ UNCHANGED <<key, keys, fernet, put, entered, stale, budget, backup>>

(* Reset Defaults: the file goes, the key stays.                           *)
SessionReset ==
  /\ held.kind = "open" /\ lock = Free /\ budget.saves > 0
  /\ file' = NoFile /\ entered' = NoSecret /\ Spend("saves")
  /\ held' = [kind |-> "open", base |-> Default]
  /\ UNCHANGED <<key, keys, lock, temp, fernet, put, stale, backup>>

-----------------------------------------------------------------------------
Crash(p) ==
  /\ budget.faults > 0 /\ (fernet[p] > 0 \/ lock = p)
  /\ Spend("faults")
  /\ fernet' = [fernet EXCEPT ![p] = 0]
  /\ lock' = IF lock = p THEN Free ELSE lock
  /\ temp' = IF lock = p THEN None ELSE temp
  /\ put' = IF p = Server THEN None ELSE put
  /\ held' = IF p = Workbench THEN None ELSE held
  /\ UNCHANGED <<file, key, keys, entered, stale, backup>>

LoseKey ==
  /\ budget.faults > 0 /\ key > 0 /\ \A p \in Processes : fernet[p] = 0
  /\ Spend("faults") /\ key' = Absent /\ backup' = key
  /\ UNCHANGED <<file, keys, lock, temp, fernet, put, held, entered, stale>>

RestoreKey ==
  /\ backup > 0 /\ key = Absent /\ lock = Free
  /\ key' = backup /\ backup' = 0
  /\ UNCHANGED <<file, keys, lock, temp, fernet, put, held, entered, stale, budget>>

(* A new installation, or settings an older version left                   *)
StoreInit ==
  /\ \/ file = NoFile /\ entered = NoSecret
     \/ \E s \in Secrets : /\ file = [form |-> "json", values |-> [Default EXCEPT !.secret = s], seal |-> OldSeal]
                           /\ entered = s
  /\ key = Absent /\ keys = 0 /\ lock = Free /\ temp = None /\ fernet = [p \in Processes |-> 0]
  /\ put = None /\ held = None /\ stale = FALSE /\ budget \in Budgets /\ backup = 0

StoreStep ==
  \/ \E p \in Processes : StartWithKey(p) \/ CreateKey(p) \/ WriteKey(p) \/ Migrate(p) \/ Replace(p)
  \/ PutLoad \/ PutSave
  \/ SessionLoad \/ SessionReset
  \/ \E values \in Settings : SessionSave(values)

Faults == LoseKey \/ RestoreKey \/ \E p \in Processes : Crash(p)

-----------------------------------------------------------------------------
(* A secret on file is sealed by the key on file, or by the one that is    *)
(* missing and can be restored: whatever crashed and whoever came first,   *)
(* no other key takes its place (config_manager.py:91-114, 163-177).       *)
SecretsReadable == Sealed => (file.seal = key \/ (key = Absent /\ file.seal = backup))

(* The secret someone typed and saved last is the one on file: a crash,    *)
(* the migration, or a save by someone who did not touch it leaves it,     *)
(* unless a save was based on settings that were replaced since            *)
(* (config_manager.py:163-177, web/app.py:446-461).                        *)
SecretKept == stale \/ OnFile.secret = entered

(* Secrets saved on this machine can be read and are those entered last,   *)
(* whatever crashed or was saved by others (config_manager.py).            *)
SecretsKept == SecretsReadable /\ SecretKept

-----------------------------------------------------------------------------
(***************************************************************************)
(* The inductive invariant behind SecretsKept.                             *)
(***************************************************************************)
FileStates  == [form : {"absent", "json"}, values : Settings, seal : {NoSeal, OldSeal} \union 1..keys]
Writes == [kind : {"new"}, typed : BOOLEAN, base : Settings, file : FileStates]
Puts   == {None, [kind |-> "saving"]} \union [kind : {"sent"}, sent : Settings]
            \union [kind : {"loaded"}, sent : Settings, loaded : Settings]
Sessions == {None} \union [kind : {"open"}, base : Settings]

StoreTypes ==
  /\ keys \in Nat /\ key \in {Absent, Empty} \union 1..keys /\ backup \in 0..keys
  /\ fernet \in [Processes -> 0..keys] /\ lock \in Processes \union {Free}
  /\ file \in FileStates /\ temp \in {None} \union Writes
  /\ put \in Puts /\ held \in Sessions /\ stale \in BOOLEAN

(* A process never holds a key but that on file, and whoever is in the     *)
(* middle of a request or a session holds it.                              *)
KeyHeld ==
  /\ \A p \in Processes : fernet[p] > 0 => fernet[p] = key
  /\ put.kind = "loaded" => fernet[Server] > 0
  /\ held.kind = "open" => fernet[Workbench] > 0

(* What is written aside is sealed by the process that holds the lock, and *)
(* has a new secret only if it was typed.                                  *)
AsideSealed ==
  temp # None =>
    /\ lock \in Processes /\ fernet[lock] > 0
    /\ temp.file.form = "json"
    /\ temp.file.values.secret # NoSecret => temp.file.seal = fernet[lock]
    /\ ~temp.typed => temp.file.values.secret = temp.base.secret

StoreInv == StoreTypes /\ KeyHeld /\ AsideSealed /\ SecretsReadable /\ SecretKept
=============================================================================
