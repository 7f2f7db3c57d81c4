----------------------------- MODULE PagesProofs -----------------------------
(***************************************************************************)
(* Theorems about the pages a user works in: the settings page with the    *)
(* files behind it (ConfigStore, SettingsTab), and the workbench with its  *)
(* polls, uploads and cases (Workbench).                                   *)
(***************************************************************************)
EXTENDS SettingsTab, Workbench, SequenceTheorems, WellFoundedInduction, TLAPS

-----------------------------------------------------------------------------
(* The settings page.                                                      *)

LEMMA InitialValues == Default \in Settings /\ PublicConfig(Default) \in Settings
  BY ConfigAssumption DEF Settings, PublicConfig

LEMMA SavedType == StoreTypes => OnFile \in Settings /\ PublicConfig(OnFile) \in Settings
  BY InitialValues, ConfigAssumption DEF StoreTypes, OnFile, FileStates, PublicConfig, Settings

-----------------------------------------------------------------------------
LEMMA StoreStart == StoreInit => StoreInv
  <1> SUFFICES ASSUME StoreInit PROVE StoreInv  OBVIOUS
  <1>1. file \in FileStates /\ ~Sealed /\ OnFile.secret = entered
    <2>1. CASE file = NoFile /\ entered = NoSecret
      BY <2>1, InitialValues, ConfigAssumption DEF NoFile, FileStates, Sealed, OnFile
    <2>2. CASE \E s \in Secrets :
                 /\ file = [form |-> "json", values |-> [Default EXCEPT !.secret = s], seal |-> OldSeal]
                 /\ entered = s
      BY <2>2, InitialValues DEF FileStates, Sealed, OnFile, Settings, OldSeal
    <2> QED  BY <2>1, <2>2 DEF StoreInit
  <1>2. StoreTypes
    <2>1. /\ keys = 0 /\ key = Absent /\ backup = 0 /\ lock = Free /\ temp = None
          /\ put = None /\ held = None /\ stale = FALSE
          /\ fernet = [p \in Processes |-> 0]
      BY DEF StoreInit
    <2>2. fernet \in [Processes -> 0..keys]
      BY <2>1
    <2>3. /\ keys \in Nat /\ key \in {Absent, Empty} \union 1..keys /\ backup \in 0..keys
          /\ lock \in Processes \union {Free}
      BY <2>1
    <2>4. /\ temp \in {None} \union Writes /\ put \in Puts /\ held \in Sessions
          /\ stale \in BOOLEAN
      BY <2>1, Zenon DEF Puts, Sessions
    <2> QED BY <1>1, <2>2, <2>3, <2>4 DEF StoreTypes
  <1>3. KeyHeld /\ AsideSealed
    BY DEF StoreInit, KeyHeld, AsideSealed, None
  <1>4. SecretsReadable /\ SecretKept
    BY <1>1 DEF SecretsReadable, SecretKept
  <1> QED  BY <1>2, <1>3, <1>4 DEF StoreInv

(* What a process that has the key writes aside.                           *)
LEMMA AsideType ==
  ASSUME StoreTypes, NEW p \in Processes, fernet[p] > 0,
         NEW new \in Settings, NEW base \in Settings, NEW typed \in BOOLEAN
  PROVE  /\ Aside(p, new, base, typed) \in Writes
         /\ Aside(p, new, base, typed) # None
         /\ Aside(p, new, base, typed).typed = typed
         /\ Aside(p, new, base, typed).base = base
         /\ Aside(p, new, base, typed).file.form = "json"
         /\ Aside(p, new, base, typed).file.values = new
         /\ new.secret # NoSecret => Aside(p, new, base, typed).file.seal = fernet[p]
<1> DEFINE seal == IF new.secret = NoSecret THEN NoSeal ELSE fernet[p]
           f == [form |-> "json", values |-> new, seal |-> seal]
<1>1. seal \in {NoSeal, OldSeal} \union 1..keys
  BY DEF StoreTypes
<1>2. f \in FileStates
  BY <1>1 DEF FileStates
<1>3. Aside(p, new, base, typed) = [kind |-> "new", typed |-> typed, base |-> base, file |-> f]
  BY DEF Aside
<1> HIDE DEF f
<1>4. Aside(p, new, base, typed) \in Writes /\ Aside(p, new, base, typed) # None
  BY <1>2, <1>3 DEF Writes, None
<1>5. f.form = "json" /\ f.values = new /\ f.seal = seal
  BY DEF f
<1> QED BY <1>3, <1>4, <1>5

(* Beginning a save by a process that has the key keeps the invariant.     *)
LEMMA BeginKeeps ==
  ASSUME StoreInv, NEW p \in Processes, fernet[p] > 0,
         NEW new \in Settings, NEW base \in Settings, NEW typed \in BOOLEAN,
         typed \/ new.secret = base.secret,
         BeginSave(p, new, base, typed),
         put' \in Puts, put'.kind = "loaded" => put.kind = "loaded",
         held' \in Sessions, held'.kind = "open" => held.kind = "open",
         UNCHANGED <<key, keys, fernet, entered, stale, backup>>
  PROVE  StoreInv'
<1>1. temp' = Aside(p, new, base, typed) /\ lock' = p /\ file' = file
  BY DEF BeginSave
<1>2. StoreTypes'
  BY <1>1, AsideType DEF StoreInv, StoreTypes, Writes, FileStates
<1>3. AsideSealed'
  BY <1>1, AsideType DEF StoreInv, AsideSealed
<1> QED
  BY <1>1, <1>2, <1>3 DEF StoreInv, KeyHeld, SecretsReadable, SecretKept, Sealed, OnFile

(* Nothing is aside while nobody has the locks, or nobody the key.         *)
LEMMA NothingAside ==
  ASSUME StoreInv, lock = Free \/ key <= 0
  PROVE  temp = None
BY ConfigAssumption DEF StoreInv, StoreTypes, AsideSealed, KeyHeld, Free

(* A step that leaves the files and what is written aside.                 *)
LEMMA FilesStay ==
  ASSUME StoreInv, UNCHANGED <<file, key, keys, lock, temp, entered, stale, backup>>,
         fernet' \in [Processes -> 0..keys],
         \A p \in Processes : fernet'[p] = fernet[p] \/ (fernet[p] = 0 /\ fernet'[p] = key),
         put' \in Puts, put'.kind = "loaded" => fernet'[Server] > 0,
         held' \in Sessions, held'.kind = "open" => fernet'[Workbench] > 0
  PROVE  StoreInv'
<1>1. StoreTypes'
  BY DEF StoreInv, StoreTypes, Writes, FileStates
<1>2. KeyHeld'
  BY DEF StoreInv, KeyHeld
<1>3. AsideSealed'
  BY DEF StoreInv, AsideSealed, StoreTypes
<1> QED BY <1>1, <1>2, <1>3 DEF StoreInv, SecretsReadable, SecretKept, Sealed, OnFile

LEMMA StoreStepKeeps ==
  ASSUME StoreInv, StoreStep
  PROVE  StoreInv'
<1>0. /\ keys \in Nat /\ key \in {Absent, Empty} \union 1..keys /\ backup \in 0..keys
      /\ fernet \in [Processes -> 0..keys] /\ put \in Puts /\ held \in Sessions
      /\ Server \in Processes /\ Workbench \in Processes /\ Free \notin Processes
  BY ConfigAssumption DEF StoreInv, StoreTypes
<1>1. ASSUME NEW p \in Processes, StartWithKey(p) PROVE StoreInv'
  <2>1. fernet' \in [Processes -> 0..keys] /\ UNCHANGED <<put, held>>
    BY <1>0, <1>1 DEF StartWithKey, Absent, Empty
  <2>2. \A q \in Processes : fernet'[q] = fernet[q] \/ (fernet[q] = 0 /\ fernet'[q] = key)
    BY <1>0, <1>1 DEF StartWithKey
  <2>3. /\ put'.kind = "loaded" => fernet'[Server] > 0
        /\ held'.kind = "open" => fernet'[Workbench] > 0
    BY <1>0, <1>1, <2>1, <2>2 DEF StoreInv, KeyHeld, StartWithKey
  <2> QED BY <1>0, <1>1, <2>1, <2>2, <2>3, FilesStay DEF StartWithKey
<1>2. ASSUME NEW p \in Processes, CreateKey(p) PROVE StoreInv'
  <2>1. temp = None /\ ~Sealed /\ \A q \in Processes : fernet[q] = 0
    BY <1>0, <1>2, NothingAside DEF CreateKey, Creates, StoreInv, KeyHeld, Absent
  <2>2. StoreTypes'
    BY <1>0, <1>2, <2>1 DEF CreateKey, StoreInv, StoreTypes, FileStates
  <2>3. KeyHeld' /\ AsideSealed'
    BY <1>0, <1>2, <2>1 DEF CreateKey, StoreInv, KeyHeld, AsideSealed
  <2> QED BY <1>2, <2>1, <2>2, <2>3 DEF CreateKey, StoreInv, SecretsReadable, SecretKept, Sealed, OnFile
<1>3. ASSUME NEW p \in Processes, WriteKey(p) PROVE StoreInv'
  <2>1. temp = None /\ \A q \in Processes : fernet[q] = 0
    BY <1>0, <1>3, NothingAside DEF WriteKey, StoreInv, KeyHeld, Empty
  <2>2. ~Sealed
    BY <1>0, <1>3 DEF WriteKey, StoreInv, SecretsReadable, Sealed, Empty, Absent
  <2>3. file \in FileStates'
    BY <1>0, <1>3 DEF WriteKey, StoreInv, StoreTypes, FileStates
  <2>4. StoreTypes'
    BY <1>0, <1>3, <2>1, <2>3 DEF WriteKey, StoreInv, StoreTypes, Puts, Sessions
  <2>5. KeyHeld' /\ AsideSealed'
    BY <1>0, <1>3, <2>1 DEF WriteKey, StoreInv, KeyHeld, AsideSealed
  <2> QED BY <1>3, <2>2, <2>4, <2>5 DEF WriteKey, StoreInv, SecretsReadable, SecretKept, Sealed, OnFile
<1>4. ASSUME NEW p \in Processes, Migrate(p) PROVE StoreInv'
  <2>1. OnFile \in Settings
    BY SavedType DEF StoreInv
  <2> QED BY <1>0, <1>4, <2>1, BeginKeeps DEF Migrate
<1>5. ASSUME NEW p \in Processes, Replace(p) PROVE StoreInv'
  <2>1. temp \in Writes /\ temp # None /\ lock = p /\ fernet[p] = key /\ key > 0
    BY <1>5 DEF Replace, StoreInv, StoreTypes, None, AsideSealed, KeyHeld
  <2>2. /\ temp.file \in FileStates /\ temp.base \in Settings /\ temp.typed \in BOOLEAN
        /\ temp.file.form = "json"
    BY <2>1 DEF Writes, StoreInv, AsideSealed
  <2>3. StoreTypes'
    BY <1>0, <1>5, <2>2 DEF Replace, StoreInv, StoreTypes, FileStates
  <2>4. SecretsReadable'
    BY <1>5, <2>1, <2>2 DEF Replace, StoreInv, AsideSealed, SecretsReadable, Sealed
  <2>5. SecretKept'
    BY <1>5, <2>1, <2>2 DEF Replace, StoreInv, AsideSealed, SecretKept, OnFile
  <2> QED  BY <1>5, <2>3, <2>4, <2>5 DEF Replace, StoreInv, KeyHeld, AsideSealed
<1>6. CASE PutLoad
  <2>1. put.sent \in Settings /\ OnFile \in Settings /\ fernet[Server] > 0
    BY <1>0, <1>6, SavedType DEF PutLoad, Loads, Puts, None, StoreInv
  <2>2. put' \in Puts
    BY <1>6, <2>1 DEF PutLoad, Puts
  <2> QED BY <1>0, <1>6, <2>1, <2>2, FilesStay DEF PutLoad, StoreInv, KeyHeld
<1>7. CASE PutSave
  <2>1. put.sent \in Settings /\ put.loaded \in Settings /\ fernet[Server] > 0
    BY <1>0, <1>7 DEF PutSave, Puts, None, StoreInv, KeyHeld
  <2> DEFINE new == MergedPut(put.loaded, put.sent)
             typed == put.sent.secret # NoSecret
  <2>2. new \in Settings /\ typed \in BOOLEAN /\ (typed \/ new.secret = put.loaded.secret)
    BY <2>1 DEF MergedPut, Settings
  <2>3. /\ BeginSave(Server, new, put.loaded, typed)
        /\ put' = [kind |-> "saving"]
        /\ UNCHANGED <<key, keys, fernet, held, entered, stale, backup>>
    BY <1>7 DEF PutSave
  <2>4. put' \in Puts /\ put'.kind # "loaded"
    BY <2>3 DEF Puts
  <2> HIDE DEF new, typed
  <2> QED BY <1>0, <2>1, <2>2, <2>3, <2>4, BeginKeeps
<1>8. CASE SessionLoad
  <2>1. OnFile \in Settings /\ fernet[Workbench] > 0
    BY <1>8, SavedType DEF SessionLoad, Loads, StoreInv
  <2>2. held' \in Sessions
    BY <1>8, <2>1 DEF SessionLoad, Sessions
  <2> QED BY <1>0, <1>8, <2>1, <2>2, FilesStay DEF SessionLoad, StoreInv, KeyHeld
<1>9. CASE SessionReset
  <2>1. temp = None
    BY <1>9, NothingAside DEF SessionReset
  <2>2. file' \in FileStates' /\ held' \in Sessions' /\ file'.form = "absent"
    BY <1>0, <1>9, InitialValues DEF SessionReset, NoFile, FileStates, Sessions
  <2>3. StoreTypes'
    BY <1>0, <1>9, <2>1, <2>2 DEF SessionReset, StoreInv, StoreTypes, Puts, FileStates
  <2>4. KeyHeld' /\ AsideSealed'
    BY <1>9, <2>1 DEF SessionReset, StoreInv, KeyHeld, AsideSealed
  <2>5. SecretsReadable' /\ SecretKept'
    BY <1>9, <2>2, ConfigAssumption DEF SessionReset, SecretsReadable, SecretKept, Sealed, OnFile
  <2> QED BY <2>3, <2>4, <2>5 DEF StoreInv
<1>10. ASSUME NEW values \in Settings, SessionSave(values) PROVE StoreInv'
  <2>1. held.base \in Settings /\ held \in [kind : {"open"}, base : Settings] /\ fernet[Workbench] > 0
    BY <1>0, <1>10 DEF SessionSave, Sessions, None, StoreInv, KeyHeld
  <2> DEFINE typed == values.secret # held.base.secret
  <2>2. typed \in BOOLEAN /\ (typed \/ values.secret = held.base.secret)
    OBVIOUS
  <2>3. /\ BeginSave(Workbench, values, held.base, typed)
        /\ UNCHANGED <<key, keys, fernet, put, entered, stale, backup>>
    BY <1>10 DEF SessionSave
  <2>4. held' \in Sessions
    BY <1>10, <2>1 DEF SessionSave, Sessions
  <2>5. held.kind = "open"
    BY <2>1
  <2> HIDE DEF typed
  <2> QED BY <1>0, <2>1, <2>2, <2>3, <2>4, <2>5, BeginKeeps
<1> QED  BY <1>1, <1>2, <1>3, <1>4, <1>5, <1>6, <1>7, <1>8, <1>9, <1>10 DEF StoreStep

(* A process that goes down lets go of its locks; the key gets lost, and   *)
(* comes back, while nobody holds it.                                      *)
LEMMA FaultsKeep ==
  ASSUME StoreInv, Faults
  PROVE  StoreInv'
<1>0. /\ keys \in Nat /\ key \in {Absent, Empty} \union 1..keys /\ backup \in 0..keys
      /\ fernet \in [Processes -> 0..keys] /\ put \in Puts /\ held \in Sessions
      /\ Server \in Processes /\ Workbench \in Processes /\ Free \notin Processes
  BY ConfigAssumption DEF StoreInv, StoreTypes
<1>1. CASE LoseKey
  <2>1. temp = None
    BY <1>0, <1>1 DEF LoseKey, StoreInv, AsideSealed
  <2>2. StoreTypes'
    BY <1>0, <1>1, <2>1 DEF LoseKey, StoreInv, StoreTypes, FileStates, Absent, Empty
  <2>3. KeyHeld' /\ AsideSealed'
    BY <1>0, <1>1, <2>1 DEF LoseKey, StoreInv, KeyHeld, AsideSealed
  <2> QED BY <1>1, <2>2, <2>3 DEF LoseKey, StoreInv, SecretsReadable, SecretKept, Sealed, OnFile, Absent
<1>2. CASE RestoreKey
  <2>1. temp = None /\ \A q \in Processes : fernet[q] = 0
    BY <1>0, <1>2, NothingAside DEF RestoreKey, StoreInv, KeyHeld, Absent
  <2>2. StoreTypes'
    BY <1>0, <1>2, <2>1 DEF RestoreKey, StoreInv, StoreTypes, FileStates
  <2>3. KeyHeld' /\ AsideSealed'
    BY <1>0, <1>2, <2>1 DEF RestoreKey, StoreInv, KeyHeld, AsideSealed
  <2> QED BY <1>2, <2>2, <2>3 DEF RestoreKey, StoreInv, SecretsReadable, SecretKept, Sealed, OnFile, Absent
<1>3. ASSUME NEW p \in Processes, Crash(p) PROVE StoreInv'
  <2>1. put' \in Puts /\ held' \in Sessions /\ fernet' \in [Processes -> 0..keys]
    BY <1>0, <1>3 DEF Crash, Puts, Sessions
  <2>2. temp' = None \/ (temp' = temp /\ lock' = lock /\ lock # p)
    BY <1>3 DEF Crash
  <2>3. StoreTypes'
    BY <1>0, <1>3, <2>1, <2>2 DEF Crash, StoreInv, StoreTypes, FileStates, Writes
  <2>4. KeyHeld'
    <3>1. \A q \in Processes : fernet'[q] > 0 => q # p /\ fernet'[q] = fernet[q]
      BY <1>0, <1>3 DEF Crash
    <3>2. /\ put'.kind = "loaded" => put' = put /\ p # Server
          /\ held'.kind = "open" => held' = held /\ p # Workbench
      BY <1>3 DEF Crash, None
    <3> QED BY <1>0, <1>3, <3>1, <3>2 DEF Crash, StoreInv, KeyHeld
  <2>5. AsideSealed'
    BY <1>0, <1>3, <2>2 DEF Crash, StoreInv, AsideSealed
  <2> QED BY <1>3, <2>3, <2>4, <2>5 DEF Crash, StoreInv, SecretsReadable, SecretKept, Sealed, OnFile
<1> QED BY <1>1, <1>2, <1>3 DEF Faults

-----------------------------------------------------------------------------
(***************************************************************************)
(* The tab                                                                 *)
(***************************************************************************)
LEMMA TabFields ==
  ASSUME NEW t \in Tabs
  PROVE  /\ t.open = TRUE /\ t.shown \in States /\ t.shown.config \in Settings
         /\ t.shown.config.conn \in Connections
         /\ t.draft \in Settings /\ t.draft.conn \in Connections
         /\ t.generation \in Nat /\ t # NoTab
<1>1. /\ t.shown \in States /\ t.shown.config \in Settings
      /\ t.shown.config.conn \in Connections
      /\ t.draft \in Settings /\ t.draft.conn \in Connections
      /\ t.generation \in Nat
  BY DEF Tabs, States, Settings
<1>2. t.open = TRUE
  BY Zenon DEF Tabs
<1>3. NoTab.open = FALSE
  BY Zenon DEF NoTab
<1>4. t # NoTab
  BY <1>2, <1>3, Zenon
<1> QED BY <1>1, <1>2, <1>4

(* The models of another connection are gone, and late answers with them.  *)
LEMMA ResetKeeps ==
  ASSUME NEW t \in Tabs, DraftOf(t),
         \A query \in t.queries : query.generation <= t.generation
  PROVE  ResetModels(t) \in Tabs /\ DraftOf(ResetModels(t)) /\ QueriesOf(ResetModels(t))
<1> DEFINE r == ResetModels(t)
<1>0. t.generation \in Nat /\ \A query \in t.queries : query.generation \in Nat
  BY DEF Tabs
<1>1. r = [t EXCEPT !.models = NoModels, !.loading = FALSE, !.generation = t.generation + 1,
                    !.raced = FALSE]
  BY DEF ResetModels, Tabs
<1>2. r \in Tabs
  <2>1. PICK n \in Nat : n = t.generation + 1
    BY <1>0
  <2>2. [t EXCEPT !.models = NoModels, !.loading = FALSE, !.generation = n, !.raced = FALSE] \in Tabs
    BY DEF Tabs
  <2> QED BY <1>1, <2>1, <2>2
<1>3. /\ r.signature = t.signature /\ r.shown = t.shown /\ r.dirty = t.dirty /\ r.draft = t.draft
      /\ r.edited = t.edited /\ r.late = t.late /\ r.saving = t.saving
      /\ r.queries = t.queries /\ r.generation = t.generation + 1 /\ r.models = NoModels
  BY <1>1 DEF Tabs
<1> HIDE DEF r
<1>4. DraftOf(r)
  BY <1>3 DEF DraftOf, TypedOf
<1>5. QueriesOf(r)
  BY <1>0, <1>3 DEF QueriesOf
<1> QED BY <1>2, <1>4, <1>5 DEF r

(* A state arrives: a draft that was edited stays, another follows it.     *)
LEMMA SyncedKeeps ==
  ASSUME NEW t \in Tabs, QueriesOf(t), TypedOf(t), ~t.dirty => t.draft.conn = t.signature
  PROVE  Synced(t) \in Tabs /\ DraftOf(Synced(t)) /\ QueriesOf(Synced(t))
<1> DEFINE c == t.shown.config
           signed == [t EXCEPT !.signature = c.conn]
           synced == [signed EXCEPT !.draft = c]
<1>1. signed \in Tabs /\ t.dirty \in BOOLEAN
  BY TabFields DEF Tabs
<1>2. /\ signed.signature = c.conn /\ signed.shown = t.shown /\ signed.dirty = t.dirty
      /\ signed.draft = t.draft /\ signed.edited = t.edited /\ signed.queries = t.queries
      /\ signed.late = t.late /\ signed.saving = t.saving
      /\ signed.generation = t.generation /\ signed.models = t.models /\ signed.raced = t.raced
  BY DEF Tabs
<1>3. CASE t.dirty
  <2>1. Synced(t) = signed
    BY <1>3 DEF Synced, shouldSyncSettingsDraft
  <2> HIDE DEF signed
  <2> QED BY <1>1, <1>2, <1>3, <2>1 DEF DraftOf, TypedOf, QueriesOf
<1>4. CASE ~t.dirty
  <2>1. synced \in Tabs
    BY <1>1, TabFields DEF Tabs
  <2>2. /\ synced.signature = c.conn /\ synced.shown = t.shown /\ ~synced.dirty
        /\ synced.draft = c /\ synced.edited = t.edited /\ synced.queries = t.queries
        /\ synced.late = t.late /\ synced.saving = t.saving
        /\ synced.generation = t.generation /\ synced.models = t.models /\ synced.raced = t.raced
    BY <1>2, <1>4 DEF Tabs
  <2>3. DraftOf(synced)
    BY <1>4, <2>2 DEF DraftOf, TypedOf
  <2>4. Synced(t) = IF t.signature # c.conn THEN ResetModels(synced) ELSE synced
    BY <1>4 DEF Synced, shouldSyncSettingsDraft
  <2> HIDE DEF synced, signed
  <2>5. CASE t.signature # c.conn
    <3>1. \A query \in synced.queries : query.generation <= synced.generation
      BY <2>2 DEF QueriesOf
    <3> QED BY <2>1, <2>3, <2>4, <2>5, <3>1, ResetKeeps
  <2>6. CASE t.signature = c.conn
    <3>1. QueriesOf(synced)
      BY <1>4, <2>2, <2>6 DEF QueriesOf
    <3> QED BY <2>1, <2>3, <2>4, <2>6, <3>1
  <2> QED BY <2>5, <2>6
<1> QED BY <1>3, <1>4

(* A save is over: the draft is what the page shows.                       *)
LEMMA FinishedKeeps ==
  ASSUME NEW t \in Tabs, DraftOf(t), QueriesOf(t), t.saving = "refresh"
  PROVE  EditFinished(t) \in Tabs /\ DraftOf(EditFinished(t)) /\ QueriesOf(EditFinished(t))
<1> DEFINE c == t.shown.config
           r == [t EXCEPT !.dirty = FALSE, !.saving = "no", !.signature = c.conn, !.draft = c,
                          !.raced = t.raced \/ (c.conn # t.draft.conn)]
<1>1. EditFinished(t) = r
  <2> DEFINE t0 == [t EXCEPT !.dirty = FALSE, !.saving = "no"]
  <2>1. /\ t0 \in Tabs /\ t0.shown = t.shown /\ t0.dirty = FALSE /\ t0.signature = c.conn
    BY DEF Tabs, DraftOf
  <2>2. Synced(t0) = [[t0 EXCEPT !.signature = c.conn] EXCEPT !.draft = c]
    <3> HIDE DEF t0
    <3> QED BY <2>1 DEF Synced, shouldSyncSettingsDraft
  <2> QED BY <2>2 DEF EditFinished, Tabs
<1>2. c \in Settings /\ c.conn \in Connections
  BY TabFields
<1>3. r \in Tabs
  BY <1>2 DEF Tabs
<1>4. /\ r.signature = c.conn /\ r.shown = t.shown /\ r.dirty = FALSE /\ r.draft = c
      /\ r.edited = t.edited /\ r.late = t.late /\ r.saving = "no"
      /\ r.queries = t.queries /\ r.generation = t.generation
      /\ r.models = t.models /\ r.raced = (t.raced \/ (c.conn # t.draft.conn))
  BY DEF Tabs
<1> HIDE DEF r
<1>5. DraftOf(r)
  BY <1>4 DEF DraftOf, TypedOf
<1>6. QueriesOf(r)
  BY <1>4 DEF QueriesOf
<1> QED BY <1>1, <1>3, <1>5, <1>6

(* A tab in its state                                                      *)
LEMMA TabKeeps ==
  ASSUME job' \in {"none", "done"} \union Active, asked' \in [Slots -> Asked], SavesAsked',
         NEW t \in Tabs, tab' = t, DraftOf(t), QueriesOf(t)
  PROVE  TabInv'
BY TabFields DEF TabInv, TabTypes

LEMMA TabIsOpen ==
  ASSUME TabInv, tab.open \/ \E s \in Slots : asked[s] # Idle
  PROVE  tab \in Tabs /\ tab.open /\ DraftOf(tab) /\ QueriesOf(tab)
<1>1. NoTab.open = FALSE
  BY Zenon DEF NoTab
<1>2. tab \in Tabs
  BY <1>1 DEF TabInv, TabTypes
<1>3. tab.open
  BY <1>2, TabFields
<1> QED BY <1>2, <1>3 DEF TabInv

(* Asking for the state, but not for a save                                *)
LEMMA AskKeeps ==
  ASSUME TabInv, NEW s \in Slots, NEW why \in Reasons, Ask(s, why)
  PROVE  /\ asked' \in [Slots -> Asked]
         /\ why # "save" => \A r \in Slots : SaveAsked(r)' <=> SaveAsked(r)
<1>1. asked' \in [Slots -> Asked]
  BY DEF TabInv, TabTypes, Ask, Asked
<1>2. asked[s] = Idle /\ asked'[s] = [kind |-> "sent", why |-> why] /\ \A r \in Slots \ {s} : asked'[r] = asked[r]
  BY DEF TabInv, TabTypes, Ask, FreeSlot
<1>3. asked'[s].why = why
  BY <1>2
<1> QED BY <1>1, <1>2, <1>3 DEF SaveAsked

(* A step that neither asks for a save nor ends one                        *)
LEMMA SavesStay ==
  ASSUME SavesAsked, \A s \in Slots : SaveAsked(s)' => SaveAsked(s), tab'.saving = tab.saving
  PROVE  SavesAsked'
BY DEF SavesAsked

(* The answer to the request of a save is the last one it asked for.       *)
LEMMA SaveEnds ==
  ASSUME SavesAsked, NEW s \in Slots, SaveAsked(s), ~SaveAsked(s)', \A r \in Slots \ {s} : SaveAsked(r)' <=> SaveAsked(r)
  PROVE  SavesAsked' /\ tab.saving = "refresh"
<1>1. tab.saving = "refresh" /\ \A r \in Slots : SaveAsked(r) => r = s
  BY DEF SavesAsked
<1>2. \A r \in Slots : ~SaveAsked(r)'
  BY <1>1
<1> QED BY <1>1, <1>2 DEF SavesAsked

LEMMA NewTabOK == NewTab \in Tabs /\ DraftOf(NewTab) /\ QueriesOf(NewTab)
<1> DEFINE c == PublicConfig(Default)
           shown == [config |-> c, job |-> "none"]
<1>1. c \in Settings /\ Default.conn \in Connections /\ c.conn = Default.conn
  BY InitialValues DEF PublicConfig, Settings
<1>2. shown \in States /\ shown.config = c
  BY <1>1 DEF States
<1> HIDE DEF c, shown
<1>3. NewTab = [open |-> TRUE, shown |-> shown, draft |-> c, edited |-> None, late |-> FALSE, dirty |-> FALSE,
                signature |-> Default.conn, saving |-> "no", generation |-> 0, loading |-> FALSE,
                queries |-> {}, models |-> NoModels, raced |-> FALSE]
  BY DEF NewTab, c, shown
<1>4. NewTab \in Tabs
  BY <1>1, <1>2, <1>3 DEF Tabs
<1>5. DraftOf(NewTab)
  BY <1>1, <1>2, <1>3 DEF DraftOf, TypedOf
<1>6. QueriesOf(NewTab)
  BY <1>3 DEF QueriesOf
<1> QED BY <1>4, <1>5, <1>6

LEMMA TabStart == SettingsInit => StoreInv /\ TabInv
<1> SUFFICES ASSUME SettingsInit PROVE StoreInv /\ TabInv OBVIOUS
<1>1. StoreInv
  BY StoreStart DEF SettingsInit
<1>2. NoTab.open = FALSE
  BY Zenon DEF NoTab
<1>3. TabInv
  BY <1>2 DEF SettingsInit, TabInv, TabTypes, Asked, SavesAsked, SaveAsked
<1> QED BY <1>1, <1>3

(* The steps of the page leave the files and the processes alone.          *)
TabStep ==
  \/ \E s \in Slots : Answer(s) \/ Deliver(s) \/ FailFetch(s)
  \/ OpenTab \/ Poll \/ Submit \/ JobSteps
  \/ \E v \in Settings : Edit(v)
  \/ LoadSaved \/ Save \/ SaveAnswered \/ SaveFailed \/ Discover
  \/ tab.open /\ \E query \in tab.queries, answered \in BOOLEAN : Discovered(query, answered)

LEMMA TabLeavesFiles ==
  ASSUME StoreInv, TabInv, TabStep
  PROVE  StoreInv'
<1>1. /\ UNCHANGED <<file, key, keys, lock, temp, fernet, held, entered, stale, backup>>
      /\ UNCHANGED put \/ Save \/ put' = None
  BY DEF TabStep, Answer, Deliver, FailFetch, OpenTab, Poll, Submit, JobSteps, Edit, LoadSaved, Save,
         SaveAnswered, SaveFailed, Discover, Discovered, storeVars
<1>2. put' \in Puts /\ (put'.kind = "loaded" => put' = put)
  <2>1. CASE Save
    <3>1. tab.draft \in Settings /\ put' = [kind |-> "sent", sent |-> tab.draft]
      BY <2>1, TabIsOpen, TabFields DEF Save
    <3> QED BY <3>1 DEF Puts
  <2>2. CASE put' = None \/ put' = put
    BY <2>2 DEF Puts, None, StoreInv, StoreTypes
  <2> QED BY <1>1, <2>1, <2>2
<1>3. fernet' \in [Processes -> 0..keys] /\ held' \in Sessions
  BY <1>1 DEF StoreInv, StoreTypes
<1>4. (put'.kind = "loaded" => fernet'[Server] > 0) /\ (held'.kind = "open" => fernet'[Workbench] > 0)
  BY <1>1, <1>2 DEF StoreInv, KeyHeld
<1> QED BY <1>1, <1>2, <1>3, <1>4, FilesStay

LEMMA TabKeepsItself ==
  ASSUME StoreInv, TabInv, TabStep
  PROVE  TabInv'
<1>0. /\ job \in {"none", "done"} \union Active /\ asked \in [Slots -> Asked]
      /\ "open" \in Reasons /\ "poll" \in Reasons /\ "submit" \in Reasons /\ "save" \in Reasons
  BY DEF TabInv, TabTypes, Reasons
<1> DEFINE Good(t) == t \in Tabs /\ DraftOf(t) /\ QueriesOf(t)
<1>1. ASSUME NEW s \in Slots, Answer(s) PROVE TabInv'
  <2>1. Good(tab) /\ asked[s] \in [kind : {"sent"}, why : Reasons]
    BY <1>0, <1>1, TabIsOpen DEF Answer, Asked, Idle
  <2>2. Snapshot \in States
    BY <1>0, SavedType DEF Snapshot, States, StoreInv
  <2>3. [kind |-> "answered", why |-> asked[s].why, state |-> Snapshot] \in Asked
    BY <2>1, <2>2 DEF Asked
  <2>4. asked' \in [Slots -> Asked]
    BY <1>0, <1>1, <2>3 DEF Answer
  <2>5. asked'[s].why = asked[s].why /\ asked[s] # Idle /\ \A r \in Slots \ {s} : asked'[r] = asked[r]
    BY <1>0, <1>1, <2>1 DEF Answer, Idle
  <2>6. SavesAsked'
    BY <1>1, <2>5, SavesStay DEF TabInv, SaveAsked, Answer
  <2> QED BY <1>0, <1>1, <2>1, <2>4, <2>6, TabKeeps DEF Answer
<1>2. ASSUME NEW s \in Slots, Deliver(s) PROVE TabInv'
  <2>1. Good(tab) /\ asked[s] \in [kind : {"answered"}, why : Reasons, state : States]
    BY <1>0, <1>2, TabIsOpen DEF Deliver, Asked, Idle
  <2> DEFINE t0 == [tab EXCEPT !.shown = asked[s].state]
  <2>2. /\ t0 \in Tabs /\ t0.dirty = tab.dirty /\ t0.draft = tab.draft /\ t0.edited = tab.edited
        /\ t0.late = tab.late /\ t0.saving = tab.saving /\ t0.signature = tab.signature /\ t0.queries = tab.queries /\ t0.models = tab.models
        /\ t0.generation = tab.generation /\ t0.raced = tab.raced
    BY <2>1 DEF Tabs
  <2>3. tab' = IF asked[s].why = "save" THEN EditFinished(Synced(t0)) ELSE Synced(t0)
    BY <1>2 DEF Deliver
  <2> HIDE DEF t0
  <2>4. Good(Synced(t0))
    <3>1. QueriesOf(t0)
      BY <2>1, <2>2 DEF QueriesOf
    <3>2. TypedOf(t0) /\ (~t0.dirty => t0.draft.conn = t0.signature)
      BY <2>1, <2>2 DEF DraftOf, TypedOf
    <3> QED BY <2>2, <3>1, <3>2, SyncedKeeps
  <2>5. asked' \in [Slots -> Asked] /\ job' = job
    BY <1>0, <1>2 DEF Deliver, Asked
  <2>6. Synced(t0).saving = tab.saving
    BY <2>2 DEF Synced, ResetModels, Tabs
  <2>7. ~SaveAsked(s)' /\ (asked[s].why = "save" => SaveAsked(s)) /\ \A r \in Slots \ {s} : SaveAsked(r)' <=> SaveAsked(r)
    BY <1>0, <1>2 DEF Deliver, SaveAsked, Idle
  <2>8. CASE asked[s].why = "save"
    <3>1. SavesAsked' /\ tab.saving = "refresh"
      BY <2>7, <2>8, SaveEnds DEF TabInv
    <3>2. Good(tab')
      BY <2>3, <2>4, <2>6, <2>8, <3>1, FinishedKeeps
    <3> QED BY <1>0, <2>5, <3>1, <3>2, TabKeeps
  <2>9. CASE asked[s].why # "save"
    <3>1. SavesAsked'
      BY <2>3, <2>6, <2>7, <2>9, SavesStay DEF TabInv
    <3> QED BY <1>0, <2>3, <2>4, <2>5, <2>9, <3>1, TabKeeps
  <2> QED BY <2>8, <2>9
<1>3. ASSUME NEW s \in Slots, FailFetch(s) PROVE TabInv'
  <2>1. Good(tab)
    BY <1>3, TabIsOpen DEF FailFetch, Idle
  <2>2. tab' = IF asked[s].why = "save" THEN EditFinished(tab) ELSE tab
    BY <1>3 DEF FailFetch
  <2>3. asked' \in [Slots -> Asked] /\ job' = job
    BY <1>0, <1>3 DEF FailFetch, Asked
  <2>4. ~SaveAsked(s)' /\ (asked[s].why = "save" => SaveAsked(s)) /\ \A r \in Slots \ {s} : SaveAsked(r)' <=> SaveAsked(r)
    BY <1>0, <1>3 DEF FailFetch, SaveAsked, Idle
  <2>5. CASE asked[s].why = "save"
    <3>1. SavesAsked' /\ tab.saving = "refresh"
      BY <2>4, <2>5, SaveEnds DEF TabInv
    <3>2. Good(tab')
      BY <2>1, <2>2, <2>5, <3>1, FinishedKeeps
    <3> QED BY <1>0, <2>3, <3>1, <3>2, TabKeeps
  <2>6. CASE asked[s].why # "save"
    <3>1. SavesAsked'
      BY <2>2, <2>4, <2>6, SavesStay DEF TabInv
    <3> QED BY <1>0, <2>1, <2>2, <2>3, <2>6, <3>1, TabKeeps
  <2> QED BY <2>5, <2>6
<1>4. CASE OpenTab
  <2>1. asked' \in [Slots -> Asked] /\ \A r \in Slots : SaveAsked(r)' <=> SaveAsked(r)
    BY <1>0, <1>4, AskKeeps, TabAssumption DEF OpenTab, Slots
  <2>2. \A r \in Slots : ~SaveAsked(r)
    BY <1>4, TabIsOpen DEF OpenTab, SaveAsked
  <2>3. SavesAsked'
    BY <2>1, <2>2 DEF SavesAsked
  <2> QED BY <1>0, <1>4, <2>1, <2>3, NewTabOK, TabKeeps DEF OpenTab
<1>5. CASE Poll
  <2>1. Good(tab) /\ asked' \in [Slots -> Asked] /\ \A r \in Slots : SaveAsked(r)' <=> SaveAsked(r)
    BY <1>0, <1>5, AskKeeps, TabIsOpen DEF Poll
  <2>2. SavesAsked'
    BY <1>5, <2>1, SavesStay DEF TabInv, Poll
  <2> QED BY <1>0, <1>5, <2>1, <2>2, TabKeeps DEF Poll
<1>6. CASE Submit
  <2>1. Good(tab) /\ asked' \in [Slots -> Asked] /\ \A r \in Slots : SaveAsked(r)' <=> SaveAsked(r)
    BY <1>0, <1>6, AskKeeps, TabIsOpen DEF Submit
  <2>2. SavesAsked'
    BY <1>6, <2>1, SavesStay DEF TabInv, Submit
  <2> QED BY <1>0, <1>6, <2>1, <2>2, TabKeeps DEF Submit, Active
<1>7. CASE JobSteps
  BY <1>0, <1>7 DEF JobSteps, TabInv, TabTypes, SavesAsked, SaveAsked, Active, DraftOf, TypedOf, QueriesOf
<1>8. ASSUME NEW v \in Settings, Edit(v) PROVE TabInv'
  <2>1. Good(tab)
    BY <1>8, TabIsOpen DEF Edit
  <2> DEFINE t == [tab EXCEPT !.draft = v, !.edited = v, !.late = tab.saving # "no", !.dirty = TRUE]
  <2>2. t \in Tabs
    BY <2>1 DEF Tabs
  <2>3. /\ t.dirty = TRUE /\ t.draft = v /\ t.edited = v /\ t.late = (tab.saving # "no")
        /\ t.saving = tab.saving /\ t.signature = tab.signature
        /\ t.shown = tab.shown /\ t.queries = tab.queries /\ t.models = tab.models
        /\ t.generation = tab.generation /\ t.raced = tab.raced
    BY <2>1 DEF Tabs
  <2>4. /\ tab' = IF v.conn # tab.draft.conn \/ v.secret # tab.draft.secret THEN ResetModels(t) ELSE t
        /\ UNCHANGED <<job, asked>>
    BY <1>8 DEF Edit
  <2> HIDE DEF t
  <2>5. DraftOf(t) /\ \A query \in t.queries : query.generation <= t.generation
    BY <2>1, <2>3 DEF DraftOf, TypedOf, QueriesOf
  <2>6. v.conn = tab.draft.conn => QueriesOf(t)
    BY <2>1, <2>3 DEF QueriesOf
  <2>7. Good(tab')
    BY <2>2, <2>4, <2>5, <2>6, ResetKeeps
  <2>8. SavesAsked'
    BY <2>2, <2>3, <2>4, SavesStay DEF TabInv, SaveAsked, ResetModels, Tabs
  <2> QED BY <1>0, <2>4, <2>7, <2>8, TabKeeps
<1>9. CASE LoadSaved
  <2>1. Good(tab)
    BY <1>9, TabIsOpen DEF LoadSaved
  <2> DEFINE t == [tab EXCEPT !.draft = tab.shown.config, !.edited = None, !.late = FALSE, !.dirty = FALSE]
  <2>2. t \in Tabs
    BY <2>1, TabFields DEF Tabs
  <2>3. /\ t.dirty = FALSE /\ t.draft = tab.shown.config /\ t.signature = tab.signature
        /\ t.shown = tab.shown /\ t.queries = tab.queries /\ t.generation = tab.generation
        /\ t.edited = None /\ t.saving = tab.saving
    BY <2>1 DEF Tabs
  <2>4. tab' = ResetModels(t) /\ UNCHANGED <<job, asked>>
    BY <1>9 DEF LoadSaved
  <2> HIDE DEF t
  <2>5. DraftOf(t) /\ \A query \in t.queries : query.generation <= t.generation
    BY <2>1, <2>3 DEF DraftOf, TypedOf, QueriesOf
  <2>6. SavesAsked'
    BY <2>2, <2>3, <2>4, SavesStay DEF TabInv, SaveAsked, ResetModels, Tabs
  <2> QED BY <1>0, <2>2, <2>4, <2>5, <2>6, ResetKeeps, TabKeeps
<1>10. ASSUME NEW step \in {"no", "sent", "refresh"}, NEW value \in Settings \union {None}, NEW behind \in BOOLEAN,
              tab.open, tab' = [tab EXCEPT !.saving = step, !.edited = value, !.late = behind]
       PROVE  /\ tab' \in Tabs /\ QueriesOf(tab') /\ (TypedOf(tab') => DraftOf(tab'))
              /\ tab'.saving = step /\ tab'.edited = value /\ tab'.late = behind
              /\ tab'.draft = tab.draft /\ tab'.dirty = tab.dirty
  <2>1. Good(tab)
    BY <1>10, TabIsOpen
  <2>2. tab' \in Tabs
    BY <1>10, <2>1 DEF Tabs
  <2>3. /\ tab'.saving = step /\ tab'.edited = value /\ tab'.late = behind
        /\ tab'.draft = tab.draft /\ tab'.dirty = tab.dirty /\ tab'.signature = tab.signature /\ tab'.shown = tab.shown
        /\ tab'.queries = tab.queries /\ tab'.generation = tab.generation /\ tab'.models = tab.models
        /\ tab'.raced = tab.raced
    BY <1>10, <2>1 DEF Tabs
  <2> QED BY <2>1, <2>2, <2>3 DEF DraftOf, QueriesOf
<1>11. CASE Save
  <2>1. Good(tab) /\ tab.saving = "no" /\ UNCHANGED <<job, asked>>
    BY <1>11, TabIsOpen DEF Save
  <2> DEFINE value == IF tab.dirty THEN tab.draft ELSE None
  <2>2. value \in Settings \union {None} /\ tab.open /\ tab' = [tab EXCEPT !.saving = "sent", !.edited = value, !.late = FALSE]
    BY <1>11, <2>1, TabFields DEF Save
  <2>3. \A s \in Slots : ~SaveAsked(s)'
    BY <2>1 DEF TabInv, SavesAsked, SaveAsked
  <2>4. SavesAsked'
    BY <2>3 DEF SavesAsked
  <2>5. tab.dirty \in BOOLEAN
    BY <2>1 DEF Tabs
  <2>6. Good(tab')
    <3> HIDE DEF value
    <3>1. /\ tab' \in Tabs /\ QueriesOf(tab') /\ (TypedOf(tab') => DraftOf(tab'))
          /\ tab'.saving = "sent" /\ tab'.edited = value /\ tab'.draft = tab.draft /\ tab'.dirty = tab.dirty
      BY <1>10, <2>2
    <3> QED BY <2>5, <3>1 DEF TypedOf, value
  <2> QED BY <1>0, <2>1, <2>4, <2>6, TabKeeps
<1>12. CASE SaveAnswered
  <2>1. Good(tab) /\ tab.saving = "sent" /\ job' = job /\ tab.open
    BY <1>12, TabIsOpen DEF SaveAnswered
  <2>2. PICK s \in Slots : Ask(s, "save")
    BY <1>12 DEF SaveAnswered
  <2>3. asked' \in [Slots -> Asked]
    BY <1>0, <2>2, AskKeeps
  <2> DEFINE value == IF tab.late THEN tab.edited ELSE None
  <2>4. /\ value \in Settings \union {None} /\ tab.late \in BOOLEAN
        /\ tab' = [tab EXCEPT !.saving = "refresh", !.edited = value, !.late = tab.late]
    BY <1>12, <2>1 DEF SaveAnswered, Tabs
  <2>5. \A r \in Slots \ {s} : ~SaveAsked(r)'
    <3>1. \A r \in Slots : ~SaveAsked(r)
      BY <2>1 DEF TabInv, SavesAsked
    <3> QED BY <1>0, <2>2, <3>1 DEF SaveAsked, Ask
  <2>6. Good(tab') /\ tab'.saving = "refresh"
    <3> HIDE DEF value
    <3>1. /\ tab' \in Tabs /\ QueriesOf(tab') /\ (TypedOf(tab') => DraftOf(tab'))
          /\ tab'.saving = "refresh" /\ tab'.edited = value /\ tab'.late = tab.late
          /\ tab'.draft = tab.draft /\ tab'.dirty = tab.dirty
      BY <1>10, <2>1, <2>4
    <3>2. tab.edited # None => tab.dirty /\ tab.draft = tab.edited
      BY <2>1 DEF DraftOf, TypedOf
    <3> QED BY <3>1, <3>2 DEF TypedOf, value
  <2>7. SavesAsked'
    BY <2>5, <2>6 DEF SavesAsked
  <2> QED BY <1>0, <2>1, <2>3, <2>6, <2>7, TabKeeps
<1>13. CASE SaveFailed
  <2>1. Good(tab) /\ tab.saving = "sent" /\ UNCHANGED <<job, asked>> /\ tab.open
    BY <1>13, TabIsOpen DEF SaveFailed
  <2>2. /\ tab.edited \in Settings \union {None}
        /\ tab' = [tab EXCEPT !.saving = "no", !.edited = tab.edited, !.late = FALSE]
    BY <1>13, <2>1 DEF SaveFailed, Tabs
  <2>3. \A s \in Slots : ~SaveAsked(s)'
    BY <2>1 DEF TabInv, SavesAsked, SaveAsked
  <2>4. SavesAsked'
    BY <2>3 DEF SavesAsked
  <2>5. /\ tab' \in Tabs /\ QueriesOf(tab') /\ (TypedOf(tab') => DraftOf(tab'))
        /\ tab'.saving = "no" /\ tab'.edited = tab.edited /\ tab'.draft = tab.draft /\ tab'.dirty = tab.dirty
    BY <1>10, <2>1, <2>2
  <2>6. tab.edited # None => tab.dirty /\ tab.draft = tab.edited
    BY <2>1 DEF DraftOf, TypedOf
  <2>7. Good(tab')
    BY <2>5, <2>6 DEF TypedOf
  <2> QED BY <1>0, <2>1, <2>4, <2>7, TabKeeps
<1>14. CASE Discover
  <2>1. Good(tab) /\ tab.generation \in Nat /\ tab.draft.conn \in Connections
    BY <1>14, TabIsOpen, TabFields DEF Discover
  <2> DEFINE query == [generation |-> tab.generation + 1, conn |-> tab.draft.conn]
  <2>2. /\ tab' = [tab EXCEPT !.generation = tab.generation + 1, !.models = NoModels, !.loading = TRUE,
                              !.raced = FALSE, !.queries = tab.queries \union {query}]
        /\ UNCHANGED <<job, asked>>
    BY <1>14, <2>1 DEF Discover, Tabs
  <2>3. query \in [generation : Nat, conn : Connections]
    BY <2>1
  <2>4. /\ tab'.dirty = tab.dirty /\ tab'.draft = tab.draft /\ tab'.signature = tab.signature
        /\ tab'.edited = tab.edited /\ tab'.late = tab.late /\ tab'.saving = tab.saving /\ tab'.shown = tab.shown /\ tab'.models = NoModels
        /\ tab'.generation = tab.generation + 1 /\ tab'.queries = tab.queries \union {query}
    BY <2>1, <2>2 DEF Tabs
  <2>5. tab' \in Tabs
    <3>1. PICK n \in Nat : n = tab.generation + 1
      BY <2>1
    <3>2. PICK Q \in SUBSET [generation : Nat, conn : Connections] : Q = tab.queries \union {query}
      BY <2>1, <2>3 DEF Tabs
    <3>3. [tab EXCEPT !.generation = n, !.models = NoModels, !.loading = TRUE, !.raced = FALSE,
                      !.queries = Q] \in Tabs
      BY <2>1 DEF Tabs
    <3> QED BY <2>2, <3>1, <3>2, <3>3
  <2>6. DraftOf(tab')
    BY <2>1, <2>4 DEF DraftOf, TypedOf
  <2>7. QueriesOf(tab')
    <3>1. \A q \in tab.queries : q.generation \in Nat
      BY <2>1 DEF Tabs
    <3>2. query.generation = tab.generation + 1 /\ query.conn = tab.draft.conn
      OBVIOUS
    <3> HIDE DEF query
    <3> QED BY <2>1, <2>4, <3>1, <3>2 DEF QueriesOf
  <2>8. SavesAsked'
    BY <2>2, <2>4, SavesStay DEF TabInv, SaveAsked
  <2> QED BY <1>0, <2>2, <2>5, <2>6, <2>7, <2>8, TabKeeps
<1>15. ASSUME tab.open, NEW query \in tab.queries, NEW answered \in BOOLEAN, Discovered(query, answered)
       PROVE  TabInv'
  <2>1. Good(tab)
    BY <1>15, TabIsOpen
  <2> DEFINE rest == [tab EXCEPT !.queries = tab.queries \ {query}]
             m == IF answered THEN query.conn ELSE NoModels
  <2>2. /\ tab' = IF query.generation = tab.generation
                  THEN [rest EXCEPT !.loading = FALSE, !.models = m] ELSE rest
        /\ UNCHANGED <<job, asked>>
    BY <1>15, <2>1 DEF Discovered, acceptsLlmDiscoveryResponse, Tabs
  <2>3. rest \in Tabs
    BY <2>1 DEF Tabs
  <2>4. m \in Connections \union {NoModels}
    BY <1>15, <2>1 DEF Tabs
  <2>5. /\ rest.dirty = tab.dirty /\ rest.draft = tab.draft /\ rest.signature = tab.signature
        /\ rest.edited = tab.edited /\ rest.late = tab.late /\ rest.saving = tab.saving /\ rest.shown = tab.shown /\ rest.generation = tab.generation
        /\ rest.queries = tab.queries \ {query} /\ rest.models = tab.models /\ rest.raced = tab.raced
    BY <2>1 DEF Tabs
  <2>6. DraftOf(rest) /\ QueriesOf(rest)
    BY <2>1, <2>5 DEF DraftOf, TypedOf, QueriesOf
  <2>7. CASE query.generation # tab.generation
    <3>1. SavesAsked'
      BY <2>2, <2>5, <2>7, SavesStay DEF TabInv, SaveAsked
    <3> QED BY <1>0, <2>2, <2>3, <2>6, <2>7, <3>1, TabKeeps
  <2>8. CASE query.generation = tab.generation
    <3> DEFINE r == [rest EXCEPT !.loading = FALSE, !.models = m]
    <3>1. m # NoModels => m = tab.draft.conn \/ tab.raced
      BY <1>15, <2>1, <2>8 DEF QueriesOf
    <3> HIDE DEF rest, m
    <3>2. r \in Tabs
      BY <2>3, <2>4 DEF Tabs
    <3>3. /\ r.dirty = rest.dirty /\ r.draft = rest.draft /\ r.signature = rest.signature
          /\ r.edited = rest.edited /\ r.late = rest.late /\ r.saving = rest.saving /\ r.shown = rest.shown /\ r.generation = rest.generation
          /\ r.queries = rest.queries /\ r.models = m /\ r.raced = rest.raced
      BY <2>3 DEF Tabs
    <3>4. tab' = r
      BY <2>2, <2>8
    <3> HIDE DEF r
    <3>5. DraftOf(r) /\ QueriesOf(r)
      BY <2>5, <2>6, <3>1, <3>3 DEF DraftOf, TypedOf, QueriesOf
    <3>6. SavesAsked'
      BY <2>2, <2>5, <3>3, <3>4, SavesStay DEF TabInv, SaveAsked
    <3> QED BY <1>0, <2>2, <3>2, <3>4, <3>5, <3>6, TabKeeps
  <2> QED BY <2>7, <2>8
<1> QED BY <1>1, <1>2, <1>3, <1>4, <1>5, <1>6, <1>7, <1>8, <1>9, <1>11, <1>12, <1>13, <1>14, <1>15
        DEF TabStep

-----------------------------------------------------------------------------
(* The files and the tab: whatever the processes, their faults and the     *)
(* page do, in any order.                                                  *)
THEOREM SettingsInvariant == SettingsSpec => [](StoreInv /\ TabInv)
<1>1. SettingsInit => StoreInv /\ TabInv
  BY TabStart
<1>2. StoreInv /\ TabInv /\ [SettingsNext]_settingsVars => (StoreInv /\ TabInv)'
  <2> SUFFICES ASSUME StoreInv, TabInv, [SettingsNext]_settingsVars PROVE (StoreInv /\ TabInv)'  OBVIOUS
  <2>1. CASE (StoreStep \/ Faults) /\ UNCHANGED tabVars
    <3>1. StoreInv'
      BY <2>1, StoreStepKeeps, FaultsKeep
    <3>2. TabInv'
      BY <2>1 DEF tabVars, TabInv, TabTypes, SavesAsked, SaveAsked, DraftOf, TypedOf, QueriesOf
    <3> QED BY <3>1, <3>2
  <2>2. CASE TabStep
    BY <2>2, TabLeavesFiles, TabKeepsItself
  <2>3. CASE UNCHANGED settingsVars
    <3>1. UNCHANGED <<file, key, keys, lock, temp, fernet, put, held, entered, stale, backup>>
      BY <2>3 DEF settingsVars, storeVars
    <3>2. StoreInv'
      BY <3>1, FilesStay DEF StoreInv, StoreTypes, KeyHeld
    <3>3. TabInv'
      BY <2>3 DEF settingsVars, tabVars, TabInv, TabTypes, SavesAsked, SaveAsked, DraftOf, TypedOf, QueriesOf
    <3> QED BY <3>2, <3>3
  <2> QED BY <2>1, <2>2, <2>3 DEF SettingsNext, TabStep
<1> QED BY <1>1, <1>2, PTL DEF SettingsSpec

(* A secret saved on this machine is sealed by the key on file, or by the  *)
(* one that can be restored, and is the one entered last: however          *)
(* processes start first, write keys, migrate, crash and save over each    *)
(* other (config_manager.py:91-114, 163-177).                              *)
THEOREM SecretsAreKept == SettingsSpec => []SecretsKept
<1>1. StoreInv => SecretsKept
  BY DEF StoreInv, SecretsKept
<1> QED BY <1>1, SettingsInvariant, PTL

(* The settings page keeps what was typed into it, but for what was typed  *)
(* while a save was under way, and offers the models of the connection it  *)
(* shows, but after a save that ended on another one, in whatever order    *)
(* answers arrive (workbench.js:104-119, App.jsx:1018-1071).               *)
THEOREM TabIsTruthful == SettingsSpec => []TabTruthful
<1>1. StoreInv /\ TabInv => TabTruthful
  <2> SUFFICES ASSUME StoreInv, TabInv PROVE TabTruthful  OBVIOUS
  <2>1. /\ file.form \in {"absent", "json"} /\ file.values \in Settings
        /\ file.seal \in {NoSeal, OldSeal} \union 1..keys
        /\ key \in {Absent, Empty} \union 1..keys /\ fernet \in [Processes -> 0..keys]
        /\ lock \in Processes \union {Free} /\ (temp # None => lock \in Processes)
    BY DEF StoreInv, StoreTypes, FileStates, AsideSealed
  <2>2. put.kind \in {"none", "sent", "loaded", "saving"} /\ held.kind \in {"none", "open"}
    BY DEF StoreInv, StoreTypes, Puts, Sessions, None
  <2>3. /\ tab = NoTab \/ tab \in Tabs
        /\ \A s \in Slots : asked[s] = Idle \/ asked[s].why \in Reasons
    BY DEF TabInv, TabTypes, Asked
  <2>4. EditsSurvive /\ ModelsOfConnection
    BY DEF TabInv, EditsSurvive, ModelsOfConnection, DraftOf, TypedOf, QueriesOf
  <2> QED BY <2>1, <2>2, <2>3, <2>4 DEF SettingsTypeOK, TabTruthful
<1> QED BY <1>1, SettingsInvariant, PTL

-----------------------------------------------------------------------------
(* The workbench.                                                          *)

(* Numbers and sequences.                                                  *)

LEMMA LeastNumber ==
  ASSUME NEW T, T \subseteq Nat, T # {}
  PROVE  \E x \in T : \A y \in T : x <= y
<1>1. PICK x \in T : \A y \in T : ~(<<y, x>> \in OpToRel(<, Nat))
  BY NatLessThanWellFounded, WFMin, Zenon
<1>2. \A y \in T : ~(y < x)
  BY <1>1 DEF OpToRel
<1> QED BY <1>2

LEMMA MaxIs ==
  ASSUME NEW n \in Nat, NEW T, T \subseteq 1..n, T # {}
  PROVE  Max(T) \in T /\ \A y \in T : y <= Max(T)
<1> DEFINE Low == {n - x : x \in T}
<1>0. \A x \in T : x \in Nat /\ n - x \in Nat
  OBVIOUS
<1>1. Low \subseteq Nat /\ Low # {}
  BY <1>0
<1>2. PICK l \in Low : \A y \in Low : l <= y
  BY <1>1, LeastNumber
<1>3. PICK x \in T : l = n - x
  OBVIOUS
<1>4. \A y \in T : x >= y
  BY <1>0, <1>2, <1>3
<1>5. Max(T) \in T /\ \A y \in T : Max(T) >= y
  BY <1>3, <1>4 DEF Max
<1> QED BY <1>0, <1>5

(* An append, with what it leaves of the sequence.                         *)
LEMMA AppendIs ==
  ASSUME NEW S, NEW s \in Seq(S), NEW e \in S
  PROVE  /\ Append(s, e) \in Seq(S) /\ Len(s) \in Nat /\ Len(Append(s, e)) = Len(s) + 1
         /\ \A i \in 1..Len(s) : Append(s, e)[i] = s[i]
         /\ Append(s, e)[Len(s) + 1] = e
  BY AppendProperties, LenProperties

LEMMA AppendLength ==
  ASSUME NEW S, NEW s \in Seq(S), NEW e
  PROVE  Len(Append(s, e)) = Len(s) + 1
<1>1. s \in Seq(S \cup {e}) /\ e \in S \cup {e}
  BY SeqMonotonic
<1> QED BY <1>1, AppendProperties

-----------------------------------------------------------------------------
(* Rows are added, and an analysis keeps its evidence.                     *)
RowsGrow ==
  /\ Len(cases) <= Len(cases') /\ Len(runs) <= Len(runs') /\ Len(analyses) <= Len(analyses')
  /\ \A a \in 1..Len(analyses) : analyses'[a].of = analyses[a].of

LEMMA RowTypes ==
  RowsOK => /\ Len(cases) \in Nat /\ Len(analyses) \in Nat /\ Len(runs) \in Nat
            /\ DOMAIN cases = 1..Len(cases) /\ DOMAIN analyses = 1..Len(analyses) /\ DOMAIN runs = 1..Len(runs)
            /\ \A c \in 1..Len(cases) : cases[c] \in CaseStatus
            /\ \A a \in 1..Len(analyses) : analyses[a] \in AnalysisRow
            /\ \A r \in 1..Len(runs) : runs[r] \in RunRow
  BY LenProperties, ElementOfSeq DEF RowsOK

LEMMA AnalysisGrows ==
  ASSUME NEW a, NEW C \in Nat, NEW D \in Nat, C <= D, AnalysisOK(a, C)
  PROVE  AnalysisOK(a, D)
  BY DEF AnalysisOK

LEMMA RunGrows ==
  ASSUME NEW r, NEW A \in Nat, NEW B \in Nat, NEW C \in Nat, NEW D \in Nat,
         A <= B, C <= D, RunOK(r, A, C)
  PROVE  RunOK(r, B, D)
<1>1. 1..A \subseteq 1..B /\ 1..C \subseteq 1..D
  OBVIOUS
<1>2. r.case \in 1..D /\ r.jobs # <<>> /\ Len(r.of) = Len(r.jobs) /\ Len(r.results) = Len(r.jobs)
  BY <1>1 DEF RunOK
<1>3. ASSUME NEW i \in 1..Len(r.jobs)
      PROVE  /\ r.of[i] \in IF r.kind = "pcap" THEN Captures ELSE 1..B
             /\ r.results[i] \in IF r.jobs[i] = "done" THEN 1..B ELSE {0}
  BY <1>1, <1>3 DEF RunOK
<1> QED BY <1>2, <1>3 DEF RunOK

(* Changing the status of a case, to anything but "in progress", or with a *)
(* run of the case at hand.                                                *)
LEMMA StatusChange ==
  ASSUME RowsOK, InProgressHasJobs, NEW c \in 1..Len(cases), NEW x \in CaseStatus, x # "in_progress",
         cases' = [cases EXCEPT ![c] = x], UNCHANGED <<analyses, runs>>
  PROVE  RowsOK' /\ InProgressHasJobs' /\ RowsGrow
<1>1. /\ cases' \in Seq(CaseStatus) /\ Len(cases') = Len(cases)
      /\ \A j \in 1..Len(cases) : cases'[j] = IF j = c THEN x ELSE cases[j]
  BY ExceptSeq DEF RowsOK
<1>2. DOMAIN cases' = 1..Len(cases') /\ DOMAIN cases = 1..Len(cases)
  BY <1>1, LenProperties DEF RowsOK
<1>3. RowsOK'
  BY <1>1 DEF RowsOK
<1>4. InProgressHasJobs'
  BY <1>1, <1>2 DEF InProgressHasJobs
<1> QED BY <1>1, <1>3, <1>4, RowTypes DEF RowsGrow

(* A new case and, unless it is not in progress, a run of it.              *)
LEMMA CaseAdded ==
  ASSUME RowsOK, NEW x \in CaseStatus, cases' = Append(cases, x)
  PROVE  /\ cases' \in Seq(CaseStatus) /\ Len(cases') = Len(cases) + 1 /\ Len(cases) \in Nat
         /\ DOMAIN cases' = 1..Len(cases) + 1
         /\ \A c \in 1..Len(cases) : cases'[c] = cases[c]
         /\ cases'[Len(cases) + 1] = x
<1>1. cases \in Seq(CaseStatus)
  BY DEF RowsOK
<1>2. /\ cases' \in Seq(CaseStatus) /\ Len(cases) \in Nat /\ Len(cases') = Len(cases) + 1
      /\ \A c \in 1..Len(cases) : cases'[c] = cases[c]
      /\ cases'[Len(cases) + 1] = x
  BY <1>1, AppendIs
<1> QED BY <1>2, LenProperties

LEMMA AnalysisAdded ==
  ASSUME RowsOK, NEW row \in AnalysisRow, analyses' = Append(analyses, row)
  PROVE  /\ analyses' \in Seq(AnalysisRow) /\ Len(analyses') = Len(analyses) + 1 /\ Len(analyses) \in Nat
         /\ \A a \in 1..Len(analyses) : analyses'[a] = analyses[a]
         /\ analyses'[Len(analyses) + 1] = row
<1>1. analyses \in Seq(AnalysisRow)
  BY DEF RowsOK
<1> QED BY <1>1, AppendIs

LEMMA RunAdded ==
  ASSUME RowsOK, NEW row \in RunRow, runs' = Append(runs, row)
  PROVE  /\ runs' \in Seq(RunRow) /\ Len(runs') = Len(runs) + 1 /\ Len(runs) \in Nat
         /\ DOMAIN runs' = 1..Len(runs) + 1
         /\ \A r \in 1..Len(runs) : runs'[r] = runs[r]
         /\ runs'[Len(runs) + 1] = row
<1>1. runs \in Seq(RunRow)
  BY DEF RowsOK
<1>2. /\ runs' \in Seq(RunRow) /\ Len(runs') = Len(runs) + 1 /\ Len(runs) \in Nat
      /\ \A r \in 1..Len(runs) : runs'[r] = runs[r]
      /\ runs'[Len(runs) + 1] = row
  BY <1>1, AppendIs
<1> QED BY <1>2, LenProperties

(* A run as a click makes it, of k of the things it was asked for.         *)
LEMMA NewRunOK ==
  ASSUME NEW C \in Nat, NEW A \in Nat, NEW c \in 1..C, NEW S, NEW kind \in {"pcap", "report"},
         S = IF kind = "pcap" THEN Captures ELSE 1..A,
         NEW all \in Seq(S), NEW k \in 1..Len(all)
  PROVE  /\ NewRun(c, SubSeq(all, 1, k), k, kind) \in RunRow
         /\ RunOK(NewRun(c, SubSeq(all, 1, k), k, kind), A, C)
<1>0. Len(all) \in Nat /\ k \in Nat /\ \A i \in 1..Len(all) : all[i] \in S
  BY LenProperties, ElementOfSeq
<1>1. /\ SubSeq(all, 1, k) \in Seq(S) /\ Len(SubSeq(all, 1, k)) = k
      /\ \A i \in 1..k : SubSeq(all, 1, k)[i] = all[i]
  <2>1. k \in 0..Len(all) /\ all \in Seq(S)
    BY <1>0
  <2> DEFINE sub == SubSeq(all, 1, k)
  <2>2. sub = [i \in 1..k |-> all[i]]
    BY <2>1, SubSeqRestrict DEF Restrict
  <2> HIDE DEF sub
  <2>3. sub \in [1..k -> S] /\ \A i \in 1..k : sub[i] = all[i]
    BY <1>0, <2>2
  <2>4. sub \in Seq(S)
    BY <1>0, <2>3, SeqDef
  <2>5. Len(sub) = k
    BY <1>0, <2>3, <2>4, LenProperties
  <2> QED BY <2>3, <2>4, <2>5 DEF sub
<1>2. SubSeq(all, 1, k) \in Seq(Captures) \cup Seq(Nat)
  <2>1. CASE kind = "pcap"
    BY <1>1, <2>1
  <2>2. CASE kind # "pcap"
    <3>1. S \subseteq Nat
      BY <2>2
    <3> QED BY <1>1, <3>1, SeqMonotonic
  <2> QED BY <2>1, <2>2
<1> DEFINE jobs == [i \in 1..k |-> "active"]
           results == [i \in 1..k |-> 0]
<1>3. jobs \in Seq({"active", "done", "failed"}) /\ Len(jobs) = k /\ jobs # <<>>
  BY <1>0
<1>4. results \in Seq(Nat) /\ Len(results) = k
  BY <1>0
<1>5. \A i \in 1..k : jobs[i] = "active" /\ results[i] = 0
  OBVIOUS
<1> DEFINE of == SubSeq(all, 1, k)
<1>6. \A i \in 1..k : of[i] \in S
  BY <1>0, <1>1
<1>10. of \in Seq(Captures) \cup Seq(Nat) /\ Len(of) = k /\ c \in Nat
  BY <1>1, <1>2
<1> HIDE DEF jobs, results, of
<1>7. NewRun(c, of, k, kind) = [case |-> c, kind |-> kind, of |-> of, jobs |-> jobs, results |-> results]
  BY DEF NewRun, jobs, results
<1>8. NewRun(c, of, k, kind) \in RunRow
  BY <1>10, <1>3, <1>4, <1>7 DEF RunRow
<1>9. RunOK(NewRun(c, of, k, kind), A, C)
  BY <1>10, <1>3, <1>4, <1>5, <1>6, <1>7 DEF RunOK
<1> QED BY <1>8, <1>9 DEF of

-----------------------------------------------------------------------------
(* The rows, action by action.                                             *)

LEMMA RowsUnchanged ==
  ASSUME RowsOK, InProgressHasJobs, UNCHANGED rows
  PROVE  RowsOK' /\ InProgressHasJobs' /\ RowsGrow
<1>1. cases' = cases /\ analyses' = analyses /\ runs' = runs
  BY DEF rows
<1> QED BY <1>1, RowTypes DEF RowsOK, InProgressHasJobs, RowsGrow

(* A complete run opens its case.                                          *)
LEMMA RestoreRunRows ==
  ASSUME RowsOK, InProgressHasJobs, NEW s, s.run \in 0..Len(runs), RestoreRun(s), UNCHANGED <<analyses, runs>>
  PROVE  RowsOK' /\ InProgressHasJobs' /\ RowsGrow
<1>1. s.run \in 1..Len(runs)
  BY RowTypes DEF RestoreRun, Restores
<1>2. runs[s.run].case \in 1..Len(cases)
  BY <1>1 DEF RowsOK, RunOK
<1>3. CASE cases[runs[s.run].case] = "in_progress"
  <2>1. cases' = [cases EXCEPT ![runs[s.run].case] = "open"]
    BY <1>3 DEF RestoreRun
  <2>2. "open" \in CaseStatus /\ "open" # "in_progress"
    BY DEF CaseStatus
  <2> QED BY <1>2, <2>1, <2>2, StatusChange
<1>4. CASE cases[runs[s.run].case] # "in_progress"
  BY <1>4, RowsUnchanged DEF RestoreRun, rows
<1> QED BY <1>3, <1>4

LEMMA StartRows ==
  ASSUME RowsOK, InProgressHasJobs, session.paths \in Seq(Captures), NEW k \in 0..Len(session.paths), Start(k)
  PROVE  RowsOK' /\ InProgressHasJobs' /\ RowsGrow
<1> DEFINE all == session.paths
           case == Len(cases) + 1
           run == NewRun(case, SubSeq(all, 1, k), k, "pcap")
<1>1. /\ cases' = Append(cases, CaseAfter(k))
      /\ runs' = IF k = 0 THEN runs ELSE Append(runs, run)
      /\ analyses' = analyses
  BY DEF Start
<1>2. CaseAfter(k) \in CaseStatus /\ (k = 0 => CaseAfter(k) # "in_progress")
  BY DEF CaseAfter, CaseStatus
<1>3. /\ cases' \in Seq(CaseStatus) /\ Len(cases') = Len(cases) + 1 /\ Len(cases) \in Nat
      /\ DOMAIN cases' = 1..Len(cases) + 1
      /\ \A c \in 1..Len(cases) : cases'[c] = cases[c]
      /\ cases'[Len(cases) + 1] = CaseAfter(k)
  BY <1>1, <1>2, CaseAdded
<1>4. /\ \A a \in 1..Len(analyses) : AnalysisOK(analyses[a], Len(cases'))
      /\ \A r \in 1..Len(runs) : RunOK(runs[r], Len(analyses), Len(cases'))
  <2>1. Len(cases) <= Len(cases') /\ Len(cases') \in Nat /\ Len(cases) \in Nat /\ Len(analyses) \in Nat
    BY <1>3, RowTypes
  <2>2. \A a \in 1..Len(analyses) : AnalysisOK(analyses[a], Len(cases))
    BY DEF RowsOK
  <2>3. \A r \in 1..Len(runs) : RunOK(runs[r], Len(analyses), Len(cases))
    BY DEF RowsOK
  <2>4. \A a \in 1..Len(analyses) : AnalysisOK(analyses[a], Len(cases'))
    BY <2>1, <2>2, AnalysisGrows
  <2>5. \A r \in 1..Len(runs) : RunOK(runs[r], Len(analyses), Len(cases'))
    <3>1. Len(analyses) <= Len(analyses)
      BY <2>1
    <3> QED BY <2>1, <2>3, <3>1, RunGrows
  <2> QED BY <2>4, <2>5
<1>5. CASE k = 0
  <2>1. runs' = runs
    BY <1>1, <1>5
  <2>2. RowsOK'
    BY <1>1, <1>3, <1>4, <2>1 DEF RowsOK
  <2>3. InProgressHasJobs'
    BY <1>2, <1>3, <1>5, <2>1, RowTypes DEF InProgressHasJobs
  <2>4. Len(runs') = Len(runs) /\ analyses' = analyses /\ Len(cases') = Len(cases) + 1
    BY <1>1, <1>3, <2>1
  <2>5. RowsGrow
    BY <2>4, RowTypes DEF RowsGrow
  <2> QED BY <2>2, <2>3, <2>5
<1>6. CASE k # 0
  <2>1. case \in 1..Len(cases') /\ Len(cases') \in Nat /\ Len(analyses) \in Nat /\ k \in 1..Len(all)
    BY <1>3, <1>6, RowTypes, LenProperties
  <2> HIDE DEF case
  <2>2. run \in RunRow /\ RunOK(run, Len(analyses), Len(cases'))
    <3>1. "pcap" \in {"pcap", "report"} /\ Captures = IF "pcap" = "pcap" THEN Captures ELSE 1..Len(analyses)
      OBVIOUS
    <3> QED BY <2>1, <3>1, NewRunOK
  <2>3. run.case = Len(cases) + 1
    BY DEF NewRun, case
  <2> HIDE DEF run
  <2>4. /\ runs' \in Seq(RunRow) /\ Len(runs') = Len(runs) + 1 /\ Len(runs) \in Nat
        /\ DOMAIN runs' = 1..Len(runs) + 1
        /\ \A r \in 1..Len(runs) : runs'[r] = runs[r]
        /\ runs'[Len(runs) + 1] = run
    BY <1>1, <1>6, <2>2, RunAdded
  <2>5. \A r \in 1..Len(runs') : RunOK(runs'[r], Len(analyses), Len(cases'))
    <3> SUFFICES ASSUME NEW r \in 1..Len(runs')  PROVE RunOK(runs'[r], Len(analyses), Len(cases'))
      OBVIOUS
    <3>1. r \in 1..Len(runs) \/ r = Len(runs) + 1
      BY <2>4
    <3> QED BY <1>4, <2>2, <2>4, <3>1
  <2>6. RowsOK'
    BY <1>1, <1>3, <1>4, <2>4, <2>5 DEF RowsOK
  <2>7. InProgressHasJobs'
    <3> SUFFICES ASSUME NEW c \in DOMAIN cases', cases'[c] = "in_progress"
                 PROVE  \E r \in DOMAIN runs' : runs'[r].case = c
      BY DEF InProgressHasJobs
    <3>1. CASE c = Len(cases) + 1
      BY <2>3, <2>4, <3>1
    <3>2. CASE c # Len(cases) + 1
      <4>1. c \in DOMAIN cases /\ cases[c] = "in_progress"
        BY <1>3, <3>2, RowTypes
      <4>2. PICK r \in DOMAIN runs : runs[r].case = c
        BY <4>1 DEF InProgressHasJobs
      <4>3. r \in DOMAIN runs' /\ runs'[r] = runs[r]
        BY <2>4, <4>2, RowTypes
      <4> QED BY <4>2, <4>3
    <3> QED BY <3>1, <3>2
  <2> QED BY <1>1, <1>3, <2>4, <2>6, <2>7, RowTypes DEF RowsGrow
<1> QED BY <1>5, <1>6

LEMMA RerunReportRows ==
  ASSUME RowsOK, InProgressHasJobs, session.ids \in Seq(Nat), \A i \in 1..Len(session.ids) : session.ids[i] \in 1..Len(analyses),
         NEW k \in 0..Len(session.ids), RerunReport(k)
  PROVE  RowsOK' /\ InProgressHasJobs' /\ RowsGrow
<1> DEFINE ids == session.ids
           case == analyses[ids[1]].case
           run == NewRun(case, SubSeq(ids, 1, k), k, "report")
<1>1. /\ ids # <<>> /\ analyses' = analyses
      /\ runs' = IF k = 0 THEN runs ELSE Append(runs, run)
      /\ k # Len(ids) => cases' = cases
      /\ k = Len(ids) => cases' = [cases EXCEPT ![case] = "in_progress"]
  BY DEF RerunReport
<1>2. Len(ids) \in Nat \ {0} /\ ids[1] \in 1..Len(analyses) /\ case \in 1..Len(cases)
  <2>1. Len(ids) \in Nat \ {0}
    BY <1>1, EmptySeq
  <2>2. ids[1] \in 1..Len(analyses)
    BY <2>1
  <2> QED BY <2>1, <2>2 DEF RowsOK, AnalysisOK
<1>3. CASE k = 0
  <2>1. UNCHANGED rows
    BY <1>1, <1>2, <1>3 DEF rows
  <2> QED BY <2>1, RowsUnchanged
<1>4. CASE k # 0
  <2>1. Len(cases) \in Nat /\ Len(analyses) \in Nat /\ k \in 1..Len(ids)
    BY <1>2, <1>4, RowTypes
  <2>2. ids \in Seq(1..Len(analyses))
    <3>1. ids \in [1..Len(ids) -> 1..Len(analyses)]
      BY LenProperties
    <3> HIDE DEF ids
    <3> QED BY <1>2, <3>1, SeqDef
  <2> HIDE DEF ids, case
  <2>3. run \in RunRow /\ RunOK(run, Len(analyses), Len(cases))
    <3>1. "report" \in {"pcap", "report"} /\ 1..Len(analyses) = IF "report" = "pcap" THEN Captures ELSE 1..Len(analyses)
      OBVIOUS
    <3> QED BY <1>2, <2>1, <2>2, <3>1, NewRunOK
  <2>4. run.case = case
    BY DEF NewRun
  <2> HIDE DEF run
  <2>5. /\ runs' \in Seq(RunRow) /\ Len(runs') = Len(runs) + 1 /\ Len(runs) \in Nat
        /\ DOMAIN runs' = 1..Len(runs) + 1
        /\ \A r \in 1..Len(runs) : runs'[r] = runs[r]
        /\ runs'[Len(runs) + 1] = run
    BY <1>1, <1>4, <2>3, RunAdded
  <2>6. /\ cases' \in Seq(CaseStatus) /\ Len(cases') = Len(cases)
        /\ \A c \in 1..Len(cases) : cases'[c] = "in_progress" => cases[c] = "in_progress" \/ c = case
    <3>1. cases \in Seq(CaseStatus) /\ "in_progress" \in CaseStatus
      BY DEF RowsOK, CaseStatus
    <3>2. CASE k = Len(ids)
      <4>1. cases' = [cases EXCEPT ![case] = "in_progress"]
        BY <1>1, <3>2
      <4>2. case \in 1..Len(cases)
        BY <1>2
      <4> QED BY <3>1, <4>1, <4>2, ExceptSeq
    <3>3. CASE k # Len(ids)
      BY <1>1, <3>1, <3>3
    <3> QED BY <3>2, <3>3
  <2>7. \A r \in 1..Len(runs') : RunOK(runs'[r], Len(analyses), Len(cases))
    <3> SUFFICES ASSUME NEW r \in 1..Len(runs')  PROVE RunOK(runs'[r], Len(analyses), Len(cases))
      OBVIOUS
    <3>1. r \in 1..Len(runs) \/ r = Len(runs) + 1
      BY <2>5
    <3> QED BY <2>3, <2>5, <3>1 DEF RowsOK
  <2>8. RowsOK'
    BY <1>1, <2>5, <2>6, <2>7 DEF RowsOK
  <2>9. InProgressHasJobs'
    <3> SUFFICES ASSUME NEW c \in DOMAIN cases', cases'[c] = "in_progress"
                 PROVE  \E r \in DOMAIN runs' : runs'[r].case = c
      BY DEF InProgressHasJobs
    <3>0. c \in 1..Len(cases)
      BY <2>6, LenProperties
    <3>1. CASE c = case
      BY <2>4, <2>5, <3>1, SMTT(30)
    <3>2. CASE c # case
      <4>1. c \in DOMAIN cases /\ cases[c] = "in_progress"
        BY <2>6, <3>0, <3>2, RowTypes
      <4>2. PICK r \in DOMAIN runs : runs[r].case = c
        BY <4>1 DEF InProgressHasJobs
      <4>3. r \in DOMAIN runs' /\ runs'[r] = runs[r]
        BY <2>5, <4>2, RowTypes
      <4> QED BY <4>2, <4>3
    <3> QED BY <3>1, <3>2
  <2> QED BY <1>1, <2>1, <2>5, <2>6, <2>8, <2>9, RowTypes DEF RowsGrow
<1> QED BY <1>3, <1>4

LEMMA CloseRows ==
  ASSUME RowsOK, InProgressHasJobs, session.selected \in 1..Len(cases), CloseOrReopen \/ Delete
  PROVE  RowsOK' /\ InProgressHasJobs' /\ RowsGrow
<1>1. PICK x \in CaseStatus : x # "in_progress" /\ cases' = [cases EXCEPT ![session.selected] = x]
  BY DEF CloseOrReopen, Delete, Toggled, CaseStatus
<1>2. UNCHANGED <<analyses, runs>>
  BY DEF CloseOrReopen, Delete
<1> QED BY <1>1, <1>2, StatusChange

(* The display, saved in a case.                                           *)
LEMMA CurrentOK ==
  ASSUME SessionOK(session, analyses, Len(cases), Len(runs)), session.features # {}, NEW C \in Nat, NEW c \in 1..C
  PROVE  Current(c) \in AnalysisRow /\ AnalysisOK(Current(c), C) /\ Current(c).of = session.features
<1>1. /\ session.features \in SUBSET Captures /\ session.report \in SUBSET Captures
      /\ session.paths \in Seq(Captures) /\ session.paths # <<>>
      /\ session.report \subseteq session.features
  BY DEF SessionOK, SessionState
<1>2. session.paths[1] \in Captures
  BY <1>1, EmptySeq, ElementOfSeq
<1>3. Current(c) = [case |-> c, of |-> session.features, report |-> session.report, path |-> session.paths[1]]
  BY <1>1 DEF Current
<1> QED BY <1>1, <1>2, <1>3 DEF AnalysisRow, AnalysisOK

(* An analysis is added; cases may be, and runs keep their cases.          *)
LEMMA AnalysisJoins ==
  ASSUME RowsOK, cases' \in Seq(CaseStatus), Len(cases) <= Len(cases'), NEW row \in AnalysisRow,
         AnalysisOK(row, Len(cases')), analyses' = Append(analyses, row)
  PROVE  /\ analyses' \in Seq(AnalysisRow) /\ Len(analyses') = Len(analyses) + 1
         /\ \A a \in 1..Len(analyses') : AnalysisOK(analyses'[a], Len(cases'))
         /\ \A r \in 1..Len(runs) : RunOK(runs[r], Len(analyses'), Len(cases'))
         /\ \A a \in 1..Len(analyses) : analyses'[a] = analyses[a]
<1>0. Len(cases) \in Nat /\ Len(cases') \in Nat /\ Len(analyses) \in Nat
  BY RowTypes, LenProperties
<1>1. /\ analyses' \in Seq(AnalysisRow) /\ Len(analyses') = Len(analyses) + 1
      /\ \A a \in 1..Len(analyses) : analyses'[a] = analyses[a]
      /\ analyses'[Len(analyses) + 1] = row
  BY AnalysisAdded
<1>2. ASSUME NEW a \in 1..Len(analyses')  PROVE AnalysisOK(analyses'[a], Len(cases'))
  <2>1. a \in 1..Len(analyses) \/ a = Len(analyses) + 1
    BY <1>0, <1>1
  <2>2. CASE a \in 1..Len(analyses)
    BY <1>0, <1>1, <2>2, AnalysisGrows DEF RowsOK
  <2>3. CASE a = Len(analyses) + 1
    BY <1>1, <2>3
  <2> QED BY <2>1, <2>2, <2>3
<1>3. ASSUME NEW r \in 1..Len(runs)  PROVE RunOK(runs[r], Len(analyses'), Len(cases'))
  <2>1. RunOK(runs[r], Len(analyses), Len(cases))
    BY DEF RowsOK
  <2>2. Len(analyses) <= Len(analyses') /\ Len(analyses') \in Nat
    BY <1>0, <1>1
  <2> QED BY <1>0, <2>1, <2>2, RunGrows
<1> QED BY <1>1, <1>2, <1>3

LEMMA SaveRows ==
  ASSUME RowsOK, InProgressHasJobs, SessionOK(session, analyses, Len(cases), Len(runs)), QuickSave \/ AddCurrent
  PROVE  RowsOK' /\ InProgressHasJobs' /\ RowsGrow
<1>0. Len(cases) \in Nat /\ Len(analyses) \in Nat /\ Len(runs) \in Nat
  BY RowTypes
<1>1. CASE QuickSave
  <2>1. /\ cases' = Append(cases, "open") /\ analyses' = Append(analyses, Current(Len(cases) + 1))
        /\ runs' = runs /\ session.features # {}
    BY <1>1 DEF QuickSave
  <2>2. "open" \in CaseStatus
    BY DEF CaseStatus
  <2>3. /\ cases' \in Seq(CaseStatus) /\ Len(cases') = Len(cases) + 1
        /\ DOMAIN cases' = 1..Len(cases) + 1
        /\ \A c \in 1..Len(cases) : cases'[c] = cases[c]
        /\ cases'[Len(cases) + 1] = "open"
    BY <2>1, <2>2, CaseAdded
  <2>4. Len(cases') \in Nat /\ Len(cases) + 1 \in 1..Len(cases') /\ Len(cases) <= Len(cases')
    BY <1>0, <2>3
  <2>5. Current(Len(cases) + 1) \in AnalysisRow /\ AnalysisOK(Current(Len(cases) + 1), Len(cases'))
    BY <2>1, <2>4, CurrentOK
  <2>6. /\ analyses' \in Seq(AnalysisRow) /\ Len(analyses') = Len(analyses) + 1
        /\ \A a \in 1..Len(analyses') : AnalysisOK(analyses'[a], Len(cases'))
        /\ \A r \in 1..Len(runs) : RunOK(runs[r], Len(analyses'), Len(cases'))
        /\ \A a \in 1..Len(analyses) : analyses'[a] = analyses[a]
    BY <2>1, <2>3, <2>4, <2>5, AnalysisJoins
  <2>7. RowsOK'
    BY <2>1, <2>3, <2>6 DEF RowsOK
  <2>8. InProgressHasJobs'
    BY <1>0, <2>1, <2>3, RowTypes DEF InProgressHasJobs
  <2> QED BY <1>0, <2>1, <2>3, <2>6, <2>7, <2>8 DEF RowsGrow
<1>2. CASE AddCurrent
  <2>1. /\ cases' = cases /\ analyses' = Append(analyses, Current(session.selected))
        /\ runs' = runs /\ session.features # {} /\ session.view = "detail"
    BY <1>2 DEF AddCurrent, Viewed
  <2>2. session.selected \in 1..Len(cases) /\ cases \in Seq(CaseStatus)
    BY <2>1 DEF SessionOK, RowsOK
  <2>3. Current(session.selected) \in AnalysisRow /\ AnalysisOK(Current(session.selected), Len(cases))
    BY <1>0, <2>1, <2>2, CurrentOK
  <2>4. /\ analyses' \in Seq(AnalysisRow) /\ Len(analyses') = Len(analyses) + 1
        /\ \A a \in 1..Len(analyses') : AnalysisOK(analyses'[a], Len(cases'))
        /\ \A r \in 1..Len(runs) : RunOK(runs[r], Len(analyses'), Len(cases'))
        /\ \A a \in 1..Len(analyses) : analyses'[a] = analyses[a]
    BY <1>0, <2>1, <2>2, <2>3, AnalysisJoins
  <2>5. RowsOK'
    BY <2>1, <2>2, <2>4 DEF RowsOK
  <2>6. InProgressHasJobs'
    BY <2>1 DEF InProgressHasJobs
  <2> QED BY <1>0, <2>1, <2>4, <2>5, <2>6 DEF RowsGrow
<1> QED BY <1>1, <1>2

(* A job that has come to its end, with an analysis or without: `end` is   *)
(* its run then.                                                           *)
Ends(end, r, i, st, a) ==
  /\ end \in RunRow /\ end.case = runs[r].case /\ end.kind = runs[r].kind /\ end.of = runs[r].of
  /\ Len(end.jobs) = Len(runs[r].jobs) /\ Len(end.results) = Len(runs[r].results)
  /\ \A j \in 1..Len(runs[r].jobs) :
       /\ end.jobs[j] = IF j = i THEN st ELSE runs[r].jobs[j]
       /\ end.results[j] = IF j = i THEN a ELSE runs[r].results[j]
  /\ runs' = [runs EXCEPT ![r] = end]

LEMMA EndsRows ==
  ASSUME RowsOK, InProgressHasJobs, cases' = cases, NEW r \in 1..Len(runs), NEW i \in 1..Len(runs[r].jobs),
         NEW st \in {"done", "failed"}, NEW a, NEW end, Ends(end, r, i, st, a),
         a \in IF st = "done" THEN 1..Len(analyses') ELSE {0},
         analyses' \in Seq(AnalysisRow), Len(analyses) <= Len(analyses'),
         \A x \in 1..Len(analyses') : AnalysisOK(analyses'[x], Len(cases)),
         \A x \in 1..Len(runs) : RunOK(runs[x], Len(analyses'), Len(cases))
  PROVE  RowsOK' /\ InProgressHasJobs' /\ Len(runs') = Len(runs)
<1> DEFINE A == Len(analyses')
           run == runs[r]
<1>0. A \in Nat /\ Len(cases) \in Nat /\ run \in RunRow /\ RunOK(run, A, Len(cases))
  BY RowTypes, LenProperties
<1>1. a \in IF st = "done" THEN 1..A ELSE {0}
  OBVIOUS
<1> HIDE DEF A
<1>2. /\ run.case \in 1..Len(cases) /\ run.jobs # <<>> /\ run.jobs \in Seq({"active", "done", "failed"})
      /\ Len(run.of) = Len(run.jobs) /\ Len(run.results) = Len(run.jobs)
      /\ \A j \in 1..Len(run.jobs) :
            /\ run.of[j] \in IF run.kind = "pcap" THEN Captures ELSE 1..A
            /\ run.results[j] \in IF run.jobs[j] = "done" THEN 1..A ELSE {0}
  BY <1>0 DEF RunOK, RunRow
<1>3. RunOK(end, A, Len(cases))
  <2>1. end.jobs \in Seq({"active", "done", "failed"}) /\ Len(run.jobs) \in Nat \ {0}
    BY <1>2, EmptySeq DEF Ends, RunRow
  <2>2. end.jobs # <<>>
    BY <2>1, EmptySeq DEF Ends
  <2>3. ASSUME NEW j \in 1..Len(run.jobs)
        PROVE  /\ end.of[j] \in IF end.kind = "pcap" THEN Captures ELSE 1..A
               /\ end.results[j] \in IF end.jobs[j] = "done" THEN 1..A ELSE {0}
    BY <1>1, <1>2 DEF Ends
  <2> QED BY <1>2, <2>2, <2>3 DEF Ends, RunOK
<1>4. runs \in Seq(RunRow) /\ DOMAIN runs = 1..Len(runs)
  BY RowTypes DEF RowsOK
<1>5. /\ runs' \in Seq(RunRow) /\ Len(runs') = Len(runs)
      /\ \A x \in 1..Len(runs) : runs'[x] = IF x = r THEN end ELSE runs[x]
  BY <1>4, ExceptSeq DEF Ends
<1>6. \A x \in 1..Len(runs') : RunOK(runs'[x], A, Len(cases))
  BY <1>3, <1>5 DEF A
<1>7. RowsOK'
  BY <1>5, <1>6 DEF RowsOK, A
<1>8. InProgressHasJobs'
  <2>1. DOMAIN runs' = DOMAIN runs
    BY <1>4, <1>5, LenProperties
  <2>2. \A x \in DOMAIN runs : runs'[x].case = runs[x].case
    BY <1>4, <1>5 DEF Ends
  <2> QED BY <2>1, <2>2 DEF InProgressHasJobs
<1> QED BY <1>5, <1>7, <1>8

LEMMA CompletedEnds ==
  ASSUME RowsOK, NEW r \in 1..Len(runs), NEW i \in 1..Len(runs[r].jobs), NEW a \in Nat, runs' = Completed(r, i, a)
  PROVE  \E end : Ends(end, r, i, "done", a)
<1> DEFINE jobs == [runs[r].jobs EXCEPT ![i] = "done"]
           results == [runs[r].results EXCEPT ![i] = a]
           end == [runs[r] EXCEPT !.jobs = jobs, !.results = results]
<1>0. runs[r] \in RunRow /\ RunOK(runs[r], Len(analyses), Len(cases)) /\ r \in DOMAIN runs
  BY RowTypes DEF RowsOK
<1>1. /\ runs[r].jobs \in Seq({"active", "done", "failed"}) /\ runs[r].results \in Seq(Nat)
      /\ Len(runs[r].results) = Len(runs[r].jobs)
  BY <1>0 DEF RunRow, RunOK
<1>2. /\ jobs \in Seq({"active", "done", "failed"}) /\ Len(jobs) = Len(runs[r].jobs)
      /\ \A j \in 1..Len(runs[r].jobs) : jobs[j] = IF j = i THEN "done" ELSE runs[r].jobs[j]
  BY <1>1, ExceptSeq
<1>3. /\ results \in Seq(Nat) /\ Len(results) = Len(runs[r].results)
      /\ \A j \in 1..Len(runs[r].jobs) : results[j] = IF j = i THEN a ELSE runs[r].results[j]
  BY <1>1, ExceptSeq
<1>4. runs' = [runs EXCEPT ![r] = end]
  BY <1>0 DEF Completed, RunRow
<1> HIDE DEF jobs, results
<1>5. /\ end \in RunRow
      /\ end.case = runs[r].case /\ end.kind = runs[r].kind /\ end.of = runs[r].of
      /\ end.jobs = jobs /\ end.results = results
  BY <1>0, <1>2, <1>3 DEF RunRow
<1> HIDE DEF end
<1> QED BY <1>2, <1>3, <1>4, <1>5 DEF Ends

LEMMA FailsEnds ==
  ASSUME RowsOK, NEW r \in 1..Len(runs), NEW i \in 1..Len(runs[r].jobs), Fails(r, i)
  PROVE  \E end : Ends(end, r, i, "failed", 0)
<1> DEFINE jobs == [runs[r].jobs EXCEPT ![i] = "failed"]
           end == [runs[r] EXCEPT !.jobs = jobs]
<1>0. runs[r] \in RunRow /\ RunOK(runs[r], Len(analyses), Len(cases)) /\ r \in DOMAIN runs
  BY RowTypes DEF RowsOK
<1>1. /\ runs[r].jobs \in Seq({"active", "done", "failed"}) /\ runs[r].results[i] = 0
      /\ Len(runs[r].results) = Len(runs[r].jobs)
  BY <1>0 DEF RunRow, RunOK, Fails, Job
<1>2. /\ jobs \in Seq({"active", "done", "failed"}) /\ Len(jobs) = Len(runs[r].jobs)
      /\ \A j \in 1..Len(runs[r].jobs) : jobs[j] = IF j = i THEN "failed" ELSE runs[r].jobs[j]
  BY <1>1, ExceptSeq
<1>3. runs' = [runs EXCEPT ![r] = end]
  BY <1>0 DEF Fails, RunRow
<1> HIDE DEF jobs
<1>4. /\ end \in RunRow
      /\ end.case = runs[r].case /\ end.kind = runs[r].kind /\ end.of = runs[r].of
      /\ end.jobs = jobs /\ end.results = runs[r].results
  BY <1>0, <1>2 DEF RunRow
<1> HIDE DEF end
<1> QED BY <1>1, <1>2, <1>3, <1>4 DEF Ends

LEMMA AnalysisEndsRows ==
  ASSUME RowsOK, InProgressHasJobs, NEW r \in 1..Len(runs), NEW i \in 1..Len(runs[r].jobs), NEW reported \in BOOLEAN,
         AnalysisEnds(r, i, reported)
  PROVE  RowsOK' /\ InProgressHasJobs' /\ RowsGrow
<1> DEFINE p == runs[r].of[i]
           row == [case |-> runs[r].case, of |-> {p}, path |-> p, report |-> IF reported THEN {p} ELSE {}]
           new == Len(analyses) + 1
<1>1. /\ runs[r].kind = "pcap" /\ analyses' = Append(analyses, row) /\ cases' = cases
      /\ runs' = Completed(r, i, new)
  BY DEF AnalysisEnds, Job
<1>2. Len(analyses) \in Nat /\ Len(cases) \in Nat /\ RunOK(runs[r], Len(analyses), Len(cases)) /\ runs[r] \in RunRow
  BY RowTypes DEF RowsOK
<1>3. p \in Captures /\ runs[r].case \in 1..Len(cases) /\ runs[r].case \in Nat
  BY <1>1, <1>2 DEF RunOK
<1>4. row \in AnalysisRow /\ AnalysisOK(row, Len(cases))
  BY <1>3 DEF AnalysisRow, AnalysisOK
<1> HIDE DEF row, p
<1>5. /\ analyses' \in Seq(AnalysisRow) /\ Len(analyses') = Len(analyses) + 1
      /\ \A a \in 1..Len(analyses') : AnalysisOK(analyses'[a], Len(cases))
      /\ \A x \in 1..Len(runs) : RunOK(runs[x], Len(analyses'), Len(cases))
      /\ \A a \in 1..Len(analyses) : analyses'[a] = analyses[a]
  <2>1. cases' \in Seq(CaseStatus) /\ Len(cases') = Len(cases) /\ Len(cases) <= Len(cases')
    BY <1>1, <1>2 DEF RowsOK
  <2> QED BY <1>1, <1>4, <2>1, AnalysisJoins
<1>6. new \in Nat /\ new \in 1..Len(analyses') /\ Len(analyses) <= Len(analyses')
  BY <1>2, <1>5
<1> HIDE DEF new
<1>7. RowsOK' /\ InProgressHasJobs' /\ Len(runs') = Len(runs)
  <2>1. "done" \in {"done", "failed"} /\ new \in IF "done" = "done" THEN 1..Len(analyses') ELSE {0}
    BY <1>6
  <2>2. PICK end : Ends(end, r, i, "done", new)
    BY <1>1, <1>6, CompletedEnds
  <2> QED BY <1>1, <1>5, <1>6, <2>1, <2>2, EndsRows
<1> QED BY <1>1, <1>2, <1>5, <1>6, <1>7, RowTypes DEF RowsGrow

LEMMA ReportEndsRows ==
  ASSUME RowsOK, InProgressHasJobs, NEW r \in 1..Len(runs), NEW i \in 1..Len(runs[r].jobs), NEW reported \in BOOLEAN,
         ReportEnds(r, i, reported)
  PROVE  RowsOK' /\ InProgressHasJobs' /\ RowsGrow
<1> DEFINE a == runs[r].of[i]
<1>1. /\ runs[r].kind = "report" /\ cases' = cases /\ runs' = Completed(r, i, a)
      /\ analyses' = IF reported THEN [analyses EXCEPT ![a].report = analyses[a].of] ELSE analyses
  BY DEF ReportEnds, Job
<1>2. /\ Len(analyses) \in Nat /\ Len(cases) \in Nat /\ Len(runs) \in Nat
      /\ RunOK(runs[r], Len(analyses), Len(cases)) /\ analyses \in Seq(AnalysisRow)
  BY RowTypes DEF RowsOK
<1>3. a \in 1..Len(analyses)
  BY <1>1, <1>2 DEF RunOK
<1> HIDE DEF a
<1> DEFINE row == [analyses[a] EXCEPT !.report = analyses[a].of]
<1>4. /\ row \in AnalysisRow /\ AnalysisOK(row, Len(cases)) /\ row.of = analyses[a].of
  <2>1. analyses[a] \in AnalysisRow /\ AnalysisOK(analyses[a], Len(cases))
    BY <1>3, RowTypes DEF RowsOK
  <2> QED BY <2>1 DEF AnalysisRow, AnalysisOK
<1>5. reported => analyses' = [analyses EXCEPT ![a] = row]
  BY <1>1
<1> HIDE DEF row
<1>6. /\ analyses' \in Seq(AnalysisRow) /\ Len(analyses') = Len(analyses)
      /\ \A x \in 1..Len(analyses) : analyses'[x] = analyses[x] \/ (x = a /\ analyses'[x] = row)
  <2>1. CASE reported
    BY <1>2, <1>3, <1>4, <1>5, <2>1, ExceptSeq
  <2>2. CASE ~reported
    BY <1>1, <1>2, <2>2
  <2> QED BY <2>1, <2>2
<1>7. /\ \A x \in 1..Len(analyses') : AnalysisOK(analyses'[x], Len(cases))
      /\ \A x \in 1..Len(analyses) : analyses'[x].of = analyses[x].of
  BY <1>4, <1>6 DEF RowsOK
<1>8. \A x \in 1..Len(runs) : RunOK(runs[x], Len(analyses'), Len(cases))
  BY <1>6 DEF RowsOK
<1>9. RowsOK' /\ InProgressHasJobs' /\ Len(runs') = Len(runs)
  <2>1. /\ "done" \in {"done", "failed"} /\ a \in IF "done" = "done" THEN 1..Len(analyses') ELSE {0}
        /\ a \in Nat /\ Len(analyses) <= Len(analyses')
    BY <1>2, <1>3, <1>6
  <2>2. PICK end : Ends(end, r, i, "done", a)
    BY <1>1, <2>1, CompletedEnds
  <2> QED BY <1>1, <1>6, <1>7, <1>8, <2>1, <2>2, EndsRows
<1> QED BY <1>1, <1>2, <1>6, <1>7, <1>9 DEF RowsGrow

LEMMA FailsRows ==
  ASSUME RowsOK, InProgressHasJobs, NEW r \in 1..Len(runs), NEW i \in 1..Len(runs[r].jobs), Fails(r, i)
  PROVE  RowsOK' /\ InProgressHasJobs' /\ RowsGrow
<1>1. cases' = cases /\ analyses' = analyses
  BY DEF Fails
<1>2. PICK end : Ends(end, r, i, "failed", 0)
  BY FailsEnds
<1>3. /\ analyses' \in Seq(AnalysisRow) /\ Len(analyses) <= Len(analyses')
      /\ \A x \in 1..Len(analyses') : AnalysisOK(analyses'[x], Len(cases))
      /\ \A x \in 1..Len(runs) : RunOK(runs[x], Len(analyses'), Len(cases))
  BY <1>1, RowTypes DEF RowsOK
<1>4. "failed" \in {"done", "failed"} /\ 0 \in IF "failed" = "done" THEN 1..Len(analyses') ELSE {0}
  OBVIOUS
<1>5. RowsOK' /\ InProgressHasJobs' /\ Len(runs') = Len(runs)
  BY <1>1, <1>2, <1>3, <1>4, EndsRows
<1> QED BY <1>1, <1>5, RowTypes DEF RowsGrow

(* The run found again is one there is.                                    *)
LEMMA RecoverableIs ==
  ASSUME RowsOK
  PROVE  Recoverable \in 0..Len(runs)
<1> DEFINE found == {r \in DOMAIN runs : Found(r)}
           active == {r \in found : Running(r)}
<1>1. Len(runs) \in Nat /\ found \subseteq 1..Len(runs) /\ active \subseteq 1..Len(runs)
  BY RowTypes
<1>2. Recoverable = IF active # {} THEN Max(active) ELSE IF found # {} THEN Max(found) ELSE 0
  BY DEF Recoverable
<1> HIDE DEF found, active
<1>3. active # {} => Max(active) \in active
  BY <1>1, MaxIs
<1>4. found # {} => Max(found) \in found
  BY <1>1, MaxIs
<1>8. (active # {} => Max(active) \in 0..Len(runs)) /\ (found # {} => Max(found) \in 0..Len(runs))
  <2>1. 1..Len(runs) \subseteq 0..Len(runs)
    BY <1>1
  <2> QED BY <1>1, <1>3, <1>4, <2>1, Zenon
<1>5. CASE active # {}
  <2>1. Recoverable = Max(active)
    BY <1>2, <1>5, Zenon
  <2> QED BY <1>5, <1>8, <2>1, Zenon
<1>6. CASE active = {} /\ found # {}
  <2>1. Recoverable = Max(found)
    BY <1>2, <1>6, Zenon
  <2> QED BY <1>6, <1>8, <2>1, Zenon
<1>7. CASE active = {} /\ found = {}
  BY <1>1, <1>2, <1>7
<1> QED BY <1>5, <1>6, <1>7

LEMMA RecoveredRun ==
  ASSUME RowsOK, NEW s \in SessionState, s.run \in 0..Len(runs)
  PROVE  Recovered(s) \in SessionState /\ Recovered(s).run \in 0..Len(runs)
<1>1. Recoverable \in 0..Len(runs) /\ Len(runs) \in Nat
  BY RecoverableIs, RowTypes
<1>2. Recoverable \in Nat
  BY <1>1
<1> QED BY <1>1, <1>2 DEF Recovered, SessionState

(* Every step keeps the rows in order.                                     *)
LEMMA RowsNext == WorkbenchInv /\ [Next]_vars => RowsOK' /\ InProgressHasJobs' /\ RowsGrow
<1> SUFFICES ASSUME WorkbenchInv, [Next]_vars  PROVE RowsOK' /\ InProgressHasJobs' /\ RowsGrow
  OBVIOUS
<1>0. /\ RowsOK /\ InProgressHasJobs /\ SessionOK(session, analyses, Len(cases), Len(runs))
      /\ session \in SessionState /\ session.run \in 0..Len(runs)
      /\ session.paths \in Seq(Captures) /\ session.ids \in Seq(Nat)
      /\ \A i \in 1..Len(session.ids) : session.ids[i] \in 1..Len(analyses)
  BY DEF WorkbenchInv, SessionOK, SessionState
<1>1. CASE Rerun
  <2> DEFINE s == Sourced(Recovered(session))
  <2>1. CASE RestoreRun(s)
    <3>1. s.run \in 0..Len(runs)
      BY <1>0, RecoveredRun DEF Sourced, SessionState
    <3> QED BY <1>0, <1>1, <2>1, <3>1, RestoreRunRows DEF Rerun
  <2>2. CASE ~RestoreRun(s)
    BY <1>0, <1>1, <2>2, RowsUnchanged DEF Rerun, rows
  <2> QED BY <2>1, <2>2
<1>2. CASE Tick
  BY <1>0, <1>2, RestoreRunRows DEF Tick
<1>3. CASE Interact \/ ClearUploader \/ Back \/ Reload
  BY <1>0, <1>3, RowsUnchanged DEF Interact, ClearUploader, Back, Reload
<1>4. ASSUME NEW u, Upload(u) \/ Open(u) \/ Load(u)  PROVE RowsOK' /\ InProgressHasJobs' /\ RowsGrow
  BY <1>0, <1>4, RowsUnchanged DEF Upload, Open, Load
<1>5. ASSUME NEW k \in 0..Len(session.paths), Start(k)  PROVE RowsOK' /\ InProgressHasJobs' /\ RowsGrow
  BY <1>0, <1>5, StartRows
<1>6. ASSUME NEW k \in 0..Len(session.ids), RerunReport(k)  PROVE RowsOK' /\ InProgressHasJobs' /\ RowsGrow
  BY <1>0, <1>6, RerunReportRows
<1>7. CASE CloseOrReopen \/ Delete
  <2>1. session.selected \in 1..Len(cases)
    BY <1>0, <1>7 DEF CloseOrReopen, Delete, Viewed, SessionOK
  <2> QED BY <1>0, <1>7, <2>1, CloseRows
<1>8. CASE QuickSave \/ AddCurrent
  BY <1>0, <1>8, SaveRows
<1>9. CASE Workers
  <2>0. PICK r \in DOMAIN runs : \E i \in DOMAIN runs[r].jobs : Works(r, i)
    BY <1>9 DEF Workers
  <2>1. PICK i \in DOMAIN runs[r].jobs : Works(r, i)
    BY <2>0
  <2>2. r \in 1..Len(runs) /\ runs[r] \in RunRow
    BY <1>0, RowTypes
  <2>3. i \in 1..Len(runs[r].jobs)
    BY <2>1, <2>2, LenProperties DEF RunRow
  <2> QED BY <1>0, <2>1, <2>2, <2>3, AnalysisEndsRows, ReportEndsRows, FailsRows DEF Works
<1>10. CASE UNCHANGED vars
  BY <1>0, <1>10, RowsUnchanged DEF vars
<1> QED BY <1>1, <1>2, <1>3, <1>4, <1>5, <1>6, <1>7, <1>8, <1>9, <1>10 DEF Next, Clicks

-----------------------------------------------------------------------------
(* The session.                                                            *)

(* It stays in order while rows are added.                                 *)
LEMMA SessionKept ==
  ASSUME NEW s, NEW rs, NEW ts, NEW C \in Nat, NEW D \in Nat, NEW R \in Nat, NEW Q \in Nat,
         SessionOK(s, rs, C, R), Len(rs) \in Nat, Len(ts) \in Nat,
         Len(rs) <= Len(ts), C <= D, R <= Q, \A a \in 1..Len(rs) : ts[a].of = rs[a].of
  PROVE  SessionOK(s, ts, D, Q)
<1>1. DataIn(ts, s.ids) = DataIn(rs, s.ids)
  <2>1. \A i \in 1..Len(s.ids) : ts[s.ids[i]].of = rs[s.ids[i]].of
    BY DEF SessionOK
  <2>2. {ts[s.ids[i]].of : i \in 1..Len(s.ids)} = {rs[s.ids[i]].of : i \in 1..Len(s.ids)}
    BY <2>1
  <2> QED BY <2>2, Zenon DEF DataIn
<1>2. s.marker # 0 => s.marker \in 1..Len(rs) /\ ts[s.marker].of = rs[s.marker].of
  BY DEF SessionOK
<1>3. /\ s.marker \in 0..Len(ts) /\ s.run \in 0..Q
      /\ s.view = "detail" => s.selected \in 1..D
      /\ \A i \in 1..Len(s.ids) : s.ids[i] \in 1..Len(ts)
  BY SMTT(30) DEF SessionOK
<1> QED BY <1>1, <1>2, <1>3 DEF SessionOK

(* Evidence and reports of saved analyses.                                 *)
LEMMA DataOfIs ==
  ASSUME RowsOK, NEW as \in Seq(Nat), \A i \in 1..Len(as) : as[i] \in 1..Len(analyses)
  PROVE  /\ DataOf(as) = DataIn(analyses, as)
         /\ DataOf(as) \in SUBSET Captures
         /\ ReportOf(as) \subseteq DataOf(as)
<1>1. DOMAIN as = 1..Len(as)
  BY LenProperties
<1>2. \A x \in Range(as) : x \in 1..Len(analyses)
  BY <1>1 DEF Range
<1>3. \A a \in 1..Len(analyses) : analyses[a].of \in SUBSET Captures /\ analyses[a].report \subseteq analyses[a].of
  BY RowTypes DEF RowsOK, AnalysisOK, AnalysisRow
<1>4. DataOf(as) = DataIn(analyses, as)
  BY <1>1 DEF DataOf, DataIn, Range
<1>5. DataOf(as) \in SUBSET Captures /\ ReportOf(as) \subseteq DataOf(as)
  BY <1>2, <1>3 DEF DataOf, ReportOf
<1> QED BY <1>4, <1>5

(* Restoring an analysis, or a batch, replaces all that is on display.     *)
LEMMA RestoredOK ==
  ASSUME RowsOK, NEW s, NEW C, NEW R, SessionOK(s, analyses, C, R),
         NEW as \in Seq(Nat), as # <<>>, \A i \in 1..Len(as) : as[i] \in 1..Len(analyses)
  PROVE  SessionOK(Restored(s, as), analyses, C, R)
<1> DEFINE new == Restored(s, as)
           paths == [i \in DOMAIN as |-> analyses[as[i]].path]
           flows == DataOf(as) \cap Flowing
<1>0. DOMAIN as = 1..Len(as) /\ Len(as) \in Nat \ {0} /\ Len(analyses) \in Nat
  BY LenProperties, EmptySeq, RowTypes
<1>1. /\ DataOf(as) = DataIn(analyses, as)
      /\ DataOf(as) \in SUBSET Captures
      /\ ReportOf(as) \subseteq DataOf(as)
  BY DataOfIs
<1>2. paths \in Seq(Captures) /\ paths # <<>>
  <2>1. \A i \in 1..Len(as) : analyses[as[i]].path \in Captures
    BY RowTypes DEF AnalysisRow
  <2>2. paths \in [1..Len(as) -> Captures]
    BY <1>0, <2>1
  <2> DEFINE n == Len(as)
  <2>3. n \in Nat /\ n # 0 /\ paths \in [1..n -> Captures]
    BY <1>0, <2>2
  <2> HIDE DEF paths, n
  <2>4. paths \in Seq(Captures)
    BY <2>3, SeqDef
  <2>5. Len(paths) = n
    BY <2>3, <2>4, LenProperties
  <2> QED BY <2>3, <2>4, <2>5, EmptySeq
<1>3. Max(Range(as)) \in 1..Len(analyses) /\ \E i \in 1..Len(as) : Max(Range(as)) = as[i]
  <2>1. Range(as) \subseteq 1..Len(analyses) /\ Range(as) # {}
    <3>1. \A x \in Range(as) : \E i \in 1..Len(as) : x = as[i]
      BY <1>0 DEF Range
    <3>2. 1 \in DOMAIN as
      <4> DEFINE n == Len(as)
      <4>1. n \in Nat /\ n # 0 /\ DOMAIN as = 1..n
        BY <1>0
      <4> HIDE DEF n
      <4>2. 1 \in 1..n
        BY <4>1
      <4> QED BY <4>1, <4>2, Zenon
    <3>3. as[1] \in Range(as)
      BY <3>2 DEF Range
    <3>4. \A i \in 1..Len(as) : as[i] \in 1..Len(analyses)
      OBVIOUS
    <3> QED BY <3>1, <3>3, <3>4
  <2>2. Max(Range(as)) \in Range(as)
    BY <1>0, <2>1, MaxIs
  <2> QED BY <1>0, <2>1, <2>2 DEF Range
<1>4. /\ Derived(s, as) \in SUBSET Captures
      /\ \/ Derived(s, as) \subseteq DataOf(as)
         \/ DataOf(as) \cap Flowing = {} /\ Len(as) > 1
  <2>1. s.derived \in SUBSET Captures
    BY DEF SessionOK, SessionState
  <2> QED BY <1>1, <2>1 DEF Derived
<1> HIDE DEF paths
<1>5. new = [s EXCEPT !.features = DataOf(as), !.report = ReportOf(as), !.derived = Derived(s, as),
                      !.paths = paths, !.marker = Max(Range(as)), !.ids = as]
  BY DEF Restored, Report, Marker, Ids, paths
<1> DEFINE data == DataOf(as)  reports == ReportOf(as)  der == Derived(s, as)  mx == Max(Range(as))
<1>6. reports \in SUBSET Captures /\ mx \in Nat /\ mx \in 0..Len(analyses) /\ data \in SUBSET Captures
  <2>1. mx \in 1..Len(analyses) /\ Len(analyses) \in Nat
    BY <1>0, <1>3
  <2> HIDE DEF mx
  <2>2. mx \in Nat /\ mx \in 0..Len(analyses)
    BY <2>1
  <2> QED BY <1>1, <2>2
<1>7. /\ data = DataIn(analyses, as) /\ reports \subseteq data /\ der \in SUBSET Captures
      /\ der \subseteq data \/ (data \cap Flowing = {} /\ Len(as) > 1)
      /\ \E i \in 1..Len(as) : mx = as[i]
  BY <1>1, <1>3, <1>4
<1>8. new = [s EXCEPT !.features = data, !.report = reports, !.derived = der,
                      !.paths = paths, !.marker = mx, !.ids = as]
  BY <1>5
<1> HIDE DEF new, data, reports, der, mx
<1>9. /\ new \in SessionState /\ new.features = data /\ new.report = reports /\ new.derived = der
      /\ new.paths = paths /\ new.marker = mx /\ new.ids = as
      /\ new.run = s.run /\ new.view = s.view /\ new.selected = s.selected
  BY <1>2, <1>6, <1>7, <1>8 DEF SessionOK, SessionState
<1>10. SessionOK(new, analyses, C, R)
  BY <1>2, <1>6, <1>7, <1>9 DEF SessionOK
<1> QED BY <1>10 DEF new

(* What a pass starts from.                                                *)
LEMMA SourcedOK ==
  ASSUME RowsOK, NEW s, NEW C, SessionOK(s, analyses, C, Len(runs))
  PROVE  SessionOK(Sourced(Recovered(s)), analyses, C, Len(runs))
<1>1. Recoverable \in 0..Len(runs) /\ Recoverable \in Nat
  BY RecoverableIs, RowTypes
<1>2. SessionOK([s EXCEPT !.run = Recoverable, !.loaded = FALSE], analyses, C, Len(runs))
  BY <1>1 DEF SessionOK, SessionState
<1>3. SessionOK(Recovered(s), analyses, C, Len(runs))
  BY <1>2 DEF Recovered
<1> DEFINE q == Recovered(s)
<1>4. SessionOK(q, analyses, C, Len(runs))
  BY <1>3
<1> HIDE DEF q
<1>5. q.uploader # <<>> => SessionOK([q EXCEPT !.paths = q.uploader], analyses, C, Len(runs))
  BY <1>4 DEF SessionOK, SessionState
<1>6. SessionOK(Sourced(q), analyses, C, Len(runs))
  BY <1>4, <1>5 DEF Sourced
<1> QED BY <1>6 DEF q

(* A finished run has an analysis for each of its files.                   *)
LEMMA RestoreRunSession ==
  ASSUME RowsOK, NEW s, SessionOK(s, analyses, Len(cases), Len(runs)), RestoreRun(s)
  PROVE  SessionOK(session', analyses, Len(cases), Len(runs))
<1> DEFINE as == runs[s.run].results
<1>1. s.run \in 1..Len(runs) /\ Finished(s.run)
  BY RowTypes DEF RestoreRun, Restores, SessionOK
<1>2. runs[s.run] \in RunRow /\ RunOK(runs[s.run], Len(analyses), Len(cases))
  BY <1>1, RowTypes DEF RowsOK
<1>3. /\ as \in Seq(Nat) /\ Len(as) = Len(runs[s.run].jobs) /\ runs[s.run].jobs # <<>>
      /\ runs[s.run].jobs \in Seq({"active", "done", "failed"})
  BY <1>2 DEF RunRow, RunOK
<1>4. \A i \in 1..Len(as) : as[i] \in 1..Len(analyses)
  <2>1. \A i \in 1..Len(as) : runs[s.run].jobs[i] = "done"
    BY <1>1, <1>3, LenProperties DEF Finished
  <2> QED BY <1>2, <1>3, <2>1 DEF RunOK
<1>5. as # <<>>
  BY <1>3, EmptySeq
<1>6. session' = [Restored(s, as) EXCEPT !.loaded = TRUE]
  BY DEF RestoreRun
<1> HIDE DEF as
<1>7. SessionOK(Restored(s, as), analyses, Len(cases), Len(runs))
  BY <1>3, <1>4, <1>5, RestoredOK
<1> DEFINE new == Restored(s, as)
<1>8. SessionOK(new, analyses, Len(cases), Len(runs)) /\ session' = [new EXCEPT !.loaded = TRUE]
  BY <1>6, <1>7
<1> HIDE DEF new
<1> QED BY <1>8 DEF SessionOK, SessionState

(* So has every case that is open in the detail view.                      *)
LEMMA NewestOf ==
  ASSUME RowsOK, NEW c, OfCase(c) # {}
  PROVE  Max(OfCase(c)) \in 1..Len(analyses) /\ \A a \in OfCase(c) : a <= Max(OfCase(c))
<1>1. OfCase(c) \subseteq 1..Len(analyses) /\ Len(analyses) \in Nat
  BY RowTypes DEF OfCase
<1>2. Max(OfCase(c)) \in OfCase(c) /\ \A a \in OfCase(c) : a <= Max(OfCase(c))
  BY <1>1, MaxIs
<1> QED BY <1>1, <1>2, Zenon

LEMMA RestoredOne ==
  ASSUME RowsOK, NEW s, NEW C, NEW R, SessionOK(s, analyses, C, R), NEW a \in 1..Len(analyses)
  PROVE  SessionOK(Restored(s, <<a>>), analyses, C, R)
<1>0. a \in Nat
  BY RowTypes
<1>1. <<a>> \in Seq(Nat) /\ <<a>> # <<>> /\ \A i \in 1..Len(<<a>>) : <<a>>[i] \in 1..Len(analyses)
  BY <1>0
<1> QED BY <1>1, RestoredOK

(* The clicks that add a row, and the session after them.                  *)
LEMMA AttachOK ==
  ASSUME NEW s, NEW rs, NEW C, NEW R \in Nat, SessionOK(s, rs, C, R)
  PROVE  SessionOK(Attach(s, R + 1), rs, C, R + 1)
<1>1. s.run \in 0..(R + 1) /\ R + 1 \in 0..(R + 1) /\ R + 1 \in Nat
  BY DEF SessionOK
<1> QED BY <1>1 DEF SessionOK, SessionState, Attach

LEMMA AttachKept ==
  ASSUME NEW s, NEW rs, NEW ts, NEW C \in Nat, NEW D \in Nat, NEW R \in Nat, NEW Q \in Nat,
         SessionOK(s, rs, C, R), Len(rs) \in Nat, Len(ts) \in Nat,
         Len(rs) <= Len(ts), C <= D, Q = R + 1, \A a \in 1..Len(rs) : ts[a].of = rs[a].of
  PROVE  SessionOK(Attach(s, R + 1), ts, D, Q)
<1>1. SessionOK(Attach(s, R + 1), rs, C, Q) /\ Q <= Q
  BY AttachOK
<1> QED BY <1>1, SessionKept

(* A session that has just begun.                                          *)
LEMMA FreshOK ==
  ASSUME NEW rs, Len(rs) \in Nat, NEW C, NEW R \in Nat
  PROVE  SessionOK(Fresh, rs, C, R)
<1>1. <<>> \in Seq(Captures) /\ <<>> \in Seq(Nat) /\ Len(<<>>) = 0 /\ 0 \in 0..Len(rs) /\ 0 \in 0..R
  OBVIOUS
<1>2. Fresh \in SessionState
  BY <1>1 DEF Fresh, SessionState
<1>3. /\ Fresh.marker = 0 /\ Fresh.run = 0 /\ Fresh.view = "list" /\ Fresh.ids = <<>>
      /\ Fresh.features = {} /\ Fresh.report = {} /\ Fresh.derived = {}
  BY DEF Fresh
<1> HIDE DEF Fresh
<1>4. \A i \in 1..Len(Fresh.ids) : Fresh.ids[i] \in 1..Len(rs)
  BY <1>1, <1>3
<1> QED BY <1>1, <1>2, <1>3, <1>4 DEF SessionOK

(* A save binds the display to its new row, and shows the case of that.    *)
LEMMA SavedOK ==
  ASSUME NEW s, NEW rs, NEW C, NEW R, SessionOK(s, rs, C, R), Len(rs) \in Nat,
         NEW a \in 1..Len(rs), s.features = rs[a].of, NEW c \in 1..C, c \in Nat
  PROVE  /\ SessionOK(Saved(s, a), rs, C, R)
         /\ SessionOK([Saved(s, a) EXCEPT !.view = "detail", !.selected = c], rs, C, R)
<1>1. a \in Nat /\ a \in 0..Len(rs)
  OBVIOUS
<1>2. SessionOK(Saved(s, a), rs, C, R)
  BY <1>1 DEF SessionOK, SessionState, Saved
<1> DEFINE new == Saved(s, a)
<1>3. SessionOK(new, rs, C, R)
  BY <1>2
<1> HIDE DEF new
<1>4. SessionOK([new EXCEPT !.view = "detail", !.selected = c], rs, C, R)
  BY <1>3 DEF SessionOK, SessionState
<1> QED BY <1>2, <1>4 DEF new

(* The row a save adds, and the marker it leaves.                          *)
LEMMA SaveAdds ==
  ASSUME WorkbenchInv, QuickSave \/ AddCurrent
  PROVE  \E c \in 1..Len(cases') :
           /\ Len(analyses') = Len(analyses) + 1 /\ Len(analyses') \in Nat /\ c \in Nat
           /\ analyses'[Len(analyses')].of = session.features
           /\ analyses'[Len(analyses')].case = c
           /\ \/ session' = [Saved(session, Len(analyses')) EXCEPT !.view = "detail", !.selected = c]
              \/ session' = Saved(session, Len(analyses')) /\ session.selected = c
<1>0. /\ RowsOK /\ InProgressHasJobs /\ SessionOK(session, analyses, Len(cases), Len(runs))
      /\ Len(cases) \in Nat /\ Len(analyses) \in Nat
  BY RowTypes DEF WorkbenchInv
<1>1. CASE QuickSave
  <2> DEFINE c == Len(cases) + 1
  <2>1. /\ cases' = Append(cases, "open") /\ analyses' = Append(analyses, Current(c)) /\ session.features # {}
        /\ session' = [Saved(session, Len(analyses) + 1) EXCEPT !.view = "detail", !.selected = c]
    BY <1>1 DEF QuickSave
  <2>2. Len(cases') = c
    BY <1>0, <2>1, CaseAdded DEF CaseStatus
  <2>3. c \in Nat /\ c \in 1..c
    BY <1>0
  <2> HIDE DEF c
  <2>4. Current(c) \in AnalysisRow /\ Current(c).of = session.features /\ Current(c).case = c
    BY <1>0, <2>1, <2>3, CurrentOK DEF Current
  <2>5. Len(analyses') = Len(analyses) + 1 /\ analyses'[Len(analyses) + 1] = Current(c)
    BY <1>0, <2>1, <2>4, AnalysisAdded
  <2>6. Len(analyses') = Len(analyses) + 1 /\ Len(analyses') \in Nat /\ analyses'[Len(analyses')] = Current(c)
    BY <1>0, <2>5
  <2>7. session' = [Saved(session, Len(analyses')) EXCEPT !.view = "detail", !.selected = c]
    BY <2>1, <2>5
  <2> QED BY <2>2, <2>3, <2>4, <2>6, <2>7
<1>2. CASE AddCurrent
  <2> DEFINE c == session.selected
  <2>1. /\ cases' = cases /\ analyses' = Append(analyses, Current(c)) /\ session.features # {}
        /\ session' = Saved(session, Len(analyses) + 1) /\ session.view = "detail"
    BY <1>2 DEF AddCurrent, Viewed
  <2>2. c \in 1..Len(cases)
    BY <1>0, <2>1 DEF SessionOK
  <2>3. c \in Nat
    BY <1>0, <2>2
  <2>6. session.selected = c
    OBVIOUS
  <2> HIDE DEF c
  <2>4. Current(c) \in AnalysisRow /\ Current(c).of = session.features /\ Current(c).case = c
    BY <1>0, <2>1, <2>2, CurrentOK DEF Current
  <2>5. Len(analyses') = Len(analyses) + 1 /\ analyses'[Len(analyses) + 1] = Current(c)
    BY <1>0, <2>1, <2>4, AnalysisAdded
  <2>7. Len(analyses') = Len(analyses) + 1 /\ Len(analyses') \in Nat /\ analyses'[Len(analyses')] = Current(c)
    BY <1>0, <2>5
  <2>8. session' = Saved(session, Len(analyses')) /\ session.selected = c /\ Len(cases') = Len(cases)
    BY <2>1, <2>5, <2>6
  <2> QED BY <2>2, <2>3, <2>4, <2>7, <2>8
<1> QED BY <1>1, <1>2

(* Every step keeps the session in order.                                  *)
LEMMA SessionNext ==
  ASSUME WorkbenchInv, [Next]_vars, RowsOK', RowsGrow
  PROVE  SessionOK(session', analyses', Len(cases'), Len(runs'))
<1> DEFINE Kept == SessionOK(session', analyses', Len(cases'), Len(runs'))
<1>0. /\ RowsOK /\ SessionOK(session, analyses, Len(cases), Len(runs)) /\ session \in SessionState
      /\ Len(cases) \in Nat /\ Len(analyses) \in Nat /\ Len(runs) \in Nat
  BY RowTypes DEF WorkbenchInv, SessionOK
<1>a. Len(cases') \in Nat /\ Len(analyses') \in Nat /\ Len(runs') \in Nat
  BY LenProperties DEF RowsOK
<1>b. /\ Len(cases) <= Len(cases') /\ Len(runs) <= Len(runs') /\ Len(analyses) <= Len(analyses')
      /\ \A a \in 1..Len(analyses) : analyses'[a].of = analyses[a].of
  BY DEF RowsGrow
<1>k. ASSUME NEW s, SessionOK(s, analyses, Len(cases), Len(runs))
      PROVE  SessionOK(s, analyses', Len(cases'), Len(runs'))
  BY <1>0, <1>a, <1>b, <1>k, SessionKept
<1>1. CASE Rerun
  <2> DEFINE s == Sourced(Recovered(session))
  <2>1. SessionOK(s, analyses, Len(cases), Len(runs))
    BY <1>0, SourcedOK
  <2>2. \/ RestoreRun(s)
        \/ Outdated(s) /\ session' = Restored(s, <<Max(OfCase(s.selected))>>)
        \/ session' = s
    BY <1>1 DEF Rerun
  <2> HIDE DEF s
  <2>3. CASE RestoreRun(s)
    BY <1>0, <1>k, <2>1, <2>3, RestoreRunSession
  <2>4. CASE Outdated(s) /\ session' = Restored(s, <<Max(OfCase(s.selected))>>)
    <3>1. Max(OfCase(s.selected)) \in 1..Len(analyses)
      BY <1>0, <2>4, NewestOf DEF Outdated
    <3>2. SessionOK(session', analyses, Len(cases), Len(runs))
      BY <1>0, <2>1, <2>4, <3>1, RestoredOne
    <3> QED BY <1>k, <3>2
  <2> QED BY <1>k, <2>1, <2>2, <2>3, <2>4
<1>2. CASE Tick
  BY <1>0, <1>k, <1>2, RestoreRunSession DEF Tick
<1>3. CASE Interact \/ CloseOrReopen \/ Workers
  <2>1. session' = session
    BY <1>3 DEF Interact, CloseOrReopen, Workers, Works, AnalysisEnds, ReportEnds, Fails
  <2> QED BY <1>0, <1>k, <2>1
<1>4. CASE ClearUploader
  <2>1. session' = [session EXCEPT !.uploader = <<>>] /\ <<>> \in Seq(Captures)
    BY <1>4 DEF ClearUploader
  <2>2. SessionOK(session', analyses, Len(cases), Len(runs))
    BY <1>0, <2>1 DEF SessionOK, SessionState
  <2> QED BY <1>k, <2>2
<1>5. CASE Back \/ Delete
  <2>1. session' = [session EXCEPT !.view = "list"]
    BY <1>5 DEF Back, Delete
  <2>2. SessionOK(session', analyses, Len(cases), Len(runs))
    BY <1>0, <2>1 DEF SessionOK, SessionState
  <2> QED BY <1>k, <2>2
<1>6. CASE Reload
  <2>1. session' = Fresh
    BY <1>6 DEF Reload
  <2> QED BY <1>a, <2>1, FreshOK
<1>7. ASSUME NEW u \in Uploads, Upload(u)  PROVE Kept
  <2>1. session' = [session EXCEPT !.uploader = u] /\ u \in Seq(Captures)
    BY <1>7, WorkbenchAssumption DEF Upload
  <2>2. SessionOK(session', analyses, Len(cases), Len(runs))
    BY <1>0, <2>1 DEF SessionOK, SessionState
  <2> QED BY <1>k, <2>2
<1>8. ASSUME NEW k, Start(k)  PROVE Kept
  <2>1. CASE session' = session
    BY <1>0, <1>k, <2>1
  <2>2. CASE session' # session
    <3>1. /\ session' = Attach(session, Len(runs) + 1) /\ session.paths # <<>> /\ k = Len(session.paths)
          /\ runs' = IF k = 0 THEN runs ELSE Append(runs, NewRun(Len(cases) + 1, SubSeq(session.paths, 1, k), k, "pcap"))
      BY <1>8, <2>2 DEF Start
    <3>2. k # 0
      BY <1>0, <3>1, EmptySeq DEF SessionState
    <3>3. Len(runs') = Len(runs) + 1
      <4>1. runs' = Append(runs, NewRun(Len(cases) + 1, SubSeq(session.paths, 1, k), k, "pcap"))
        BY <3>1, <3>2
      <4> QED BY <1>0, <4>1, AppendLength DEF RowsOK
    <3> QED BY <1>0, <1>a, <1>b, <3>1, <3>3, AttachKept
  <2> QED BY <2>1, <2>2
<1>9. ASSUME NEW k, RerunReport(k)  PROVE Kept
  <2>1. CASE session' = session
    BY <1>0, <1>k, <2>1
  <2>2. CASE session' # session
    <3> DEFINE row == NewRun(analyses[session.ids[1]].case, SubSeq(session.ids, 1, k), k, "report")
    <3>1. /\ session' = Attach([session EXCEPT !.report = {}], Len(runs) + 1)
          /\ session.ids # <<>> /\ k = Len(session.ids)
          /\ runs' = IF k = 0 THEN runs ELSE Append(runs, row)
      BY <1>9, <2>2 DEF RerunReport
    <3>2. k # 0
      BY <1>0, <3>1, EmptySeq DEF SessionState
    <3>3. Len(runs') = Len(runs) + 1
      <4>1. runs' = Append(runs, row)
        BY <3>1, <3>2
      <4> HIDE DEF row
      <4> QED BY <1>0, <4>1, AppendLength DEF RowsOK
    <3>4. SessionOK([session EXCEPT !.report = {}], analyses, Len(cases), Len(runs))
      BY <1>0 DEF SessionOK, SessionState
    <3> QED BY <1>0, <1>a, <1>b, <3>1, <3>3, <3>4, AttachKept
  <2> QED BY <2>1, <2>2
<1>10. ASSUME NEW c \in DOMAIN cases, Open(c)  PROVE Kept
  <2>1. session' = [session EXCEPT !.view = "detail", !.selected = c] /\ c \in 1..Len(cases) /\ c \in Nat
    BY <1>0, <1>10, RowTypes DEF Open
  <2>2. SessionOK(session', analyses, Len(cases), Len(runs))
    BY <1>0, <2>1 DEF SessionOK, SessionState
  <2> QED BY <1>k, <2>2
<1>11. ASSUME NEW a \in DOMAIN analyses, Load(a)  PROVE Kept
  <2>1. session' = Restored(session, <<a>>) /\ a \in 1..Len(analyses)
    BY <1>0, <1>11, RowTypes DEF Load
  <2>2. SessionOK(session', analyses, Len(cases), Len(runs))
    BY <1>0, <2>1, RestoredOne
  <2> QED BY <1>k, <2>2
<1>12. CASE QuickSave \/ AddCurrent
  <2>1. PICK c \in 1..Len(cases') :
           /\ Len(analyses') = Len(analyses) + 1 /\ c \in Nat
           /\ analyses'[Len(analyses')].of = session.features
           /\ \/ session' = [Saved(session, Len(analyses')) EXCEPT !.view = "detail", !.selected = c]
              \/ session' = Saved(session, Len(analyses'))
    BY <1>12, SaveAdds, Zenon
  <2>2. SessionOK(session, analyses', Len(cases'), Len(runs'))
    BY <1>0, <1>k
  <2>3. Len(analyses') \in 1..Len(analyses')
    BY <1>0, <2>1
  <2>4. session.features = analyses'[Len(analyses')].of
    BY <2>1
  <2>5. /\ SessionOK(Saved(session, Len(analyses')), analyses', Len(cases'), Len(runs'))
        /\ SessionOK([Saved(session, Len(analyses')) EXCEPT !.view = "detail", !.selected = c],
                     analyses', Len(cases'), Len(runs'))
    BY <1>a, <2>1, <2>2, <2>3, <2>4, SavedOK
  <2> QED BY <2>1, <2>5, Zenon
<1>13. CASE UNCHANGED vars
  BY <1>0, <1>k, <1>13 DEF vars
<1> QED BY <1>1, <1>2, <1>3, <1>4, <1>5, <1>6, <1>7, <1>8, <1>9, <1>10, <1>11, <1>12, <1>13 DEF Next, Clicks

-----------------------------------------------------------------------------
(* Theorems.                                                               *)

(* Rows refer to rows there are, a run has as many results as jobs, and    *)
(* the display of a session is bound to its marker, its ids and its        *)
(* report, whatever analysts click and workers finish between two passes   *)
(* (main.py, cases_tab.py, background_analysis.py).                        *)
THEOREM WorkbenchInvariant == Spec => []WorkbenchInv
<1>1. Init => WorkbenchInv
  <2> SUFFICES ASSUME Init  PROVE WorkbenchInv
    OBVIOUS
  <2>1. cases = <<>> /\ analyses = <<>> /\ runs = <<>> /\ session = Fresh /\ pass = TRUE
    BY DEF Init
  <2>2. RowsOK /\ InProgressHasJobs
    BY <2>1 DEF RowsOK, InProgressHasJobs
  <2>3. Len(analyses) \in Nat /\ Len(runs) \in Nat
    BY <2>2, RowTypes
  <2>4. SessionOK(session, analyses, Len(cases), Len(runs))
    BY <2>1, <2>3, FreshOK
  <2> QED BY <2>1, <2>2, <2>4 DEF WorkbenchInv
<1>2. WorkbenchInv /\ [Next]_vars => WorkbenchInv'
  <2> SUFFICES ASSUME WorkbenchInv, [Next]_vars  PROVE WorkbenchInv'
    OBVIOUS
  <2>1. RowsOK' /\ InProgressHasJobs' /\ RowsGrow
    BY RowsNext
  <2>2. SessionOK(session', analyses', Len(cases'), Len(runs'))
    BY <2>1, SessionNext
  <2>3. pass' \in BOOLEAN
    BY DEF WorkbenchInv, Next, vars, Rerun, Tick, Clicks, Interact, Click, Counted, ClearUploader, Back, QuickSave,
           AddCurrent, CloseOrReopen, Delete, Reload, Upload, Start, RerunReport, Open, Load, Workers, Works,
           Fails, AnalysisEnds, ReportEnds
  <2> QED BY <2>1, <2>2, <2>3 DEF WorkbenchInv
<1> QED BY <1>1, <1>2, PTL DEF Spec

(* Features, marker, report and derived views on display are those of one  *)
(* analysis, or of one batch (main.py, cases_tab.py).                      *)
THEOREM DisplayIsOneAnalysis == Spec => []ShownIsOneAnalysis
<1>1. WorkbenchInv => ShownIsOneAnalysis
  <2> SUFFICES ASSUME WorkbenchInv  PROVE ShownIsOneAnalysis
    OBVIOUS
  <2>0. /\ RowsOK /\ SessionOK(session, analyses, Len(cases), Len(runs)) /\ session \in SessionState
        /\ Len(cases) \in Nat /\ Len(analyses) \in Nat /\ Len(runs) \in Nat
        /\ DOMAIN cases = 1..Len(cases) /\ DOMAIN analyses = 1..Len(analyses) /\ DOMAIN runs = 1..Len(runs)
    BY RowTypes DEF WorkbenchInv, SessionOK
  <2>1. TypeOK
    <3>1. cases \in Seq({"open", "in_progress", "closed", "deleted"}) /\ pass \in BOOLEAN
      BY DEF WorkbenchInv, RowsOK, CaseStatus
    <3>2. ASSUME NEW a \in DOMAIN analyses
          PROVE  analyses[a].case \in DOMAIN cases /\ analyses[a].of # {} /\ analyses[a].of \subseteq Captures
      BY <2>0, RowTypes DEF RowsOK, AnalysisOK, AnalysisRow
    <3>3. ASSUME NEW r \in DOMAIN runs
          PROVE  /\ runs[r].case \in DOMAIN cases
                 /\ \A i \in DOMAIN runs[r].jobs : (runs[r].jobs[i] = "done") = (runs[r].results[i] \in DOMAIN analyses)
      <4>1. RunOK(runs[r], Len(analyses), Len(cases)) /\ runs[r].jobs \in Seq({"active", "done", "failed"})
        BY <2>0, RowTypes DEF RowsOK, RunRow
      <4>2. DOMAIN runs[r].jobs = 1..Len(runs[r].jobs)
        BY <4>1, LenProperties
      <4>3. ASSUME NEW i \in 1..Len(runs[r].jobs)
            PROVE  (runs[r].jobs[i] = "done") <=> (runs[r].results[i] \in 1..Len(analyses))
        BY <2>0, <4>1 DEF RunOK
      <4> QED BY <2>0, <4>1, <4>2, <4>3 DEF RunOK
    <3>4. /\ session.marker \in {0} \cup DOMAIN analyses
          /\ session.run \in {0} \cup DOMAIN runs
          /\ session.view = "detail" => session.selected \in DOMAIN cases
      BY <2>0 DEF SessionOK
    <3> QED BY <3>1, <3>2, <3>3, <3>4 DEF TypeOK
  <2>2. session.ids \in Seq(Nat) /\ \A i \in 1..Len(session.ids) : session.ids[i] \in 1..Len(analyses)
    BY <2>0 DEF SessionOK, SessionState
  <2>3. DOMAIN session.ids = 1..Len(session.ids) /\ DataOf(session.ids) = DataIn(analyses, session.ids)
    BY <2>0, <2>2, DataOfIs, LenProperties
  <2>4. MarkerHonest
    <3> SUFFICES ASSUME session.marker # 0
                 PROVE  \/ session.features = DataOf(<<session.marker>>)
                        \/ session.marker \in Range(session.ids) /\ session.features = DataOf(session.ids)
      BY DEF MarkerHonest
    <3>1. CASE session.features = analyses[session.marker].of
      <4>1. DataOf(<<session.marker>>) = analyses[session.marker].of
        BY DEF DataOf, Range
      <4> QED BY <3>1, <4>1
    <3>2. CASE session.features # analyses[session.marker].of
      <4>1. session.ids # <<>> /\ \E i \in 1..Len(session.ids) : session.marker = session.ids[i]
        BY <2>0, <3>2 DEF SessionOK
      <4>2. session.features = DataOf(session.ids)
        BY <2>0, <2>3, <4>1 DEF SessionOK
      <4> QED BY <2>3, <4>1, <4>2 DEF Range
    <3> QED BY <3>1, <3>2
  <2>5. ReportOfShown
    BY <2>0 DEF ReportOfShown, SessionOK, RowsOK, AnalysisOK
  <2>6. RegeneratesShown
    BY <2>0, <2>3 DEF RegeneratesShown, SessionOK
  <2>7. DerivedFromShown
    BY <2>0 DEF DerivedFromShown, SessionOK
  <2> QED BY <2>1, <2>4, <2>5, <2>6, <2>7 DEF ShownIsOneAnalysis
<1> QED BY <1>1, WorkbenchInvariant, PTL

(* A case in progress has a run, even if the queue refused some or all of  *)
(* its files (submit_background_analysis()).                               *)
THEOREM InProgressCasesHaveJobs == Spec => []InProgressHasJobs
<1>1. WorkbenchInv => InProgressHasJobs
  BY DEF WorkbenchInv
<1> QED BY <1>1, WorkbenchInvariant, PTL

(* No step but the restore of a run with all its files analysed takes a    *)
(* case from "in progress" to "open" (render_background_progress()).       *)
THEOREM CasesOpenWhenComplete == Spec => OpenedWhenComplete
<1> DEFINE Opened ==
      \A c \in DOMAIN cases :
        cases[c] = "in_progress" /\ cases'[c] = "open" =>
          \E r \in DOMAIN runs : runs[r].case = c /\ \A i \in DOMAIN runs[r].jobs : runs[r].jobs[i] = "done"
<1>1. WorkbenchInv /\ [Next]_vars => [Opened]_vars
  <2> SUFFICES ASSUME WorkbenchInv, Next, NEW c \in DOMAIN cases, cases[c] = "in_progress", cases'[c] = "open"
               PROVE  \E r \in DOMAIN runs : runs[r].case = c /\ \A i \in DOMAIN runs[r].jobs : runs[r].jobs[i] = "done"
    OBVIOUS
  <2>0. /\ RowsOK /\ SessionOK(session, analyses, Len(cases), Len(runs)) /\ session \in SessionState
        /\ Len(cases) \in Nat /\ Len(analyses) \in Nat /\ Len(runs) \in Nat
        /\ DOMAIN cases = 1..Len(cases) /\ DOMAIN runs = 1..Len(runs) /\ cases \in Seq(CaseStatus)
    BY RowTypes DEF WorkbenchInv, SessionOK, RowsOK
  <2>1. ASSUME NEW s, RestoreRun(s), s.run \in 0..Len(runs)
        PROVE  \E r \in DOMAIN runs : runs[r].case = c /\ \A i \in DOMAIN runs[r].jobs : runs[r].jobs[i] = "done"
    <3>1. s.run \in DOMAIN runs /\ Finished(s.run)
      BY <2>0, <2>1 DEF RestoreRun, Restores
    <3>2. runs[s.run].case = c
      BY <2>1 DEF RestoreRun
    <3> QED BY <3>1, <3>2 DEF Finished
  <2>2. CASE Rerun
    <3> DEFINE s == Sourced(Recovered(session))
    <3>1. s.run \in 0..Len(runs)
      BY <2>0, RecoveredRun DEF Sourced, SessionState, SessionOK
    <3>2. RestoreRun(s)
      BY <2>2 DEF Rerun
    <3> QED BY <2>1, <3>1, <3>2
  <2>3. CASE Tick
    BY <2>0, <2>1, <2>3 DEF Tick, SessionOK
  <2>4. CASE Clicks
    <3>1. ASSUME NEW x, cases' = Append(cases, x)  PROVE FALSE
      <4>1. cases'[c] = cases[c]
        BY <2>0, <3>1
      <4> QED BY <4>1
    <3>2. CASE CloseOrReopen \/ Delete
      BY <3>2 DEF CloseOrReopen, Delete, Toggled
    <3>3. ASSUME NEW k, Start(k)  PROVE FALSE
      BY <3>1, <3>3 DEF Start
    <3>4. ASSUME NEW k, RerunReport(k)  PROVE FALSE
      BY <3>4 DEF RerunReport
    <3>5. CASE QuickSave
      BY <3>1, <3>5 DEF QuickSave
    <3> QED BY <2>4, <3>2, <3>3, <3>4, <3>5 DEF Clicks, Interact, ClearUploader, Back, AddCurrent, Reload, Upload, Open, Load, rows
  <2>5. CASE Workers
    BY <2>5 DEF Workers, Works, Fails, AnalysisEnds, ReportEnds
  <2> QED BY <2>2, <2>3, <2>4, <2>5 DEF Next
<1> QED BY <1>1, WorkbenchInvariant, PTL DEF Spec, OpenedWhenComplete

(* After a save the detail view has nothing to restore: the new row is the *)
(* newest of the case it shows (TestDetailViewAutoRestoreGuard).           *)
THEOREM SavesKeepDisplay == Spec => SavingKeepsDisplay
<1>1. WorkbenchInv /\ [Next]_vars => [(QuickSave \/ AddCurrent) => ~Outdated(session)']_vars
  <2> SUFFICES ASSUME WorkbenchInv, [Next]_vars, QuickSave \/ AddCurrent  PROVE ~Outdated(session)'
    OBVIOUS
  <2>1. RowsOK'
    BY RowsNext
  <2>2. session \in SessionState
    BY DEF WorkbenchInv, SessionOK
  <2>3. PICK c \in 1..Len(cases') :
          /\ Len(analyses') \in Nat /\ Len(analyses') = Len(analyses) + 1
          /\ analyses'[Len(analyses')].case = c
          /\ \/ session' = [Saved(session, Len(analyses')) EXCEPT !.view = "detail", !.selected = c]
             \/ session' = Saved(session, Len(analyses')) /\ session.selected = c
    BY SaveAdds, Zenon
  <2>4. session'.marker = Len(analyses') /\ session'.selected = c
    BY <2>2, <2>3 DEF Saved, SessionState
  <2>5. OfCase(c)' = {a \in 1..Len(analyses') : analyses'[a].case = c}
    BY <2>1, LenProperties DEF OfCase, RowsOK
  <2> DEFINE T == {a \in 1..Len(analyses') : analyses'[a].case = c}
             n == Len(analyses')
  <2>6. n \in Nat /\ n # 0 /\ T \subseteq 1..n /\ n \in T
    BY <2>1, <2>3
  <2>7. Max(T) = n
    <3> HIDE DEF T, n
    <3>1. Max(T) \in T /\ \A y \in T : y <= Max(T)
      BY <2>6, MaxIs
    <3>2. Max(T) \in 1..n /\ n <= Max(T)
      BY <2>6, <3>1
    <3> QED BY <2>6, <3>2
  <2> QED BY <2>4, <2>5, <2>7 DEF Outdated, OfCase
<1> QED BY <1>1, WorkbenchInvariant, PTL DEF Spec, SavingKeepsDisplay
=============================================================================
