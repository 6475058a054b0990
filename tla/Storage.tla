------------------------------- MODULE Storage -------------------------------
(***************************************************************************)
(* The JSON storage service (storage/storage.go): one data file and one    *)
(* backup file, rewritten in place.  writeFile truncates the file before   *)
(* it writes it, so a crash or a failed write leaves it torn; Save first   *)
(* copies the data file to the backup, and Load falls back to the backup   *)
(* when the data file cannot be parsed.                                    *)
(*                                                                         *)
(* One action is one step that a crash or an error can separate from the   *)
(* next.  A body is the JSON object of the whole model: a function on its  *)
(* fields.  A torn file is a strict prefix of a body, which json.Unmarshal *)
(* rejects before it touches the model.                                    *)
(***************************************************************************)
CONSTANTS
    Fields,         \* the fields of the stored model
    DefaultFields,  \* those of them the defaults file sets
    Vals,           \* the values of a field
    Zero,           \* the body of a freshly constructed model
    HasDefaults,    \* TRUE: New, a defaults file is installed;
                    \* FALSE: NewState, defaultsPath is ""
    Defaults,       \* the contents of the defaults file
    Absent,         \* "the file does not exist"
    Torn,           \* "the file was truncated and not completely written"
    FaultsAnywhere  \* FALSE: faults hit only saves that began with a
                    \* readable data file; TRUE: they hit any save

Bodies == [Fields -> Vals]

ASSUME StorageAssumption ==
    /\ DefaultFields \subseteq Fields
    /\ Zero \in Bodies
    /\ Defaults \in [DefaultFields -> Vals]
    /\ HasDefaults \in BOOLEAN
    /\ FaultsAnywhere \in BOOLEAN
    /\ Absent # Torn
    /\ Absent \notin Bodies
    /\ Torn \notin Bodies

VARIABLES
    data,     \* the data file: a body, Absent or Torn
    backup,   \* the backup file, likewise
    model,    \* the model in memory
    pc,       \* where the service is: "down" is a process that is not running
    covered,  \* the save under way began with a readable data file
    result,   \* what the last completed operation returned
    saved,    \* history: the value whose write, or reset, last took effect
    erased    \* history: the value removed by the last Reset, until that
              \* fails or a later save replaces it

vars == <<data, backup, model, pc, covered, result, saved, erased>>

Files == Bodies \cup {Absent, Torn}

Readable(file) == file \in Bodies

\* json.Unmarshal of the defaults over a model: the fields the file has.
WithDefaults(m) ==
    [f \in Fields |-> IF HasDefaults /\ f \in DefaultFields THEN Defaults[f]
                                                            ELSE m[f]]

\* What a boot loads when there is no data file.
Base == WithDefaults(Zero)
------------------------------------------------------------------------------
(***************************************************************************)
(* Load, at boot.                                                          *)
(***************************************************************************)

\* Whether Load returns without an error.
Loads == HasDefaults \/ data = Absent \/ Readable(data) \/ Readable(backup)

\* A Load that asks for the backup before the data file.
RecoveredBackupFirst ==
    IF data = Absent THEN Base
    ELSE IF Readable(backup) THEN backup
    ELSE IF Readable(data) THEN data
    ELSE Base

\* The model Load builds: defaults, then the data file, else the backup.
Recovered ==
    IF data = Absent THEN Base
    ELSE IF Readable(data) THEN data
    ELSE IF Readable(backup) THEN backup
    ELSE Base

\* A Load that takes the data file whatever it holds.
LoadUnchecked ==
    /\ pc = "down"
    /\ Loads
    /\ model' = IF data = Absent THEN Base ELSE data
    /\ pc' = "idle"
    /\ result' = "loaded"
    /\ UNCHANGED <<data, backup, covered, saved, erased>>

\* A Load that falls back to the base value.
LoadDataOnly ==
    /\ pc = "down"
    /\ Loads
    /\ model' = IF Readable(data) THEN data ELSE Base
    /\ pc' = "idle"
    /\ result' = "loaded"
    /\ UNCHANGED <<data, backup, covered, saved, erased>>

Load ==
    /\ pc = "down"
    /\ Loads
    /\ model' = Recovered
    /\ pc' = "idle"
    /\ result' = "loaded"
    /\ UNCHANGED <<data, backup, covered, saved, erased>>

\* The client of the storage edits the model it was given.
Change(m) ==
    /\ pc = "idle"
    /\ m # model
    /\ model' = m
    /\ result' = "changed"
    /\ UNCHANGED <<data, backup, pc, covered, saved, erased>>
------------------------------------------------------------------------------
(***************************************************************************)
(* Save.                                                                   *)
(***************************************************************************)

\* The save under way has no readable copy of the old value to fall back to.
Exposed == pc \in {"backup", "marshal", "write"} /\ ~covered /\ data = Torn

\* Whether the environment may fail or crash here.
FaultPossible == FaultsAnywhere \/ ~Exposed

\* save up to the truncation of the backup by makeBackup, which copies a data
\* file of whatever contents and does nothing when there is none.
Save ==
    /\ pc = "idle"
    /\ covered' = Readable(data)
    /\ result' = "pending"
    /\ \/ data = Absent /\ pc' = "marshal" /\ UNCHANGED backup
       \/ data # Absent /\ pc' = "backup" /\ backup' = Torn
    /\ UNCHANGED <<data, model, saved, erased>>

\* A save or a reset that fails before any file is touched: MkdirAll, Stat,
\* ReadFile or OpenFile, or the removal of the data file.
Refused ==
    /\ pc = "idle"
    /\ result' = "error"
    /\ UNCHANGED <<data, backup, model, pc, covered, saved, erased>>

\* makeBackup has written and synced the copy.
BackupWritten ==
    /\ pc = "backup"
    /\ backup' = data
    /\ pc' = "marshal"
    /\ UNCHANGED <<data, model, covered, result, saved, erased>>

\* writeFile of the backup returns an error: the backup stays torn.
BackupFails ==
    /\ pc = "backup"
    /\ FaultPossible
    /\ pc' = "idle"
    /\ result' = "error"
    /\ UNCHANGED <<data, backup, model, covered, saved, erased>>

\* writeFile opens the data file, and truncates it.
OpenData ==
    /\ pc = "marshal"
    /\ data' = Torn
    /\ pc' = "write"
    /\ UNCHANGED <<backup, model, covered, result, saved, erased>>

\* The data file cannot be opened: it is left alone.
OpenFails ==
    /\ pc = "marshal"
    /\ FaultPossible
    /\ pc' = "idle"
    /\ result' = "error"
    /\ UNCHANGED <<data, backup, model, covered, saved, erased>>

\* The body is written, synced and closed.
DataWritten ==
    /\ pc = "write"
    /\ data' = model
    /\ saved' = model
    /\ erased' = Absent
    /\ pc' = "idle"
    /\ result' = "saved"
    /\ UNCHANGED <<backup, model, covered>>

\* A save that reports success whatever the write returned.
WriteFailsSilently ==
    /\ pc = "write"
    /\ FaultPossible
    /\ pc' = "idle"
    /\ result' = "saved"
    /\ UNCHANGED <<data, backup, model, covered, saved, erased>>

\* Write returns an error after a prefix of the body.
WriteFails ==
    /\ pc = "write"
    /\ FaultPossible
    /\ pc' = "idle"
    /\ result' = "error"
    /\ UNCHANGED <<data, backup, model, covered, saved, erased>>

\* The body is written but Sync or Close returns an error.
SyncFails ==
    /\ pc = "write"
    /\ data' = model
    /\ saved' = model
    /\ erased' = Absent
    /\ pc' = "idle"
    /\ result' = "error"
    /\ UNCHANGED <<backup, model, covered>>
------------------------------------------------------------------------------
(***************************************************************************)
(* Reset.                                                                  *)
(***************************************************************************)

\* The data file is removed.
Reset ==
    /\ pc = "idle"
    /\ data' = Absent
    /\ erased' = Recovered
    /\ saved' = Base
    /\ pc' = "reset"
    /\ result' = "pending"
    /\ UNCHANGED <<backup, model, covered>>

\* The backup is removed and the defaults, if any, are loaded over the model.
ResetBackup ==
    /\ pc = "reset"
    /\ backup' = Absent
    /\ model' = WithDefaults(model)
    /\ pc' = "idle"
    /\ result' = "reset"
    /\ UNCHANGED <<data, covered, saved, erased>>

\* The backup cannot be removed.
ResetFails ==
    /\ pc = "reset"
    /\ pc' = "idle"
    /\ result' = "error"
    /\ erased' = Absent
    /\ UNCHANGED <<data, backup, model, covered, saved>>
------------------------------------------------------------------------------
\* The process dies; the files stay as they are.
Crash ==
    /\ pc # "down"
    /\ FaultPossible
    /\ pc' = "down"
    /\ model' = Zero
    /\ result' = "pending"
    /\ erased' = IF pc = "reset" THEN Absent ELSE erased
    /\ UNCHANGED <<data, backup, covered, saved>>

Init ==
    /\ data = Absent
    /\ backup = Absent
    /\ model = Zero
    /\ pc = "down"
    /\ covered = FALSE
    /\ result = "pending"
    /\ saved = Base
    /\ erased = Absent

Next ==
    \/ Load
    \/ \E m \in Bodies : Change(m)
    \/ Save \/ Refused \/ BackupWritten \/ BackupFails
    \/ OpenData \/ OpenFails \/ DataWritten \/ WriteFails \/ SyncFails
    \/ Reset \/ ResetBackup \/ ResetFails
    \/ Crash

Spec == Init /\ [][Next]_vars
------------------------------------------------------------------------------
(***************************************************************************)
(* Properties.                                                             *)
(***************************************************************************)

TypeOK ==
    /\ data \in Files
    /\ backup \in Files
    /\ model \in Bodies
    /\ pc \in {"down", "idle", "backup", "marshal", "write", "reset"}
    /\ covered \in BOOLEAN
    /\ result \in {"pending", "loaded", "changed", "saved", "reset", "error"}
    /\ saved \in Bodies
    /\ erased \in Bodies \cup {Absent}

\* A crash at any moment outside an exposed save is harmless: Load succeeds
\* and yields the value that last took effect, from the data file or, while
\* that one is torn, from the backup (loadData, storage.go:142).
CrashSafe == Exposed \/ (Loads /\ Recovered = saved)

\* What the steps of a save or reset know of the two files; with the two invariants
\* around it, this is inductive.
SaveStages ==
    /\ pc = "backup" => data # Absent
    /\ pc = "write" => data = Torn
    /\ pc = "reset" => data = Absent
    /\ pc \in {"backup", "marshal"} /\ covered => Readable(data)
    /\ pc = "marshal" /\ covered => backup = data

\* A Save that returned nil has made the model in memory the value a restart
\* loads, and a failed one never poses as it (save, storage.go:175).
SaveAcknowledged == result = "saved" => pc = "idle" /\ Recovered = model

Abstract == INSTANCE DurableStore
                WITH durable <- saved, running <- pc # "down"

\* The service implements DurableStore: a boot loads exactly what was made
\* durable, a save takes effect in one step, and no failure moves the durable
\* value anywhere else.
ImplementsDurableStore == Abstract!Spec
=============================================================================
