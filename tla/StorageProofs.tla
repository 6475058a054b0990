---------------------------- MODULE StorageProofs ----------------------------
(***************************************************************************)
(* Proofs about Storage, for every set of fields and values, with and      *)
(* without defaults.  The types and the finality of a reset hold whatever  *)
(* faults occur; the rest under the assumption that faults hit only saves  *)
(* that began with a readable data file.                                   *)
(***************************************************************************)
EXTENDS Storage, TLAPS

IInv == TypeOK /\ SaveStages /\ CrashSafe /\ SaveAcknowledged

\* Loading the defaults over a body gives a body.
LEMMA WithDefaultsType == \A m \in Bodies : WithDefaults(m) \in Bodies
  BY StorageAssumption DEF WithDefaults, Bodies

\* The base value is a body.
LEMMA BaseType == Base \in Bodies
  BY WithDefaultsType, StorageAssumption DEF Base

\* What a boot loads is a body.
LEMMA RecoveredType == TypeOK => Recovered \in Bodies
  BY BaseType DEF TypeOK, Recovered, Readable, Files

\* The initial state satisfies the invariant.
LEMMA InitIInv == Init => IInv
  <1>1. Init => TypeOK
    BY BaseType, StorageAssumption DEF Init, TypeOK, Files
  <1>2. Init => SaveStages /\ CrashSafe /\ SaveAcknowledged
    BY DEF Init, SaveStages, CrashSafe, SaveAcknowledged, Loads, Recovered
  <1> QED
    BY <1>1, <1>2 DEF IInv

\* Every step of the service preserves the types of its state.
LEMMA NextTypeOK == TypeOK /\ [Next]_vars => TypeOK'
  <1> SUFFICES ASSUME TypeOK, [Next]_vars PROVE TypeOK'
    OBVIOUS
  <1> USE DEF TypeOK, Files
  <1>1. CASE Load
    BY <1>1, RecoveredType DEF Load
  <1>2. CASE \E m \in Bodies : Change(m)
    BY <1>2 DEF Change
  <1>3. CASE Save
    <2>1. covered' = TRUE \/ covered' = FALSE
      <3>1. CASE Readable(data)
        BY <1>3, <3>1 DEF Save
      <3>2. CASE ~Readable(data)
        BY <1>3, <3>2 DEF Save
      <3> QED BY <3>1, <3>2
    <2> QED
      BY <1>3, <2>1 DEF Save
  <1>3a. CASE Refused
    BY <1>3a DEF Refused
  <1>4. CASE BackupWritten \/ BackupFails
    BY <1>4 DEF BackupWritten, BackupFails
  <1>5. CASE OpenData \/ OpenFails
    BY <1>5 DEF OpenData, OpenFails
  <1>6. CASE DataWritten \/ WriteFails \/ SyncFails
    BY <1>6 DEF DataWritten, WriteFails, SyncFails
  <1>7. CASE Reset
    BY <1>7, BaseType, RecoveredType DEF Reset
  <1>8. CASE ResetBackup
    BY <1>8, WithDefaultsType DEF ResetBackup
  <1>9. CASE ResetFails
    BY <1>9 DEF ResetFails
  <1>10. CASE Crash
    BY <1>10, StorageAssumption DEF Crash
  <1>11. CASE UNCHANGED vars
    BY <1>11 DEF vars
  <1> QED
    BY <1>1, <1>2, <1>3, <1>3a, <1>4, <1>5, <1>6, <1>7, <1>8, <1>9, <1>10,
       <1>11
    DEF Next

\* The types hold in every state, whatever faults occur.
THEOREM TypeCorrect == Spec => []TypeOK
  <1>1. Init => TypeOK
    BY InitIInv DEF IInv
  <1> QED
    BY <1>1, NextTypeOK, PTL DEF Spec

\* A value removed by a Reset that returned nil is not loaded by any later
\* boot unless it was saved again, whatever faults hit the saves in between
\* (Reset, storage.go:222).
ResetIsFinal == pc = "down" /\ erased \notin {Absent, Base} => Recovered # erased

\* From the removal of the data file until something is saved, no file holds a
\* body, but for the backup while a reset is under way.
Wiped ==
    /\ pc = "reset" => data = Absent
    /\ erased # Absent /\ pc # "reset" => ~Readable(data) /\ ~Readable(backup)

\* Every step, failed or not, leaves a storage that was reset without a body.
LEMMA NextWiped == Wiped /\ [Next]_vars => Wiped'
  <1> SUFFICES ASSUME Wiped, [Next]_vars PROVE Wiped'
    OBVIOUS
  <1>0. Absent \notin Bodies /\ Torn \notin Bodies
    BY StorageAssumption
  <1> USE DEF Wiped, Readable
  <1>1. CASE Load \/ Refused \/ \E m \in Bodies : Change(m)
    BY <1>1 DEF Load, Refused, Change
  <1>2. CASE Save
    BY <1>2, <1>0 DEF Save
  <1>3. CASE BackupWritten \/ BackupFails
    BY <1>3 DEF BackupWritten, BackupFails
  <1>4. CASE OpenData \/ OpenFails \/ WriteFails
    BY <1>4, <1>0 DEF OpenData, OpenFails, WriteFails
  <1>5. CASE DataWritten \/ SyncFails
    BY <1>5 DEF DataWritten, SyncFails
  <1>6. CASE Reset
    BY <1>6 DEF Reset
  <1>7. CASE ResetBackup
    BY <1>7, <1>0 DEF ResetBackup
  <1>8. CASE ResetFails
    BY <1>8 DEF ResetFails
  <1>9. CASE Crash
    BY <1>9 DEF Crash
  <1>10. CASE UNCHANGED vars
    BY <1>10 DEF vars
  <1> QED
    BY <1>1, <1>2, <1>3, <1>4, <1>5, <1>6, <1>7, <1>8, <1>9, <1>10 DEF Next

\* What a Reset that returned nil removed is not loaded again until it is saved
\* again, whatever faults hit the saves and the resets in between.
THEOREM StorageResetIsFinal == Spec => []ResetIsFinal
  <1>1. Init => Wiped
    BY DEF Init, Wiped
  <1>2. Wiped => ResetIsFinal
    BY DEF Wiped, ResetIsFinal, Recovered
  <1> QED
    BY <1>1, <1>2, NextWiped, PTL DEF Spec

\* As long as faults hit only covered saves, every step preserves the
\* invariant.
LEMMA NextIInv == ~FaultsAnywhere /\ IInv /\ [Next]_vars => IInv'
  <1> SUFFICES ASSUME ~FaultsAnywhere, IInv, [Next]_vars PROVE IInv'
    OBVIOUS
  <1>0. TypeOK' /\ TypeOK
    BY NextTypeOK DEF IInv
  <1>a. Base \in Bodies /\ Absent \notin Bodies /\ Torn \notin Bodies
        /\ Absent # Torn
    BY BaseType, StorageAssumption
  <1> USE DEF SaveStages, CrashSafe, SaveAcknowledged, Exposed, FaultPossible,
              Loads, Recovered, Readable
  <1>1. SaveStages' /\ CrashSafe' /\ SaveAcknowledged'
    <2>1. CASE Load
      BY <2>1 DEF Load, IInv
    <2>2. CASE \E m \in Bodies : Change(m)
      BY <2>2 DEF Change, IInv
    <2>3. CASE Save
      BY <2>3, <1>0, <1>a DEF Save, IInv, TypeOK, Files
    <2>4. CASE Refused
      BY <2>4 DEF Refused, IInv
    <2>5. CASE BackupWritten
      BY <2>5, <1>0, <1>a DEF BackupWritten, IInv, TypeOK, Files
    <2>6. CASE BackupFails
      BY <2>6, <1>0, <1>a DEF BackupFails, IInv, TypeOK, Files
    <2>7. CASE OpenData
      BY <2>7, <1>0, <1>a DEF OpenData, IInv, TypeOK, Files
    <2>8. CASE OpenFails
      BY <2>8, <1>0, <1>a DEF OpenFails, IInv, TypeOK, Files
    <2>9. CASE DataWritten \/ SyncFails
      BY <2>9, <1>0, <1>a DEF DataWritten, SyncFails, IInv, TypeOK, Files
    <2>10. CASE WriteFails
      BY <2>10, <1>0, <1>a DEF WriteFails, IInv, TypeOK, Files
    <2>11. CASE Reset
      BY <2>11, <1>0, <1>a DEF Reset, IInv, TypeOK, Files
    <2>12. CASE ResetBackup \/ ResetFails
      BY <2>12, <1>0, <1>a DEF ResetBackup, ResetFails, IInv, TypeOK, Files
    <2>13. CASE Crash
      BY <2>13, <1>0, <1>a DEF Crash, IInv, TypeOK, Files
    <2>14. CASE UNCHANGED vars
      BY <2>14 DEF vars, IInv
    <2> QED
      BY <2>1, <2>2, <2>3, <2>4, <2>5, <2>6, <2>7, <2>8, <2>9, <2>10, <2>11,
         <2>12, <2>13, <2>14 DEF Next
  <1> QED
    BY <1>0, <1>1 DEF IInv

\* The inductive invariant holds in every reachable state.
LEMMA AlwaysIInv == ASSUME ~FaultsAnywhere PROVE Spec => []IInv
  <1>1. IInv /\ [Next]_vars => IInv'
    BY NextIInv
  <1> QED
    BY InitIInv, <1>1, PTL DEF Spec

\* A crash outside an exposed save loses nothing: the value that last took
\* effect is the one Load finds, in the data file or in the backup.
THEOREM StorageCrashSafe == ASSUME ~FaultsAnywhere PROVE Spec => []CrashSafe
  <1>1. IInv => CrashSafe
    BY DEF IInv
  <1> QED
    BY AlwaysIInv, <1>1, PTL

\* A Save that returned nil made the model in memory what a restart loads.
THEOREM StorageSaveAcknowledged ==
    ASSUME ~FaultsAnywhere PROVE Spec => []SaveAcknowledged
  <1>1. IInv => SaveAcknowledged
    BY DEF IInv
  <1> QED
    BY AlwaysIInv, <1>1, PTL

\* Every step of the service is a step of DurableStore or leaves its
\* variables alone.
LEMMA StepSimulation ==
    ~FaultsAnywhere /\ IInv /\ IInv' /\ [Next]_vars
        => [Abstract!Next]_(Abstract!vars)
  <1> SUFFICES ASSUME ~FaultsAnywhere, IInv, IInv', [Next]_vars
               PROVE [Abstract!Next]_(Abstract!vars)
    OBVIOUS
  <1> USE DEF Abstract!Next, Abstract!vars, IInv
  <1>1. CASE Load
    BY <1>1 DEF Load, Abstract!Boot, CrashSafe, Exposed
  <1>2. CASE \E m \in Bodies : Change(m)
    BY <1>2 DEF Change, Abstract!Change
  <1>3. CASE Save \/ Refused
    BY <1>3 DEF Save, Refused
  <1>4. CASE BackupWritten \/ BackupFails \/ OpenData \/ OpenFails \/ WriteFails
    BY <1>4 DEF BackupWritten, BackupFails, OpenData, OpenFails, WriteFails
  <1>5. CASE DataWritten \/ SyncFails
    BY <1>5 DEF DataWritten, SyncFails, Abstract!Persist
  <1>6. CASE Reset
    BY <1>6 DEF Reset, Abstract!Erase
  <1>7. CASE ResetBackup
    BY <1>7, WithDefaultsType DEF ResetBackup, Abstract!Change, TypeOK
  <1>8. CASE ResetFails
    BY <1>8 DEF ResetFails
  <1>9. CASE Crash
    BY <1>9 DEF Crash, Abstract!Crash
  <1>10. CASE UNCHANGED vars
    BY <1>10 DEF vars
  <1> QED
    BY <1>1, <1>2, <1>3, <1>4, <1>5, <1>6, <1>7, <1>8, <1>9, <1>10 DEF Next

\* The file-backed service implements the durable store.
THEOREM StorageImplementsDurableStore ==
    ASSUME ~FaultsAnywhere PROVE Spec => ImplementsDurableStore
  <1>1. Init => Abstract!Init
    BY DEF Init, Abstract!Init
  <1>2. IInv /\ IInv' /\ [Next]_vars => [Abstract!Next]_(Abstract!vars)
    BY StepSimulation
  <1> QED
    BY AlwaysIInv, <1>1, <1>2, PTL DEF Spec, ImplementsDurableStore, Abstract!Spec
=============================================================================
