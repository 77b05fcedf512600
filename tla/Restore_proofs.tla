--------------------------- MODULE Restore_proofs ---------------------------
(***************************************************************************)
(* Proofs about backup and recovery, for any number of runs, identifiers,  *)
(* rotations, restores, key files and logins.  First backup.sh: the keys   *)
(* are not rotated while a run is under way, and a run begins only where   *)
(* neither artifact exists, so what it finds under its identifier later    *)
(* was published since, under the same keys.  Then recovery: a restore     *)
(* passes its first command only on a cluster without roles, so at most    *)
(* one ever gets further, and whatever a failed one leaves keeps every     *)
(* later one out.  The artifacts it reads stay what they were when it      *)
(* began, although backups go on.                                          *)
(***************************************************************************)
EXTENDS Restore, TLAPS

-----------------------------------------------------------------------------
(* Backup *)

BackupTypeOK ==
  /\ epoch \in Epochs \ {0}
  /\ database \in [Ids -> DatabaseArtifacts \cup {None}]
  /\ crypto \in [Ids -> KeyArtifacts \cup {None}]
  /\ pc \in [Runs -> {"idle", "dump", "publishDatabase", "copy", "ok", "failed"}]
  /\ id \in [Runs -> Ids \cup {None}]
  /\ dump \in [Runs -> Epochs]
  /\ copied \in [Runs -> [Files -> Epochs]]

\* What a run has, and what is under its identifier, is of the present epoch
\* as long as the run is under way.
RunInv ==
  \A r \in Runs :
    /\ pc[r] # "idle" => id[r] \in Ids
    /\ pc[r] = "publishDatabase" => dump[r] = epoch
    /\ Active(r) => \A f \in Files : copied[r][f] # 0 => copied[r][f] = epoch
    /\ pc[r] = "idle" => copied[r] = NoFiles
    /\ Active(r) /\ database[id[r]] # None => database[id[r]].epoch = epoch
    /\ pc[r] \in {"copy", "ok"} => database[id[r]] # None
    /\ pc[r] = "ok" => crypto[id[r]] # None

\* The database artifact comes first, and the keys that follow fit it.
PairInv ==
  \A i \in Ids : crypto[i] # None =>
    /\ database[i] # None
    /\ \A f \in Files : crypto[i].keys[f] = database[i].epoch

\* All of it (backup.sh:54-94).
BackupInv == BackupTypeOK /\ RunInv /\ PairInv

\* Neither root holds anything.
LEMMA BackupInitInv == BackupInit => BackupInv
<1> SUFFICES ASSUME BackupInit PROVE BackupInv
  OBVIOUS
<1>1. BackupTypeOK
  BY BoundAssumption DEF BackupInit, BackupTypeOK, Epochs, NoFiles
<1>2. RunInv
  BY DEF BackupInit, RunInv, Active, NoFiles
<1>3. PairInv
  BY DEF BackupInit, PairInv
<1> QED BY <1>1, <1>2, <1>3 DEF BackupInv

\* The identifier is free (backup.sh:54).
LEMMA CheckInv == ASSUME BackupInv, NEW r \in Runs, NEW i \in Ids, Check(r, i) PROVE BackupInv'
<1> USE DEF BackupInv, BackupTypeOK
<1>1. BackupTypeOK'
  BY DEF Check
<1>2. RunInv'
  BY DEF Check, RunInv, Active, Ended, NoFiles
<1>3. PairInv'
  BY DEF Check, PairInv
<1> QED BY <1>1, <1>2, <1>3

\* The dump is of the present epoch (database-backup-container.sh).
LEMMA DumpInv == ASSUME BackupInv, NEW r \in Runs, Dump(r) PROVE BackupInv'
<1> USE DEF BackupInv, BackupTypeOK
<1>1. BackupTypeOK'
  BY DEF Dump
<1>2. RunInv'
  BY DEF Dump, RunInv, Active, Ended
<1>3. PairInv'
  BY DEF Dump, PairInv
<1> QED BY <1>1, <1>2, <1>3

\* The first mv: it fills a free name or changes nothing
\* (database-backup-container.sh:50).
LEMMA PublishDatabaseInv == ASSUME BackupInv, NEW r \in Runs, PublishDatabase(r) PROVE BackupInv'
<1> USE DEF BackupInv, BackupTypeOK
<1> DEFINE a == [run |-> r, epoch |-> dump[r]]
<1>1. a \in DatabaseArtifacts /\ a # None /\ a.epoch = epoch /\ id[r] \in Ids
  BY NoneAssumption DEF DatabaseArtifacts, PublishDatabase, RunInv
<1> HIDE DEF a
<1>2. \A i \in Ids : database'[i] = IF i = id[r] /\ database[i] = None THEN a ELSE database[i]
  BY <1>1 DEF PublishDatabase, MovedTo, a
<1>3. BackupTypeOK'
  BY <1>1 DEF PublishDatabase, MovedTo, a
<1>4. RunInv'
  BY <1>1, <1>2 DEF PublishDatabase, RunInv, Active, Ended
<1>5. PairInv'
  BY <1>1, <1>2 DEF PublishDatabase, PairInv
<1> QED BY <1>3, <1>4, <1>5

\* One key file is copied (crypto-backup-container.sh:14-17).
LEMMA CopyKeyInv == ASSUME BackupInv, NEW r \in Runs, NEW f \in Files, CopyKey(r, f) PROVE BackupInv'
<1> USE DEF BackupInv, BackupTypeOK
<1>1. BackupTypeOK'
  BY DEF CopyKey
<1>2. RunInv'
  BY DEF CopyKey, RunInv, Active, Ended
<1>3. PairInv'
  BY DEF CopyKey, PairInv
<1> QED BY <1>1, <1>2, <1>3

\* The second mv: the keys fit the database artifact that is there
\* (crypto-backup-container.sh:25).
LEMMA PublishKeysInv == ASSUME BackupInv, NEW r \in Runs, PublishKeys(r) PROVE BackupInv'
<1> USE DEF BackupInv, BackupTypeOK
<1> DEFINE a == [run |-> r, keys |-> copied[r]]
<1>1. a \in KeyArtifacts /\ a # None /\ id[r] \in Ids
  BY NoneAssumption DEF KeyArtifacts, PublishKeys, RunInv
<1>2. \A f \in Files : a.keys[f] = database[id[r]].epoch
  BY DEF PublishKeys, RunInv, Active, Ended
<1> HIDE DEF a
<1>3. \A i \in Ids : crypto'[i] = IF i = id[r] /\ crypto[i] = None THEN a ELSE crypto[i]
  BY <1>1 DEF PublishKeys, MovedTo, a
<1>4. BackupTypeOK'
  BY <1>1 DEF PublishKeys, MovedTo, a
<1>5. RunInv'
  BY <1>1, <1>3 DEF PublishKeys, RunInv, Active, Ended
<1>6. PairInv'
  BY <1>1, <1>2, <1>3 DEF PublishKeys, PairInv, RunInv
<1> QED BY <1>4, <1>5, <1>6

\* A failed run leaves what it has published.
LEMMA FailInv == ASSUME BackupInv, NEW r \in Runs, Fail(r) PROVE BackupInv'
<1> USE DEF BackupInv, BackupTypeOK
<1>1. BackupTypeOK'
  BY DEF Fail
<1>2. RunInv'
  BY DEF Fail, RunInv, Active, Ended
<1>3. PairInv'
  BY DEF Fail, PairInv
<1> QED BY <1>1, <1>2, <1>3

\* A rotation finds no run under way.
LEMMA RotateInv == ASSUME BackupInv, Rotate PROVE BackupInv'
<1> USE DEF BackupInv, BackupTypeOK
<1>1. BackupTypeOK'
  BY BoundAssumption DEF Rotate, Epochs
<1>2. RunInv'
  BY DEF Rotate, RunInv, Active, Ended, NoFiles
<1>3. PairInv'
  BY DEF Rotate, PairInv
<1> QED BY <1>1, <1>2, <1>3

\* Every step of a backup.
LEMMA BackupStepInv == ASSUME BackupInv, [BackupStep]_backupVars PROVE BackupInv'
<1>1. CASE UNCHANGED backupVars
  BY <1>1 DEF BackupInv, BackupTypeOK, RunInv, PairInv, Active, backupVars
<1> QED BY <1>1, CheckInv, DumpInv, PublishDatabaseInv, CopyKeyInv, PublishKeysInv, FailInv,
           RotateInv DEF BackupStep

\* No step changes an artifact that is there
\* (database-backup-container.sh:50, crypto-backup-container.sh:25).
LEMMA ArtifactsStayed ==
  ASSUME BackupInv, [BackupStep]_backupVars, NEW i \in Ids
  PROVE  /\ database[i] # None => database'[i] = database[i]
         /\ crypto[i] # None => crypto'[i] = crypto[i]
<1> DEFINE Stay == /\ database[i] # None => database'[i] = database[i]
                   /\ crypto[i] # None => crypto'[i] = crypto[i]
<1>1. ASSUME NEW r \in Runs, PublishDatabase(r) PROVE Stay
  BY <1>1 DEF PublishDatabase, MovedTo, BackupInv, BackupTypeOK
<1>2. ASSUME NEW r \in Runs, PublishKeys(r) PROVE Stay
  BY <1>2 DEF PublishKeys, MovedTo, BackupInv, BackupTypeOK
<1>3. CASE UNCHANGED <<database, crypto>>
  BY <1>3
<1> QED BY <1>1, <1>2, <1>3 DEF BackupStep, Rotate, Dump, Fail, Check, CopyKey, backupVars

\* The inductive invariant of backup.sh.
THEOREM BackupInvariance == BackupSpec => []BackupInv
BY BackupInitInv, BackupStepInv, PTL DEF BackupSpec

\* A pair that verify-backup.sh accepts holds the keys its database needs,
\* whatever failed, was repeated or overlapped (backup.sh:54-94).
THEOREM PairsMatch == BackupSpec => []VerifiedPairMatches
<1>1. BackupInv => VerifiedPairMatches
  BY DEF BackupInv, PairInv, VerifiedPairMatches, Verified
<1> QED BY BackupInvariance, <1>1, PTL

\* A backup that reports success can be verified (backup.sh:94).
THEOREM SuccessIsVerifiable == BackupSpec => []OkMeansVerified
<1>1. BackupInv => OkMeansVerified
  BY DEF BackupInv, RunInv, OkMeansVerified, Verified
<1> QED BY BackupInvariance, <1>1, PTL

\* A published artifact is never changed or removed
\* (database-backup-container.sh:50, crypto-backup-container.sh:25).
THEOREM ArtifactsStay == BackupSpec => ArtifactsAreImmutable
<1> DEFINE Stay == \A i \in Ids : /\ database[i] # None => database'[i] = database[i]
                                  /\ crypto[i] # None => crypto'[i] = crypto[i]
<1>1. BackupInv /\ [BackupStep]_backupVars => [Stay]_backupVars
  BY ArtifactsStayed
<1> QED BY <1>1, BackupInvariance, PTL DEF BackupSpec, ArtifactsAreImmutable

-----------------------------------------------------------------------------
(* Recovery *)

RestorePcs == {"idle", "roles", "database", "logins", "ok", "failed"}
KeyPcs == {"idle", "copy", "ok", "failed"}

DatabaseTypeOK ==
  /\ restorePc \in [Restores -> RestorePcs]
  /\ from \in [Restores -> Ids \cup {None}]
  /\ roles \in {"none", "part", "all"}
  /\ restored \in DatabaseArtifacts \cup {None}
  /\ complete \in BOOLEAN
  /\ logins \subseteq Logins

KeysTypeOK ==
  /\ keyPc \in [KeyRuns -> KeyPcs]
  /\ keyFrom \in [KeyRuns -> Ids \cup {None}]
  /\ keys \in [Files -> Epochs \cup {None}]

\* One restore at a time, and what each step of restore-container.sh may
\* conclude from the steps before it.
DatabaseInv ==
  /\ DatabaseTypeOK
  /\ \A q, r \in Restores : restorePc[q] \notin Resting /\ restorePc[r] \notin Resting => q = r
  /\ \A r \in Restores :
       /\ restorePc[r] \notin {"idle", "failed"} => from[r] \in Ids /\ database[from[r]] # None
       /\ restorePc[r] = "database" => roles = "all" /\ restored = None
       /\ restorePc[r] = "logins" => roles = "all" /\ complete /\ restored = database[from[r]]
  /\ roles = "none" => restored = None
  /\ restored = None => ~complete /\ logins = {}
  /\ OkMeansRestored
  /\ LoginsMeanRestored

\* One restore of the keys at a time, and only its files are there.
KeysInv ==
  /\ KeysTypeOK
  /\ \A q, k \in KeyRuns : keyPc[q] = "copy" /\ keyPc[k] = "copy" => q = k
  /\ \A k \in KeyRuns : keyPc[k] \in {"copy", "ok"} =>
       /\ keyFrom[k] \in Ids
       /\ crypto[keyFrom[k]] # None
       /\ \A f \in Files : \/ keyPc[k] = "copy" /\ keys[f] = None
                           \/ keys[f] = crypto[keyFrom[k]].keys[f] /\ keys[f] # None
  /\ \A q, k \in KeyRuns : keyPc[q] = "ok" /\ keyPc[k] = "copy" => Files = {}
  /\ KeysNeverMixed

\* All of it (restore-container.sh:16-23, restore-crypto.sh:12-17).
Inv == BackupInv /\ DatabaseInv /\ KeysInv

\* There is no backup; the cluster and the destination are empty.
LEMMA InitInv == Init => Inv
<1> SUFFICES ASSUME Init PROVE Inv
  OBVIOUS
<1>1. DatabaseTypeOK
  BY DEF Init, DatabaseTypeOK, RestorePcs
<1>2. DatabaseInv
  BY <1>1 DEF Init, DatabaseInv, Resting, OkMeansRestored, LoginsMeanRestored
<1>3. KeysTypeOK
  BY DEF Init, KeysTypeOK, KeyPcs
<1>4. KeysInv
  BY <1>3 DEF Init, KeysInv, KeysNeverMixed
<1> QED BY <1>2, <1>4, BackupInitInv DEF Inv, Init

-----------------------------------------------------------------------------
(* Backups go on *)

\* A step of a backup disturbs no restore: what a restore reads is there and
\* stays.
LEMMA BackupGoesOn ==
  ASSUME Inv, [BackupStep]_backupVars, UNCHANGED <<dbVars, keyVars>> PROVE Inv'
<1> USE DEF Inv, dbVars, keyVars
<1>1. BackupInv'
  BY BackupStepInv
<1>2. \A i \in Ids : /\ database[i] # None => database'[i] = database[i]
                     /\ crypto[i] # None => crypto'[i] = crypto[i]
  BY ArtifactsStayed
<1>3. DatabaseTypeOK' /\ KeysTypeOK'
  BY DEF DatabaseInv, KeysInv, DatabaseTypeOK, KeysTypeOK
<1>4. DatabaseInv'
  BY <1>2, <1>3 DEF DatabaseInv, Resting, OkMeansRestored, LoginsMeanRestored
<1>5. KeysInv'
  BY <1>2, <1>3 DEF KeysInv, KeysNeverMixed
<1> QED BY <1>1, <1>4, <1>5

\* A step of a restore disturbs neither the backups nor the keys.
LEMMA OnlyTheDatabase ==
  ASSUME Inv, UNCHANGED <<backupVars, keyVars>> PROVE BackupInv' /\ KeysInv'
<1>1. BackupInv'
  BY BackupStepInv DEF Inv
<1>2. KeysInv'
  BY DEF Inv, KeysInv, KeysTypeOK, KeysNeverMixed, keyVars, backupVars
<1> QED BY <1>1, <1>2

\* A step of a restore of the keys disturbs neither the backups nor the
\* database.
LEMMA OnlyTheKeys ==
  ASSUME Inv, UNCHANGED <<backupVars, dbVars>> PROVE BackupInv' /\ DatabaseInv'
<1>1. BackupInv'
  BY BackupStepInv DEF Inv
<1>2. DatabaseInv'
  BY DEF Inv, DatabaseInv, DatabaseTypeOK, OkMeansRestored, LoginsMeanRestored, dbVars, backupVars
<1> QED BY <1>1, <1>2

-----------------------------------------------------------------------------
(* restore.sh *)

\* restore.sh begins when no other restore is under way.
LEMMA BeginInv ==
  ASSUME DatabaseInv, database' = database, NEW r \in Restores, NEW i \in Ids, Begin(r, i)
  PROVE  DatabaseInv'
<1> USE DEF DatabaseInv, DatabaseTypeOK
<1>1. DatabaseTypeOK'
  BY DEF Begin, RestorePcs
<1> QED
  BY <1>1, NoneAssumption DEF Begin, Verified, Resting, OkMeansRestored, LoginsMeanRestored

\* roles.sql goes through on a cluster without roles only.
LEMMA RestoreRolesInv ==
  ASSUME DatabaseInv, database' = database, NEW r \in Restores, RestoreRoles(r)
  PROVE  DatabaseInv'
<1> USE DEF DatabaseInv, DatabaseTypeOK
<1>1. DatabaseTypeOK'
  BY DEF RestoreRoles, RestorePcs
<1> QED
  BY <1>1 DEF RestoreRoles, Resting, OkMeansRestored, LoginsMeanRestored

\* pg_restore --create --exit-on-error, on a cluster without the database.
LEMMA RestoreDatabaseInv ==
  ASSUME BackupInv, DatabaseInv, database' = database, NEW r \in Restores, RestoreDatabase(r)
  PROVE  DatabaseInv'
<1> USE DEF DatabaseInv, DatabaseTypeOK
<1>1. from[r] \in Ids /\ database[from[r]] \in DatabaseArtifacts /\ database[from[r]] # None
  BY DEF RestoreDatabase, BackupInv, BackupTypeOK
<1>2. DatabaseTypeOK'
  BY <1>1 DEF RestoreDatabase, RestorePcs
<1> QED
  BY <1>1, <1>2 DEF RestoreDatabase, Resting, OkMeansRestored, LoginsMeanRestored

\* apply-login-passwords.sh runs after the whole database was restored.
LEMMA SetLoginInv ==
  ASSUME DatabaseInv, database' = database, NEW r \in Restores, NEW l \in Logins, SetLogin(r, l)
  PROVE  DatabaseInv'
<1> USE DEF DatabaseInv, DatabaseTypeOK
<1>1. DatabaseTypeOK'
  BY DEF SetLogin
<1> QED
  BY <1>1, NoneAssumption DEF SetLogin, Resting, OkMeansRestored, LoginsMeanRestored

\* The role graph is verified, or the run is killed.
LEMMA EndInv ==
  ASSUME DatabaseInv, database' = database, NEW r \in Restores, VerifyGraph(r) \/ FailRestore(r)
  PROVE  DatabaseInv'
<1> USE DEF DatabaseInv, DatabaseTypeOK
<1>1. DatabaseTypeOK'
  BY DEF VerifyGraph, FailRestore, RestorePcs
<1> QED
  BY <1>1 DEF VerifyGraph, FailRestore, Resting, OkMeansRestored, LoginsMeanRestored

-----------------------------------------------------------------------------
(* restore-crypto.sh *)

\* restore-crypto.sh goes on with an empty destination only.
LEMMA BeginKeysInv ==
  ASSUME KeysInv, crypto' = crypto, NEW k \in KeyRuns, NEW i \in Ids, BeginKeys(k, i)
  PROVE  KeysInv'
<1> USE DEF KeysInv, KeysTypeOK
<1>1. KeysTypeOK'
  BY DEF BeginKeys, KeyPcs
<1> QED
  BY <1>1 DEF BeginKeys, DestinationEmpty, KeysNeverMixed, Resting

\* The files are copied one after the other, and all are of one epoch.
LEMMA CopyKeyBackInv ==
  ASSUME BackupInv, KeysInv, crypto' = crypto, NEW k \in KeyRuns, NEW f \in Files,
         CopyKeyBack(k, f)
  PROVE  KeysInv'
<1> DEFINE a == crypto[keyFrom[k]]
<1>1. keyFrom[k] \in Ids /\ a # None /\ keyPc[k] = "copy"
  BY DEF KeysInv, CopyKeyBack
<1>2. a \in KeyArtifacts
  BY <1>1 DEF BackupInv, BackupTypeOK
<1>3. \A g \in Files : a.keys[g] \in Epochs
  BY <1>2 DEF KeyArtifacts
<1>4. \A g, h \in Files : a.keys[g] = a.keys[h]
  BY <1>1 DEF BackupInv, PairInv
<1>5. \A g \in Files : a.keys[g] # None
  BY <1>3, NoneAssumption
<1>6. keys' = [keys EXCEPT ![f] = a.keys[f]] /\ UNCHANGED <<keyPc, keyFrom>>
  BY DEF CopyKeyBack
<1>7. KeysTypeOK'
  BY <1>3, <1>6 DEF KeysInv, KeysTypeOK
<1>8. \A g \in Files : keys'[g] = None \/ keys'[g] = a.keys[g]
  BY <1>1, <1>6 DEF KeysInv, KeysTypeOK
<1>9. KeysNeverMixed'
  BY <1>4, <1>8 DEF KeysNeverMixed
<1>10. \A q \in KeyRuns : keyPc[q] = "copy" => q = k
  BY <1>1 DEF KeysInv
<1>11. \A q \in KeyRuns : keyPc[q] # "ok"
  BY <1>1 DEF KeysInv
<1> QED
  BY <1>1, <1>5, <1>6, <1>7, <1>8, <1>9, <1>10, <1>11 DEF KeysInv

\* The restore of the keys ends, well or not.
LEMMA EndKeysInv ==
  ASSUME KeysInv, crypto' = crypto, NEW k \in KeyRuns, KeysRestored(k) \/ FailKeys(k)
  PROVE  KeysInv'
<1> USE DEF KeysInv, KeysTypeOK
<1>1. KeysTypeOK'
  BY DEF KeysRestored, FailKeys, KeyPcs
<1> QED
  BY <1>1 DEF KeysRestored, FailKeys, KeysNeverMixed

-----------------------------------------------------------------------------

\* The inductive invariant of the backups and both restores.
THEOREM Invariance == Spec => []Inv
<1>1. Inv /\ [Next]_vars => Inv'
  <2> SUFFICES ASSUME Inv, [Next]_vars PROVE Inv'
    OBVIOUS
  <2>1. CASE UNCHANGED vars
    BY <2>1, BackupGoesOn DEF vars
  <2>2. CASE BackupStep /\ UNCHANGED <<dbVars, keyVars>>
    BY <2>2, BackupGoesOn
  <2>3. CASE RestoreStep /\ UNCHANGED <<backupVars, keyVars>>
    <3>1. BackupInv' /\ KeysInv'
      BY <2>3, OnlyTheDatabase
    <3>2. DatabaseInv /\ BackupInv /\ database' = database
      BY <2>3 DEF Inv, backupVars
    <3>3. DatabaseInv'
      BY <2>3, <3>2, BeginInv, RestoreRolesInv, RestoreDatabaseInv, SetLoginInv, EndInv
      DEF RestoreStep
    <3> QED BY <3>1, <3>3 DEF Inv
  <2>4. CASE KeyStep /\ UNCHANGED <<backupVars, dbVars>>
    <3>1. BackupInv' /\ DatabaseInv'
      BY <2>4, OnlyTheKeys
    <3>2. KeysInv /\ BackupInv /\ crypto' = crypto
      BY <2>4 DEF Inv, backupVars
    <3>3. KeysInv'
      BY <2>4, <3>2, BeginKeysInv, CopyKeyBackInv, EndKeysInv DEF KeyStep
    <3> QED BY <3>1, <3>3 DEF Inv
  <2> QED BY <2>1, <2>2, <2>3, <2>4 DEF Next, AtRest
<1> QED BY InitInv, <1>1, PTL DEF Spec

\* Keys recovered under the identifier of the recovered database open it
\* (backup.sh:54-94, restore.sh:15, restore-crypto.sh:17).
THEOREM RecoveryOpens == Spec => []RecoveredKeysOpen
<1>1. Inv => RecoveredKeysOpen
  <2> SUFFICES ASSUME Inv, NEW r \in Restores, NEW k \in KeyRuns,
                      restorePc[r] = "ok", keyPc[k] = "ok", from[r] = keyFrom[k], NEW f \in Files
               PROVE  keys[f] = restored.epoch
    BY DEF RecoveredKeysOpen
  <2>1. restored = database[from[r]]
    BY DEF Inv, DatabaseInv, OkMeansRestored
  <2>2. keyFrom[k] \in Ids /\ crypto[keyFrom[k]] # None /\ keys[f] = crypto[keyFrom[k]].keys[f]
    BY DEF Inv, KeysInv
  <2> QED BY <2>1, <2>2 DEF Inv, BackupInv, PairInv
<1> QED BY Invariance, <1>1, PTL

\* A restore that reports success left the whole of its backup, however many
\* attempts failed before it (restore-container.sh:17-23).
THEOREM SuccessIsWhole == Spec => []OkMeansRestored
<1>1. Inv => OkMeansRestored
  BY DEF Inv, DatabaseInv
<1> QED BY Invariance, <1>1, PTL

\* No login works in a cluster that is restored half way
\* (restore-container.sh:17-21).
THEOREM HalfRestoredIsClosed == Spec => []LoginsMeanRestored
<1>1. Inv => LoginsMeanRestored
  BY DEF Inv, DatabaseInv
<1> QED BY Invariance, <1>1, PTL

\* The recovered keys are of one epoch (restore-crypto.sh:17).
THEOREM KeysFromOneBackup == Spec => []KeysNeverMixed
<1>1. Inv => KeysNeverMixed
  BY DEF Inv, KeysInv
<1> QED BY Invariance, <1>1, PTL
=============================================================================
