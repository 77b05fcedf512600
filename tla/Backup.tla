------------------------------- MODULE Backup -------------------------------
(***************************************************************************)
(* deploy/operations/backup.sh: one run writes a database artifact and a   *)
(* cryptographic artifact under one BACKUP_ID into two roots, each through *)
(* a candidate directory that mv renames.  Several runs may be under way,  *)
(* and each may fail or be killed at any command.  Module Restore adds the *)
(* recovery from the artifacts.                                            *)
(*                                                                         *)
(* What the artifacts hold is abstracted to the key epoch: the epoch the   *)
(* database was encrypted under when it was dumped, and the epoch of each  *)
(* key file when it was copied.                                            *)
(***************************************************************************)
EXTENDS Naturals

CONSTANTS
  Runs,       \* runs of backup.sh
  Ids,        \* values of BACKUP_ID
  Files,      \* the key files of crypto-backup-container.sh
  MaxEpoch,   \* bound: key rotations
  None        \* no artifact, no identifier

Epochs == 0 .. MaxEpoch
DatabaseArtifacts == [run : Runs, epoch : Epochs]
KeyArtifacts == [run : Runs, keys : [Files -> Epochs]]

ASSUME BoundAssumption == MaxEpoch \in Nat \ {0}

ASSUME NoneAssumption ==
  None \notin Ids \cup Epochs \cup DatabaseArtifacts \cup KeyArtifacts

VARIABLES
  epoch,        \* the key epoch of the deployment
  database,     \* BACKUP_DATABASE_ROOT: the artifact of each identifier
  crypto,       \* BACKUP_CRYPTO_ROOT
  pc,           \* where each run is
  id,           \* its BACKUP_ID
  dump,         \* the epoch in its database candidate
  copied        \* the epoch of each file in its cryptographic candidate

backupVars == <<epoch, database, crypto, pc, id, dump, copied>>

NoFiles == [f \in Files |-> 0]

BackupInit ==
  /\ epoch = 1
  /\ database = [i \in Ids |-> None]
  /\ crypto = [i \in Ids |-> None]
  /\ pc = [r \in Runs |-> "idle"]
  /\ id = [r \in Runs |-> None]
  /\ dump = [r \in Runs |-> 0]
  /\ copied = [r \in Runs |-> NoFiles]

Ended == {"ok", "failed"}
Active(r) == pc[r] \notin {"idle"} \cup Ended

\* A bug: the identifier may be used again.
CheckNothing(r, i) ==
  /\ pc[r] = "idle"
  /\ id' = [id EXCEPT ![r] = i]
  /\ pc' = [pc EXCEPT ![r] = "dump"]
  /\ UNCHANGED <<epoch, database, crypto, dump, copied>>

\* backup.sh up to the first container: the identifier must be free in both
\* roots.
Check(r, i) ==
  /\ pc[r] = "idle"
  /\ id' = [id EXCEPT ![r] = i]
  /\ pc' = [pc EXCEPT ![r] = IF database[i] = None /\ crypto[i] = None
                               THEN "dump" ELSE "failed"]
  /\ UNCHANGED <<epoch, database, crypto, dump, copied>>

\* database-backup-container.sh: the role graph, the roles and the dump.
Dump(r) ==
  /\ pc[r] = "dump"
  /\ dump' = [dump EXCEPT ![r] = epoch]
  /\ pc' = [pc EXCEPT ![r] = "publishDatabase"]
  /\ UNCHANGED <<epoch, database, crypto, id, copied>>

\* mv candidate target.  When the target exists by now, mv moves the
\* candidate into it and succeeds: the artifact stays what it was.
MovedTo(root, r, artifact) ==
  IF root[id[r]] = None THEN [root EXCEPT ![id[r]] = artifact] ELSE root

PublishDatabase(r) ==
  /\ pc[r] = "publishDatabase"
  /\ database' = MovedTo(database, r, [run |-> r, epoch |-> dump[r]])
  /\ pc' = [pc EXCEPT ![r] = "copy"]
  /\ UNCHANGED <<epoch, crypto, id, dump, copied>>

\* crypto-backup-container.sh copies the key files one after the other.
CopyKey(r, f) ==
  /\ pc[r] = "copy"
  /\ copied[r][f] = 0
  /\ copied' = [copied EXCEPT ![r][f] = epoch]
  /\ UNCHANGED <<epoch, database, crypto, pc, id, dump>>

\* The checksums are written and the artifact is published.
PublishKeys(r) ==
  /\ pc[r] = "copy"
  /\ \A f \in Files : copied[r][f] # 0
  /\ crypto' = MovedTo(crypto, r, [run |-> r, keys |-> copied[r]])
  /\ pc' = [pc EXCEPT ![r] = "ok"]
  /\ UNCHANGED <<epoch, database, id, dump, copied>>

\* A command fails or the run is killed; a database artifact that was
\* published is retained.
Fail(r) ==
  /\ Active(r)
  /\ pc' = [pc EXCEPT ![r] = "failed"]
  /\ UNCHANGED <<epoch, database, crypto, id, dump, copied>>

\* The operator rotates the keys; not during a backup, as
\* docs/runbooks/backup-restore-key-recovery.md asks.
Rotate ==
  /\ epoch < MaxEpoch
  /\ \A r \in Runs : ~Active(r)
  /\ epoch' = epoch + 1
  /\ UNCHANGED <<database, crypto, pc, id, dump, copied>>

BackupStep ==
  \/ Rotate
  \/ \E r \in Runs :
       \/ Dump(r) \/ PublishDatabase(r) \/ PublishKeys(r) \/ Fail(r)
       \/ \E i \in Ids : Check(r, i)
       \/ \E f \in Files : CopyKey(r, f)

BackupSpec == BackupInit /\ [][BackupStep]_backupVars

\* verify-backup.sh accepts a database and a cryptographic artifact: both are
\* there, checksums hold and the identifiers are the same.
Verified(d, k) == database[d] # None /\ crypto[k] # None /\ d = k

-----------------------------------------------------------------------------
(* Properties *)

\* A pair that verify-backup.sh accepts holds the keys its database needs,
\* even when a run failed between the two artifacts, the keys were rotated
\* since, and the identifier was tried again.
VerifiedPairMatches ==
  \A d, k \in Ids : Verified(d, k) =>
    \A f \in Files : crypto[k].keys[f] = database[d].epoch

\* A published artifact is never changed or removed.
ArtifactsAreImmutable ==
  [][\A i \in Ids : /\ database[i] # None => database'[i] = database[i]
                    /\ crypto[i] # None => crypto'[i] = crypto[i]]_backupVars

\* When a run reports success, verify-backup.sh accepts both artifacts under
\* its identifier, whatever other runs with the same identifier did.
OkMeansVerified == \A r \in Runs : pc[r] = "ok" => Verified(id[r], id[r])
=============================================================================
