------------------------------ MODULE Restore ------------------------------
(***************************************************************************)
(* Recovery: the backups of module Backup, and deploy/operations/restore.sh *)
(* and restore-crypto.sh.  The database artifact is restored into a        *)
(* PostgreSQL cluster that should be empty, the key files into a directory *)
(* that must be.  Restores may fail or be killed at any command and be     *)
(* tried again, from the same or from another backup, on what the failed   *)
(* one left, while backups go on.  Restores of one target run one after    *)
(* the other.                                                              *)
(***************************************************************************)
EXTENDS Backup

CONSTANTS
  Restores,   \* runs of restore.sh
  KeyRuns,    \* runs of restore-crypto.sh
  Logins      \* the login roles of apply-login-passwords.sh

VARIABLES
  restorePc,  \* where each restore is
  from,       \* the identifier of the pair it restores
  roles,      \* the role graph of the cluster: none, part or all
  restored,   \* the artifact the database was restored from, or None
  complete,   \* the database was restored to its end
  logins,     \* the logins whose password is set
  keyPc,      \* where each restore of the keys is
  keyFrom,    \* the identifier of the artifact it restores
  keys        \* the destination: the epoch of each file, or None

dbVars == <<restorePc, from, roles, restored, complete, logins>>
keyVars == <<keyPc, keyFrom, keys>>
vars == <<backupVars, dbVars, keyVars>>

Init ==
  /\ BackupInit
  /\ restorePc = [r \in Restores |-> "idle"]
  /\ from = [r \in Restores |-> None]
  /\ roles = "none"
  /\ restored = None
  /\ complete = FALSE
  /\ logins = {}
  /\ keyPc = [k \in KeyRuns |-> "idle"]
  /\ keyFrom = [k \in KeyRuns |-> None]
  /\ keys = [f \in Files |-> None]

Resting == {"idle", "ok", "failed"}

-----------------------------------------------------------------------------
(* restore.sh *)

\* verify-backup.sh accepts the pair, and the container starts.
Begin(r, i) ==
  /\ restorePc[r] = "idle"
  /\ \A q \in Restores : restorePc[q] \in Resting
  /\ Verified(i, i)
  /\ from' = [from EXCEPT ![r] = i]
  /\ restorePc' = [restorePc EXCEPT ![r] = "roles"]
  /\ UNCHANGED <<roles, restored, complete, logins>>

\* psql --file roles.sql stops at the first error: at once if a role exists,
\* or half way.
RestoreRoles(r) ==
  /\ restorePc[r] = "roles"
  /\ \/ /\ roles = "none"
        /\ roles' = "all"
        /\ restorePc' = [restorePc EXCEPT ![r] = "database"]
     \/ /\ roles' = IF roles = "none" THEN "part" ELSE roles
        /\ restorePc' = [restorePc EXCEPT ![r] = "failed"]
  /\ UNCHANGED <<from, restored, complete, logins>>

\* A bug: without --exit-on-error, errors half way do not end the restore.
RestoreDatabaseAnyway(r) ==
  /\ restorePc[r] = "database"
  /\ restored' = IF restored = None THEN database[from[r]] ELSE restored
  /\ complete' \in {complete, TRUE}
  /\ restorePc' = [restorePc EXCEPT ![r] = "logins"]
  /\ UNCHANGED <<from, roles, logins>>

\* pg_restore --create --exit-on-error: the database must not exist, and an
\* error half way leaves what was restored so far.
RestoreDatabase(r) ==
  /\ restorePc[r] = "database"
  /\ \/ /\ restored = None
        /\ restored' = database[from[r]]
        /\ complete' = TRUE
        /\ restorePc' = [restorePc EXCEPT ![r] = "logins"]
     \/ /\ restored' = IF restored = None THEN database[from[r]] ELSE restored
        /\ complete' = complete
        /\ restorePc' = [restorePc EXCEPT ![r] = "failed"]
  /\ UNCHANGED <<from, roles, logins>>

\* A bug: the passwords are set as soon as there are roles.
SetLoginEarly(r, l) ==
  /\ restorePc[r] \in {"database", "logins"}
  /\ logins' = logins \cup {l}
  /\ UNCHANGED <<restorePc, from, roles, restored, complete>>

\* apply-login-passwords.sh: one ALTER ROLE for each login.
SetLogin(r, l) ==
  /\ restorePc[r] = "logins"
  /\ logins' = logins \cup {l}
  /\ UNCHANGED <<restorePc, from, roles, restored, complete>>

\* verify-role-graph.sql, and the restore reports success.
VerifyGraph(r) ==
  /\ restorePc[r] = "logins"
  /\ logins = Logins
  /\ restorePc' = [restorePc EXCEPT ![r] = IF roles = "all" THEN "ok" ELSE "failed"]
  /\ UNCHANGED <<from, roles, restored, complete, logins>>

\* The run is killed between two commands.
FailRestore(r) ==
  /\ restorePc[r] \notin Resting
  /\ restorePc' = [restorePc EXCEPT ![r] = "failed"]
  /\ UNCHANGED <<from, roles, restored, complete, logins>>

RestoreStep ==
  \E r \in Restores :
    \/ RestoreRoles(r) \/ RestoreDatabase(r) \/ VerifyGraph(r) \/ FailRestore(r)
    \/ \E i \in Ids : Begin(r, i)
    \/ \E l \in Logins : SetLogin(r, l)

-----------------------------------------------------------------------------
(* restore-crypto.sh *)

\* A bug: the destination may hold files.
DestinationAny == TRUE

\* [ -z "$(ls -A "$destination")" ]
DestinationEmpty == \A f \in Files : keys[f] = None

BeginKeys(k, i) ==
  /\ keyPc[k] = "idle"
  /\ \A q \in KeyRuns : keyPc[q] \in Resting
  /\ crypto[i] # None
  /\ keyFrom' = [keyFrom EXCEPT ![k] = i]
  /\ keyPc' = [keyPc EXCEPT ![k] = IF DestinationEmpty THEN "copy" ELSE "failed"]
  /\ UNCHANGED keys

CopyKeyBack(k, f) ==
  /\ keyPc[k] = "copy"
  /\ keys' = [keys EXCEPT ![f] = crypto[keyFrom[k]].keys[f]]
  /\ UNCHANGED <<keyPc, keyFrom>>

KeysRestored(k) ==
  /\ keyPc[k] = "copy"
  /\ \A f \in Files : keys[f] # None
  /\ keyPc' = [keyPc EXCEPT ![k] = "ok"]
  /\ UNCHANGED <<keyFrom, keys>>

FailKeys(k) ==
  /\ keyPc[k] = "copy"
  /\ keyPc' = [keyPc EXCEPT ![k] = "failed"]
  /\ UNCHANGED <<keyFrom, keys>>

KeyStep ==
  \E k \in KeyRuns :
    \/ KeysRestored(k) \/ FailKeys(k)
    \/ \E i \in Ids : BeginKeys(k, i)
    \/ \E f \in Files : CopyKeyBack(k, f)

-----------------------------------------------------------------------------

\* Every backup has ended, and restores that are left have nothing to restore
\* or are not asked for.
AtRest ==
  /\ \A r \in Runs : pc[r] \in Ended
  /\ \A r \in Restores : restorePc[r] \in Resting
  /\ \A k \in KeyRuns : keyPc[k] \in Resting
  /\ UNCHANGED vars

Next ==
  \/ BackupStep /\ UNCHANGED <<dbVars, keyVars>>
  \/ RestoreStep /\ UNCHANGED <<backupVars, keyVars>>
  \/ KeyStep /\ UNCHANGED <<backupVars, dbVars>>
  \/ AtRest

Spec == Init /\ [][Next]_vars

-----------------------------------------------------------------------------
(* Properties *)

\* The keys that were recovered open the database that was recovered under
\* the same identifier, even when a backup run failed between its two
\* artifacts, another used its identifier, the keys were rotated, and
\* restores failed and were tried again (backup.sh:54-94, restore.sh:15,
\* restore-crypto.sh:17).
RecoveredKeysOpen ==
  \A r \in Restores, k \in KeyRuns :
    restorePc[r] = "ok" /\ keyPc[k] = "ok" /\ from[r] = keyFrom[k] =>
      \A f \in Files : keys[f] = restored.epoch

\* A restore that reports success left the whole of the backup it was given
\* and nothing of another one, whatever failed restores left before it.
OkMeansRestored ==
  \A r \in Restores : restorePc[r] = "ok" =>
    /\ restored = database[from[r]] /\ complete
    /\ roles = "all" /\ logins = Logins

\* A cluster in which a restore failed half way is closed: no login of the
\* services works before the roles and the database are restored entirely.
LoginsMeanRestored == logins # {} => roles = "all" /\ complete

\* The recovered key files are never of two epochs, also when a restore of
\* the keys fails half way and is tried again with another artifact.
KeysNeverMixed ==
  \A f, g \in Files : keys[f] # None /\ keys[g] # None => keys[f] = keys[g]
=============================================================================
