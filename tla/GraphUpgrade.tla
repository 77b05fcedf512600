---------------------------- MODULE GraphUpgrade ----------------------------
(***************************************************************************)
(* The core deployment and the upgrades of its role graph.                 *)
(* deploy/operations/graph-upgrade.sh: an approved SQL file changes the    *)
(* PostgreSQL role graph in one transaction, and an evidence directory is  *)
(* published when the graph is the contract before and after.  Runs may    *)
(* fail or be killed at any command and be repeated.  The operator stops   *)
(* applications and Atlas, runs one upgrade at a time and starts the       *)
(* deployment again: postgres-role-verify, then Atlas.                     *)
(***************************************************************************)
EXTENDS CoreStartup

CONSTANTS
  Runs,         \* runs of graph-upgrade.sh
  Changes,      \* values of CHANGE_ID
  None          \* no change, no graph

ASSUME NoneAssumption == None \notin Changes /\ None \notin Nat

VARIABLES
  left,       \* the graph that each change left when its SQL was committed
  evidence,   \* the changes whose evidence directory is published
  pc,         \* where each run is
  change      \* the change it makes

upgradeVars == <<left, evidence, pc, change>>
vars == <<coreVars, upgradeVars>>

Init ==
  /\ CoreInit
  /\ left = [c \in Changes |-> None]
  /\ evidence = {}
  /\ pc = [r \in Runs |-> "idle"]
  /\ change = [r \in Runs |-> None]

Resting == {"idle", "ok", "failed"}
NoUpgrade == \A r \in Runs : pc[r] \in Resting

Goto(r, label) == pc' = [pc EXCEPT ![r] = label]

-----------------------------------------------------------------------------
(* The operator *)

\* compose stop of everything but postgres and redis.
StopServices ==
  /\ up \in {"ok", "failed"}
  /\ up' = "idle"
  /\ st' = [s \in Services |-> IF s \in {"postgres", "redis"} THEN st[s] ELSE "created"]
  /\ UNCHANGED <<pgVars, migrated, faults, upgradeVars>>

\* graph-upgrade.sh up to its docker run.  The operator confirms that services
\* and Atlas are stopped.
Begin(r, c) ==
  /\ pc[r] = "idle"
  /\ NoUpgrade
  /\ up = "idle"
  /\ change' = [change EXCEPT ![r] = c]
  /\ Goto(r, IF c \in evidence THEN "failed" ELSE "before")
  /\ UNCHANGED <<left, evidence, coreVars>>

-----------------------------------------------------------------------------
(* graph-upgrade-container.sh *)

\* verify-role-graph.sql into before.txt.
VerifyBefore(r) ==
  /\ pc[r] = "before"
  /\ Goto(r, IF Reachable /\ roles = RoleSteps THEN "mutate" ELSE "failed")
  /\ UNCHANGED <<left, evidence, change, coreVars>>

\* psql --single-transaction commits all of the SQL or nothing.
Mutate(r) ==
  /\ pc[r] = "mutate"
  /\ Reachable
  /\ roles' \in {RoleSteps, OffContract}
  /\ left' = [left EXCEPT ![change[r]] = roles']
  /\ Goto(r, "after")
  /\ UNCHANGED <<evidence, change, st, up, dir, server, migrated, faults>>

\* A bug: the graph is not looked at after the mutation.
VerifyAfterNothing(r) ==
  /\ pc[r] = "after"
  /\ Goto(r, "publish")
  /\ UNCHANGED <<left, evidence, change, coreVars>>

\* verify-role-graph.sql into after.txt.
VerifyAfter(r) ==
  /\ pc[r] = "after"
  /\ Goto(r, IF Reachable /\ roles = RoleSteps THEN "publish" ELSE "failed")
  /\ UNCHANGED <<left, evidence, change, coreVars>>

\* The candidate directory is renamed.
Publish(r) ==
  /\ pc[r] = "publish"
  /\ evidence' = evidence \cup {change[r]}
  /\ Goto(r, "ok")
  /\ UNCHANGED <<left, change, coreVars>>

\* Any command fails, or the run is killed: the trap removes the candidate.
Fail(r) ==
  /\ pc[r] \notin Resting
  /\ Goto(r, "failed")
  /\ UNCHANGED <<left, evidence, change, coreVars>>

-----------------------------------------------------------------------------

Upgrade(r) ==
  \/ VerifyBefore(r) \/ Mutate(r) \/ VerifyAfter(r) \/ Publish(r) \/ Fail(r)
  \/ \E c \in Changes : Begin(r, c)

Next ==
  \/ NoUpgrade /\ Up /\ UNCHANGED upgradeVars
  \/ CoreStep /\ UNCHANGED upgradeVars
  \/ StopServices
  \/ \E r \in Runs : Upgrade(r)

Spec == Init /\ [][Next]_vars

-----------------------------------------------------------------------------
(* Properties *)

\* Whatever failed or was repeated before, every change that has evidence was
\* committed, and left the graph on its contract: one that did not has none
\* (graph-upgrade-container.sh:17-34).
EvidenceIsTruthful == \A c \in evidence : left[c] = RoleSteps
=============================================================================
