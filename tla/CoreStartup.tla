---------------------------- MODULE CoreStartup ----------------------------
(***************************************************************************)
(* docker compose up of the core profile: the services of                  *)
(* deploy/compose.yaml with their depends_on conditions and restart        *)
(* policies, and the data directory that the postgres service initializes  *)
(* with deploy/postgres/init/10-nexusrelay-roles.sh.  Module GraphUpgrade  *)
(* adds the upgrades of the role graph between two starts.                 *)
(*                                                                         *)
(* A one-shot service runs to its end once for every `up`; a long-running  *)
(* one is restarted by the container runtime when it dies, at once and     *)
(* whatever it depends on.  Of the PostgreSQL image, which is external,    *)
(* the model has that it initializes an empty data directory only, that it *)
(* runs the script against a temporary server which listens on its Unix    *)
(* socket alone, and that it then starts the final server.                 *)
(***************************************************************************)
EXTENDS Naturals

CONSTANTS
  RoleSteps,   \* bound: statements of the role script
  MaxFaults    \* bound: crashes, failures and timeouts

ASSUME BoundsAssumption == RoleSteps \in Nat /\ MaxFaults \in Nat

VARIABLES
  st,         \* each service's container
  up,         \* the compose up under way
  dir,        \* the data directory: empty, partial or complete (the marker)
  roles,      \* the role graph: the statements of the role script that were
              \* executed, or OffContract when an upgrade left another graph
  server,     \* the PostgreSQL server: off, temp or final
  migrated,   \* Atlas has applied the migrations
  faults

coreVars == <<st, up, dir, roles, server, migrated, faults>>
pgVars == <<dir, roles, server>>

OffContract == RoleSteps + 1

-----------------------------------------------------------------------------
(* compose.yaml *)

OneShots == {"deployment-validate", "secret-publish", "shared-config-init",
             "traefik-state-init", "postgres-role-verify", "migrate"}
Applications == {"gateway", "control-plane", "worker"}
LongRunning == Applications \cup {"postgres", "redis", "web", "proxy"}
Services == OneShots \cup LongRunning

\* A bug: the applications do not wait for the migration.
DependsOnNoMigrate(s) ==
  IF s \in Applications THEN {"secret-publish", "shared-config-init", "redis"}
  ELSE IF s = "proxy" THEN {"gateway", "control-plane", "web", "traefik-state-init"}
  ELSE IF s = "migrate" THEN {"secret-publish", "postgres", "postgres-role-verify"}
  ELSE IF s = "postgres-role-verify" THEN {"postgres"}
  ELSE IF s \in {"postgres", "redis"} THEN {"secret-publish"}
  ELSE IF s = "secret-publish" THEN {"deployment-validate"}
  ELSE {}

\* depends_on.  The condition is service_healthy for a long-running service
\* and service_completed_successfully for a one-shot.
DependsOn(s) ==
  IF s \in Applications THEN {"secret-publish", "shared-config-init", "migrate", "redis"}
  ELSE IF s = "proxy" THEN {"gateway", "control-plane", "web", "traefik-state-init"}
  ELSE IF s = "migrate" THEN {"secret-publish", "postgres", "postgres-role-verify"}
  ELSE IF s = "postgres-role-verify" THEN {"postgres"}
  ELSE IF s \in {"postgres", "redis"} THEN {"secret-publish"}
  ELSE IF s = "secret-publish" THEN {"deployment-validate"}
  ELSE {}

Satisfied(s) == st[s] = IF s \in OneShots THEN "done" ELSE "healthy"

CoreInit ==
  /\ st = [s \in Services |-> "created"]
  /\ up = "idle"
  /\ dir = "empty"
  /\ roles = 0
  /\ server = "off"
  /\ migrated = FALSE
  /\ faults = 0

-----------------------------------------------------------------------------
(* docker compose *)

\* local-core.sh up: one-shot services run again.
Up ==
  /\ up \in {"idle", "failed"}
  /\ up' = "going"
  /\ st' = [s \in Services |-> IF s \in OneShots /\ st[s] # "running" THEN "created" ELSE st[s]]
  /\ UNCHANGED <<pgVars, migrated, faults>>

Start(s) ==
  /\ up = "going"
  /\ st[s] = "created"
  /\ \A d \in DependsOn(s) : Satisfied(d)
  /\ st' = [st EXCEPT ![s] = "running"]
  /\ UNCHANGED <<up, pgVars, migrated, faults>>

\* A postgres that serves without the marker never becomes healthy.
NeverHealthy(s) == s = "postgres" /\ st[s] = "running" /\ server = "final" /\ dir # "complete"

\* up --wait ends with an error when a service failed or is unhealthy.
UpFails ==
  /\ up = "going"
  /\ \E s \in Services : st[s] = "failed" \/ NeverHealthy(s)
  /\ up' = "failed"
  /\ UNCHANGED <<st, pgVars, migrated, faults>>

\* --wait-timeout passes.
UpTimesOut ==
  /\ up = "going"
  /\ faults < MaxFaults
  /\ faults' = faults + 1
  /\ up' = "failed"
  /\ UNCHANGED <<st, pgVars, migrated>>

UpEnds ==
  /\ up = "going"
  /\ \A s \in Services : Satisfied(s)
  /\ up' = "ok"
  /\ UNCHANGED <<st, pgVars, migrated, faults>>

\* local-core.sh down removes the containers and keeps the volumes.
Down ==
  /\ up \in {"ok", "failed"}
  /\ up' = "idle"
  /\ st' = [s \in Services |-> "created"]
  /\ server' = "off"
  /\ UNCHANGED <<dir, roles, migrated, faults>>

-----------------------------------------------------------------------------
(* postgres *)

\* The entrypoint on an empty directory: initdb, then the temporary server.
InitDb ==
  /\ st["postgres"] = "running"
  /\ server = "off"
  /\ dir = "empty"
  /\ dir' = "partial"
  /\ server' = "temp"
  /\ UNCHANGED <<st, up, roles, migrated, faults>>

\* Every statement of the script commits by itself.
CreateRole ==
  /\ server = "temp"
  /\ roles < RoleSteps
  /\ roles' = roles + 1
  /\ UNCHANGED <<st, up, dir, server, migrated, faults>>

\* touch "$PGDATA/.nexusrelay-initialized", the last command of the script.
TouchMarker ==
  /\ server = "temp"
  /\ roles = RoleSteps
  /\ dir = "partial"
  /\ dir' = "complete"
  /\ UNCHANGED <<st, up, roles, server, migrated, faults>>

\* The temporary server is stopped and the final one started, at once when
\* the directory was not empty.
StartFinal ==
  /\ st["postgres"] \in {"running", "healthy"}
  /\ \/ server = "temp" /\ dir = "complete"
     \/ server = "off" /\ dir # "empty"
  /\ server' = "final"
  /\ UNCHANGED <<st, up, dir, roles, migrated, faults>>

\* A bug: the health check asks the server only.
PostgresAnswers == server # "off"

\* The health check of compose.yaml, through the Unix socket.
PostgresHealthCheck == dir = "complete" /\ server # "off"

-----------------------------------------------------------------------------
(* The other services *)

Reachable == server = "final"

\* /health/ready of an application: authenticated PostgreSQL and Redis.
HealthCheck(s) ==
  IF s = "postgres" THEN PostgresHealthCheck
  ELSE s \in Applications => Reachable /\ st["redis"] = "healthy"

HealthPasses(s) ==
  /\ st[s] = "running"
  /\ HealthCheck(s)
  /\ st' = [st EXCEPT ![s] = "healthy"]
  /\ UNCHANGED <<up, pgVars, migrated, faults>>

\* verify-role-graph.sh fails when it cannot connect or the graph is not
\* exactly the contract; migrate fails when it cannot connect.
Succeeds(s) ==
  /\ s = "postgres-role-verify" => Reachable /\ roles = RoleSteps
  /\ s = "migrate" => Reachable

OneShotSucceeds(s) ==
  /\ st[s] = "running"
  /\ Succeeds(s)
  /\ st' = [st EXCEPT ![s] = "done"]
  /\ migrated' = (migrated \/ s = "migrate")
  /\ UNCHANGED <<up, pgVars, faults>>

OneShotFails(s) ==
  /\ st[s] = "running"
  /\ \/ ~Succeeds(s) /\ UNCHANGED faults
     \/ faults < MaxFaults /\ faults' = faults + 1
  /\ st' = [st EXCEPT ![s] = "failed"]
  /\ UNCHANGED <<up, pgVars, migrated>>

\* A long-running service dies, or the role script fails and takes the
\* container with it, and is restarted.
Crash(s) ==
  /\ st[s] \in {"running", "healthy"}
  /\ faults < MaxFaults
  /\ faults' = faults + 1
  /\ st' = [st EXCEPT ![s] = "running"]
  /\ server' = IF s = "postgres" THEN "off" ELSE server
  /\ UNCHANGED <<up, dir, roles, migrated>>

Steady == up = "ok" /\ UNCHANGED coreVars

Postgres == InitDb \/ CreateRole \/ TouchMarker \/ StartFinal
Progress(s) ==
  \/ Start(s)
  \/ s \in LongRunning /\ HealthPasses(s)
  \/ s \in OneShots /\ (OneShotSucceeds(s) \/ OneShotFails(s))

\* Everything but the operator's `up`.
CoreStep ==
  \/ UpFails \/ UpTimesOut \/ UpEnds \/ Down \/ Postgres \/ Steady
  \/ \E s \in Services : Progress(s)
  \/ \E s \in LongRunning : Crash(s)

-----------------------------------------------------------------------------
(* Properties *)

\* Atlas only ever runs against a cluster whose initialization came to its
\* end and whose role graph is the contract: a crash anywhere in the role
\* script, followed by the restart that skips the script, leaves a cluster
\* that nothing is migrated into, and so does an upgrade that leaves another
\* graph (compose.yaml:417,494-539, 10-nexusrelay-roles.sh:131-180,
\* graph-upgrade-container.sh:17-22).
OnlyInitializedIsMigrated ==
  /\ migrated => dir = "complete"
  /\ st["migrate"] = "running" => dir = "complete" /\ roles = RoleSteps

\* No application and no proxy runs before the migrations were applied, also
\* when containers are restarted, services fail and `up` is repeated
\* (compose.yaml: depends_on).
ServedAfterMigrated ==
  (\E s \in Applications \cup {"proxy"} : st[s] # "created") => migrated
=============================================================================
