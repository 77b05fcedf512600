# NexusRelay: specifications and proofs

TLA+ specifications of the parts of NexusRelay that exist in code: the life of
a service process (configuration, telemetry, readiness, dependencies, HTTP
server, shutdown), what prepares a deployment before a service starts (secrets,
preflight, shared configuration, PostgreSQL roles, migrations), and the
operations on it afterwards (backup, restore, graph upgrade). Each module is
translated from the source; line numbers refer to the repository.

## The system

The repository is at its "Phase 2": the gateway, control plane and worker are
processes that start, probe PostgreSQL and Redis, serve health endpoints and
shut down. Routing, budgets and usage exist as design documents only, so there
is nothing of them to model. What has state or rules today:

| Component | State | Operations | What is hard | Correct when |
|---|---|---|---|---|
| `internal/httpserver` | listener, accept goroutine, connections, shutdown context, `Health.ready` | `Run`, `Serve`, `SetReady`, readiness answers | select between a failure and a cancellation, shutdown before the accept loop starts, requests that outlast the grace period | nil means drained; the port is always given back; a cancelled server returns |
| `internal/dependency/readiness.go` | readiness, retry delay, probe round, timers, the channel of the server's result | `Run`, `runProbes` | a signal, a timeout, a tick, a probe's answer and the server's end in any order | readiness is withdrawn before the drain; startup ends; readiness follows the dependencies |
| `internal/dependency/dependency.go` | the two client pools | `Open`, `Close` | failure at the second client; use after close | everything opened is closed, after its last user |
| `internal/observability` | gauges, counters, spans, default logger | `New`, `Shutdown`, `HTTPMiddleware`, log handlers | two stores for one fact; headers written twice; panics; shutdown while handlers run; bound attributes | gauges, counters and log lines agree with what clients got; a fatal error is reported; no span is forgotten; no flat value outside the allowlist is logged |
| `apps/*/main.go`, `internal/runtime` | what is open, exit status, signal context | `main`, `run` | order of the defers; the container's stop period | status 0 only after a signal and a drain; the drain period is honoured |
| `internal/config/config.go`, `envfile.go`, `cmd/validate-deployment` | none (parsers) | `Parse*`, `ValuesForProcess`, preflight | cross-field rules; two validators, a dotenv reader and a shell environment for one setting | what the preflight accepts is what the processes accept and read, unless compose alters it on the way |
| `internal/config/secret.go` | a path, an open file | `openProtectedFile`, `readSecretBytes`, `strictJSON`, key rings | the file changes between two system calls; `encoding/json` is lax | the bytes are those of the checked file; a ring has one meaning |
| `internal/config/devsecrets.go` | temporary and destination directory | `GenerateDevSecrets`, `ValidateDevSecrets` | runs that race, fail or die between two renames | one run's complete inventory or an error |
| `deploy/secrets/publish.sh` | six secret volumes | preflight, publish | death inside a copy; source replaced between runs | one source version everywhere |
| `shared-config-init` in `deploy/compose.yaml` | releases, `current`, lock | stage, compare, install, link, swap | overlap, death between two commands | readers always find a complete release |
| `deploy/postgres`, `deploy/migrate`, `deploy/compose.yaml` | containers, data directory, marker, migrations | up, down, health checks, restarts, init, verify, migrate | a crash during the role script; restarts that ignore `depends_on` | nothing is migrated into a half initialized cluster, nothing serves before the migrations |
| `deploy/operations` | artifact pairs, restored cluster, evidence | backup, verify, restore, graph upgrade | one of several steps failing, overlap, repetition | no artifact, cluster or evidence passes for complete that is not |

How they interact: `main` calls `dependency.Run`, which owns the HTTP server's
goroutine and its context, and calls `setReady` of `main`, which stores into
`Health` and into a gauge. Probes use the clients that `main` closes by defer;
the middleware of telemetry wraps the handlers, and telemetry is shut down
last. `generate-dev-secrets` fills the directory that `validate-deployment`
checks and `secret-publish` copies; Compose starts PostgreSQL and Redis when the
publisher has succeeded, the migrations when PostgreSQL is verified, and the
services after the migrations. Backups read the cluster and the key files the
services use; a restore writes both.

## Modules

| Module | Models | Notes |
|---|---|---|
| `HttpServer` | `internal/httpserver` | Server goroutine, accept goroutine, one request per connection. `net/http` is external: what `Serve`, `Shutdown` and `Close` do is stated from how `server.go` relies on it. |
| `DependencyRun` | `dependency.Run`, `runProbes`, `setReady` | Extends `HttpServer`. A call of `setReady` is two steps (`SetReady`, `StoreGauge`); each probe is a goroutine; a timer's expiry is an action. |
| `Service` | `apps/{gateway,control-plane,worker}/main.go`, `dependency.Open`/`Close`, `runtime.Run` | Extends `DependencyRun`; the composed process. |
| `ServiceContract` | abstract specification | What an orchestrator may rely on: phases starting, serving, draining, broken, stopped. `Service` maps to it by `Phase`. |
| `ServiceInv` | inductive invariant | One part per component. |
| `Telemetry` | `internal/observability` | Requests run the middleware step by step around any handler; `main` starts and stops telemetry; log calls go through the default or the configured logger. |
| `ContainerStop` | SIGTERM, drain, flush, SIGKILL | The clock that `HttpServer` leaves out, in units of five seconds. |
| `SecretReaders` | the readers of `secret.go` as predicates of a content | Used by the two modules below. |
| `Settings` | `config.go` | One operator per parser, named as in the source; a value is a number, a member of an enumeration or a record of the parts the rules look at. |
| `Preflight` | `validate-deployment`, compose's interpolation, the containers' own checks | Edits of the environment file, of the secrets and of the operator's shell, then verdict, then each container's decision. The preflight judges the text of the file; compose reads it with quotes, comments and `$` resolved (`reread`) and after the shell's variables. |
| `SecretFile` | `openProtectedFile`, `readSecretBytes` | Lstat, open, stat, read with renames, removals and chmods in between. |
| `JsonScan` | `ReadKeyRing`: `strictJSON`, `scanJSONValue`, ring validation | Extends `SecretFile`: the bytes that were read are scanned, decoded and validated; what `encoding/json` does is external. |
| `DevSecrets` | `GenerateDevSecrets` | A secret's value is the run that drew it. |
| `SecretPublication` | `deploy/secrets/publish.sh` | A file's value is the version of the source it was copied from. |
| `SharedConfig` | `shared-config-init` | `/target/.current.$$` is one name: the shell is process 1 of its container. |
| `CoreStartup` | `up` and `down` of the core profile | `depends_on`, health checks, restarts, the role script, its marker, verifier and Atlas. |
| `GraphUpgrade` | `graph-upgrade.sh` between two starts | Extends `CoreStartup`: the role graph that an upgrade leaves is the one `postgres-role-verify` finds. Commit, verification and evidence are separate steps. |
| `Backup` | `backup.sh`, its containers, `verify-backup.sh` | Overlapping runs; contents are key epochs. |
| `Restore` | `restore.sh`, `restore-crypto.sh` | Extends `Backup`: repeated attempts on what failed ones left, from the artifacts that were published, while backups go on. |
| `MC_*` | | Constants for TLC. |
| `*_proofs` | | Theorems; see below. |

Program counters are named after the place in the code (`startupSelect`,
`tickProbing`, `closeWait`); an action is the code from one point at which other
goroutines or processes can interfere to the next. Except in `ContainerStop`
durations do not pass: a timer may expire at any moment after it was started.
The retry delay is kept as a number because its arithmetic matters. Operators
marked "A bug" are variants of a neighbouring operator that no specification
uses; they record which mistake each property catches.

### What the actions leave out

- `Service`: `LoadConfig` succeeds or fails; which configurations are valid is
  the subject of `Settings`, and `PoliciesAreValid` of `Preflight` links the two.
- `Telemetry`: the text of records, what the OpenTelemetry SDK's own error
  handler prints (otel's default, outside the logger), and the span's status.
  An informational (1xx) status would be recorded as final, but no handler sends
  one. `statusWriter.Unwrap` lets an `http.ResponseController` flush headers
  past `wroteHeader`; no handler uses one, and the handlers of the model are
  those that use the writer itself.
- `Preflight`: a file that compose cannot parse at all (an open quote) stops
  compose before it starts the preflight. What dotenv makes of a line is an
  input (`Edits`), not computed from characters.
- `Settings`: the syntax of hosts, URLs, CIDRs and names is a well-formed value
  or `Malformed`. Settings that differ in name and limits only share an operator.
- `SecretFile`: an inode number is not given to another file during one read.
- `DevSecrets`: the contents of a file that a run has drawn are well formed, so
  of the content checks only the one that relates two files (`redis_url` and
  `redis_password`) can fail. Nobody but the generator touches the directories.
- `SecretPublication`: runs do not overlap, because Compose has one container
  per service, and the operator changes source or volumes between runs only, as
  `docs/runbooks/phase-2-local-core.md` requires.
- `SharedConfig`: a revision that fails the format check ends its run before
  it touches the volume. Candidate directories that a crash leaves behind have
  fresh names and are invisible to everybody else. `mv` into an existing
  release fails because of its mode; commands that fail for other reasons (a
  full disk) are not modelled.
- `CoreStartup`: networks, images and the cloudflare and bootstrap profiles,
  which nothing of the core depends on.
- `Backup`: keys are not rotated during a backup, as
  `docs/runbooks/backup-restore-key-recovery.md:24` asks. A host script that is
  killed while its container goes on (backup.sh:91) is not modelled. `Restore`: the
  restores of one target run one after the other; the operator confirms an
  empty target. `GraphUpgrade`: services and Atlas are stopped during a run, which
  the operator confirms too.

## Runs

| Run | Configuration | Shows |
|---|---|---|
| `service` | `MC_Service.cfg` | The whole process, two dependencies that come and go, two requests, four policies of which three are invalid: `ReturnMeansStopped`, `NotReadyWhileDraining`, `NoUseAfterClose`, `ExitZeroMeansDrained`, `MetricsAgree`, `ExitReleasesEverything`, `RetryDelayWithinPolicy`; the refinement of `ServiceContract` with its liveness (`ImplementsContract`), `SignalStops`, `StartupEnds`, `ReadinessFollowsDependencies`. |
| `telemetry` | `MC_Telemetry.cfg` | Two requests with two calls of the response writer each or a panic, log calls of any other code, a failed start or a stop at any moment: `RecordedAsServed`, `NoSpanIsForgotten`, `StopIsReported`, `OnlyGroupsEscape`. An export may fail, the batcher's queue may be full, and attributes are flat values, arbitrary objects or groups, bare or behind a `LogValuer`. |
| `log_groups` | `MC_TelemetryGroups.cfg` | Divergence: a group under an allowed key is written as it is. |
| `container_stop` | `MC_ContainerStop.cfg` | Divergence: a drain period longer than the container's stop period is accepted and not honoured. |
| `preflight` | `MC_Preflight.cfg` | Three deployments, about 120 edits, two deep, both profiles, with quoted and commented lines and exports of the shell: `PreflightCovers`, `FilterIsComplete`, `PoliciesAreValid`, `ValidatedIsWhatRuns`. |
| `secret_file` | `MC_JsonScan.cfg` | A key ring is read during two changes of the file system, from documents with missing, repeated, misspelt, null and mistyped fields and numbers past the range of `int64`: `ReadWhatWasChecked`, `ReturnsTheSecret`, `OnlyWellFormedRings`. |
| `dev_secrets` | `MC_DevSecrets.cfg` | Three runs, three files, any system call failing, any run killed: `OneRunsInventory`, `SuccessMeansComplete`, `NoTempLeft`, and `SomeRunSucceeds` where nothing failed. |
| `secret_publication` | `MC_SecretPublication.cfg` | Three volumes, one with two files, two replacements of the source, death at any command: `OneVersion`, `OkMeansPublished`. |
| `shared_config` | `MC_SharedConfig.cfg` | Three runs, two revisions, two payloads, death at any command: `CurrentResolves`, `UnkilledRunsFailOnlyOverAChange`, `OnePayloadPerRevision`, `OkMeansCurrent`. |
| `shared_config_crash` | `MC_SharedConfigCrash.cfg` | Divergence: after a crash a run may fail over an unchanged payload. |
| `deployment` | `MC_GraphUpgrade.cfg` | A fault anywhere in `up`, any number of repetitions and stops, two upgrades of the role graph: `OnlyInitializedIsMigrated`, `ServedAfterMigrated`, `EvidenceIsTruthful`. |
| `recovery` | `Restore.cfg` | Two backup runs with a rotation, two restores and two of the keys from what they published: `VerifiedPairMatches`, `RecoveredKeysOpen`, `OkMeansRestored`, `LoginsMeanRestored`, `KeysNeverMixed`. |

### Bounds

- Two connections are one that is being answered while another arrives or is
  cut.
- Two probes are the two the services have. A round can end with any mixture.
- `MCPolicies` has a maximum (3) that doubling the minimum (2) overshoots, and
  one policy for each way `validate` can refuse that differs. The bound on the
  delay is proved for every policy.
- `MaxCalls = 2` is a header and what contradicts it, or a record before and
  one after the configuration of telemetry. The codes are a success, a server
  error and one outside every class. `QueueSize = 1` lets the second span meet a
  full queue.
- `MCValues` has each setting at and past its limit, at the limit of the
  setting it is compared with, empty and malformed. Rules that relate two
  settings need two edits (`MaxEdits = 2`). `MCQuoted` has lines of both kinds:
  strict syntax, which the preflight must refuse, and free text, which it takes.
  `MCExports` has variables of the shell that contradict the file, that a
  container refuses and that are empty.
- `MaxChanges = 2` lets a file be replaced and put back. Contents are up to
  four characters with a limit of three. `MaxInt64 = 3` stands for the largest
  `int64`: what matters is that numbers on both sides of it occur.
- Three generator runs: one that moves files, one that looks at them and one
  about to claim the destination. Three files are the first, a middle and the
  last rename and include the two that must agree.
- `MaxVersion = 2` lets a volume hold a version older than the source twice
  over.
- `MaxFaults = 1` is a crash, failure or timeout anywhere; what follows from it
  (failed starts, repeated `up`, `down`) is not bounded. `RoleSteps = 2` has a
  state between none and all. Two upgrades are one that fails or leaves another
  graph and one that repeats it or makes the next change.
- Two backups and one rotation: one that fails between its artifacts and one
  after the rotation, or two that overlap under one identifier. Two restores
  are one that leaves something behind and one that meets it. `MaxEpoch` bounds
  the counter.
- Symmetry is used for runs, changes and requests, in runs without liveness only.

### Fairness

- Weak fairness for every goroutine's own steps: Go's scheduler runs what can
  run. A handler is not assumed to return, a dependency not to come back.
- Weak fairness for timers: the grace period, the startup timeout and a ping's
  deadline expire.
- Strong fairness for the branches of a `select` that stop the service (signal,
  server result) against the ticker: `select` chooses at random among the
  ready cases, so a case that is ready again and again is taken.
- Weak fairness for a generator run's steps in `DevSecrets`, none for faults.
- The other modules state no fairness; they are about safety.

### Divergences the models make explicit

Three are runs that TLC must find violated:

1. `shared_config_crash`. `deploy/shared/README.md:11` says that repeating a
   revision verifies its payload and that a changed payload fails. A run of
   `shared-config-init` that is killed between `ln -s` (compose.yaml:375) and
   `mv -Tf` (376) leaves `/target/.current.1`. In every later run `ln -s` finds
   that name, follows it into a release directory of mode 0555 and fails,
   because root has no capabilities there; the identical payload is refused as
   well until the link is removed by hand. What readers see stays intact
   (`CurrentResolves` is proved).
2. `container_stop`. `SHUTDOWN_GRACE_PERIOD` may be up to five minutes
   (config.go:750); `stop_grace_period` is 40 s (compose.yaml:44). The design
   (`docs/design/01-system-topology.md:162`) has one typed setting for both.
3. `log_groups`. `docs/runbooks/phase-2-local-core.md:52` says that unknown
   structured values are replaced before serialization, and
   `docs/design/11-operations-security-testing.md:303` that attributes are
   allowlisted centrally. `redactAttribute` (logging.go:127-130) replaces values
   of kind `Any` only: a group under an allowed key, also one that a `LogValuer`
   resolves to, is written with its nested attributes as they are. No call of the
   repository logs a group today. Nothing else escapes (`OnlyGroupsEscape`).

The others are behaviours of the passing models:

4. `docs/design/03-identity-access.md:188` calls the cookie name
   configuration-driven. compose.yaml (595 ff.) does not pass
   `SESSION_COOKIE_NAME` to the control plane: it uses its default, and refuses
   to start in production, where the default lacks the `__Host-` prefix.
   `KnownRefusal` of `Preflight` lists this and the other configurations that
   the preflight accepts and a container refuses (a database of another name,
   TLS modes and host names outside the proxy's).
5. The health check (compose.yaml:417) asks the Unix socket and a marker that
   exists while the image's temporary server still runs. In `CoreStartup` the
   role verifier may then start and fail to connect, so that the first `up` on
   an empty volume may fail and has to be repeated.
6. The backup identifier is checked (backup.sh:54) long before `mv` publishes
   under it, and `mv` into an existing directory succeeds: of two overlapping
   backups with one identifier both report success, and only one published
   artifacts of its own (`MovedTo`). The pair still matches:
   `VerifiedPairMatches` is proved with this behaviour in the model.
7. `docs/runbooks/upgrade.md:47` says that after a failed upgrade Atlas remains
   blocked. Nothing but the role verifier blocks it: when the graph still meets
   the contract, or the failure came after the verification, the next start
   migrates. A graph off its contract does block it
   (`OnlyInitializedIsMigrated`).
8. The preflight judges the text of the environment file (envfile.go:18-19),
   compose the value that dotenv reads in it, or the shell's (local-core.sh:28).
   A setting that the shell exports, and a free text with quotes, a comment or a
   `$`, may reach a container as something the preflight never saw (`Altered`).
   Settings with a strict syntax cannot: their parsers refuse such a text.
9. With a collector that cannot be reached, or a full queue, the batcher gives up
   spans, and `Shutdown` returns nil all the same, so that
   `telemetry.shutdown.failed` is not logged (observability.go:105-113, 194-198).
   `NoSpanIsForgotten` therefore counts what was given up (`lost`).
10. After the startup timeout a signal that arrives while the server stops makes
   `Run` return the server's nil (readiness.go:90-91), and the process exits 0.

## Proofs

Every theorem holds for all values of the constants under the `ASSUME`s of the
modules: `Probes` is not empty, policies are records of integers (valid or
not), the file orders of `DevSecrets` enumerate `Files`, no volume's allowlist
is empty, the bounds are natural numbers, the "nothing" values are not members
of the sets they complete. Of `Telemetry`: there are finitely many requests,
final status codes are 200 to 999, the queue has room for a span, and a configuration is one that
`parseObservability` accepts. Of `SecretFile`: contents are sequences of
characters, an inode is a file, a directory or a link, and the size limit is
positive. Of `JsonScan`: the fields are those of one of the two readers, and a
document has the shape of JSON as deep as a reader looks; `MaxInt64` is positive. Of `Settings`: the
texts, numbers and Booleans that the code itself names are neither the empty nor
the malformed value. Of `Preflight`: `localhost` passes the proxy's host syntax, and a text
of a strict syntax that dotenv would alter is malformed to its parser
(`EditsAssumption`).

| Module | Theorems | Argument |
|---|---|---|
| `Service_proofs` | `ServiceImplementsContract`, `Invariance`, `TypeCorrectness`, `ServerTypeCorrectness`, `ServerStopsCleanly`, `ReadinessWithdrawnFirst`, `ResourcesOutliveUsers`, `SuccessMeansDrained`, `ReadinessSignalsAgree`, `ExitIsClean`, `RetryDelayBounded` | `Inv` of `ServiceInv` is inductive. Initial states and steps of `Service` map to those of `ServiceContract`, using `Inv` before and after the step. |
| `DevSecrets_proofs` | `Invariance`, `NeverMixed`, `SuccessIsComplete`, `TempIsRemoved`, `PublishedIsFinal` | Only the run that made the destination renames; what it has moved is a prefix of the order. |
| `SecretPublication_proofs` | `Invariance`, `VolumesAgree`, `SuccessMeansPublished`, `Immutable` | The first pass establishes that each volume is empty or current, and nothing changes it before the second. |
| `SharedConfig_proofs` | `Invariance`, `ReadersFindARelease`, `RevisionsNameOnePayload`, `SuccessIsCurrent`, `FailureIsAChange` | The lock makes the script one operation of which a crash leaves a prefix; a successful run's payload is its revision's release, which no later `mv` replaces. As long as no run was killed the temporary link exists only inside that operation, and a failed run met another payload. |
| `GraphUpgrade_proofs` | `Invariance`, `MigratedIsInitialized`, `ServingIsMigrated`, `EvidenceIsEarned` | The marker stands for the whole role script and is never removed; a container leaves "created" only when its dependencies were satisfied; neither a crash nor a repeated `up` undoes the marker or the migrations. No upgrade is under way while the deployment starts, so what the role verifier found still holds when Atlas runs. Evidence is published only when the graph that this very change left was verified (`left`). |
| `Restore_proofs` | `BackupInvariance`, `PairsMatch`, `SuccessIsVerifiable`, `ArtifactsStay` of `Backup`; `Invariance`, `RecoveryOpens`, `SuccessIsWhole`, `HalfRestoredIsClosed`, `KeysFromOneBackup` | No rotation while a backup is under way: what a run finds under its identifier after its check was published since, under the same keys. The first command passes on a cluster without roles only, so at most one restore ever gets further; the keys of an attempt exclude every later one; the artifacts stay what they were, so keys and database of one identifier fit. |
| `Telemetry_proofs` | `Invariance`, `TelemetryIsTruthful`, `SpansAreAccountedFor`, `FailureIsReported`, `LogIsRedacted` | Each counter is the cardinality of the set of requests that have passed the line that increments it, and each log line belongs to a request past its log call, with the status the client got. Only handlers that outlive the stop end a span after the provider was shut down; every other span is queued, exported or lost, and the shutdown empties the queue or is reported. Every attribute in the output went through `redactAttribute`, bound ones included, so what is left raw is a group under an allowed key. |
| `Config_proofs` | `ReaderInvariance`, `FileIsReadAsChecked`, `SecretIsReturned`, `ExactlyWellFormedRings` of `SecretFile` and `JsonScan`; `DeploymentInvariance`, `RunningPoliciesAreValid`, `FilterDropsNothing`, `JudgedIsWhatRuns`, `AcceptedDeploymentsStart` of `Preflight` | See below. |

Why an inductive invariant is needed for `Service`: that readiness is withdrawn
before the drain depends on who cancels the server's context, that on where
`Run` is, and the exit status on the channel through which the server's result
travelled. `HttpInv` ties the server's program counter to its listener,
channel and connections, `RunInv` ties `Run`'s to readiness, context and the
server, `RoundInv` ties the gauges to the round, `RetryInv` bounds the delay,
`MainInv` ties `main`'s to the resources. Type correctness of every module
with a proof is a conjunct of its invariant.

The proofs avoid `CASE` expressions in definitions that occur primed: tlapm
1.4.5 does not distribute the prime over them. `Phase` and the others are
written with `IF` or as equivalences for that reason.

Why the readers of secrets are right: the file that is open is the inode that
`Lstat` saw, whatever the path names by now, and the contents of an inode do not
change (`FileInv`). Scanning, decoding and validating a document together hold
exactly of the documents that the reference definition calls well formed
(`RingInv`); the lemmas count fields: a document without a repeated, an unknown
or a missing field has each field once.

Why the preflight covers the containers: `DeploymentInv` says that verdict and
statuses are those of the present environment file, secrets and shell, so the
four properties are about the parsers.

- A parser looks only at the names its inventory lists: on two environments
  that agree there it gives the same answer. There is one lemma for each parser
  and one for each process; `FilterDropsNothing` follows.
- A setting that compose reads differently from its text is a free text or
  malformed (`RereadInv`, kept by every edit). A malformed text of a strict
  syntax makes one of the preflight's parsers refuse (`StrictIsNotReread`), so
  after an accepted preflight such a setting is interpolated as written.
- compose replaces an empty value by a default. The preflight's parsers refuse
  the empty value of every interpolated setting but of two, whose default is
  empty; so what it judged is what the container reads (`JudgedIsWhatRuns`).
- A container sees fewer settings than the preflight. For those it sees, the
  preflight has run the same parser. For those it does not see, the parser's
  fallback lies within the limits and meets the rules that relate two settings
  to each other. The paths compose pins name secrets that `ValidateDevSecrets`
  has read. What is left is in `KnownRefusal` (`AcceptedDeploymentsStart`).

Ranges with large numbers stay behind names (`MaxPort`, the limits of
`Settings`) where the provers need not know them.

Checked by TLC only: the liveness properties `SignalStops`, `StartupEnds`,
`ReadinessFollowsDependencies`, `SomeRunSucceeds` and the liveness half of
`ImplementsContract`, which rest on fairness; and the three divergences, which are
violations.

## Not modelled

- Cloudflare's `publish-secrets.sh`: the protocol of `publish.sh` over two
  volumes with one file each, to which the theorems of `SecretPublication`
  apply with those constants.
- `RunInitialized` and `RunWithoutReadiness`, which only tests call.
- Scripts that check their inputs and print a configuration file (Traefik,
  Redis, Cloudflare, CoreDNS): straight-line; their checks that can disagree
  with the preflight are in `Preflight.Starts`.
- The bootstrap command past its configuration and the health probe: print a
  message, or make one HTTP request.
- The dashboard (a static page and a stateless header policy), generated API
  bindings, build information.
- The character syntax of the environment file (`envfile.go` refuses what is
  not `NAME=value`; what dotenv makes of a line is an input of `Preflight`), random bytes and encodings, the SQL of single grants.

## Plan

1. `ContainerStop`: the drain period is honoured whenever it fits into the stop
   period, as an invariant of a passing run and a theorem.
2. An abstract deployment (prepared, initialized, migrated, serving) that
   `CoreStartup` refines, and `CoreStartup` composed with `ServiceContract`: the
   health of an application is then the contract's phase.
3. `Telemetry` with three requests under TLC, if its steps can be made coarser;
   the theorems hold for any number.
