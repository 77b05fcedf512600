----------------------------- MODULE Preflight -----------------------------
(***************************************************************************)
(* A deployment from its .env file to its containers.  The operator edits  *)
(* the file and the secrets, validate-deployment judges the whole          *)
(* (internal/config/cmd/validate-deployment), and compose then hands every *)
(* container an environment of its own, interpolated from the same file    *)
(* (deploy/compose.yaml), which the container's program parses again.      *)
(*                                                                         *)
(* The two do not read the file alike.  ReadEnvironmentFile takes the text *)
(* after the first = as it stands.  Compose strips quotes and comments,    *)
(* expands $ and lets a variable of the operator's shell take precedence.  *)
(***************************************************************************)
EXTENDS Settings, FiniteSets

CONSTANTS
  Bases,      \* the environment files the operator may begin with
  Edits,      \* lines that may be written over the file's: [raw, read], the text of
              \* each setting, and what compose reads where that is not its text
  Exports,    \* settings that the operator's shell may export
  Secrets,    \* the secrets as generate-dev-secrets writes them: file -> content
  Damages,    \* partial functions that may be written over the secrets
  Tunnel,     \* the contents of the Cloudflare secret root
  HostFiles,  \* other protected files of the host, by path
  NonDNS,     \* host names outside the proxy's syntax
  MaxEdits    \* how many times the operator edits

ASSUME NonDNSAssumption == "localhost" \notin NonDNS

\* The settings that compose interpolates and whose syntax has room for a
\* quote, a blank followed by #, or a $.  The others are numbers, durations,
\* Booleans, words of a list, fixed names or addresses.
FreeText ==
  {"NEXUSRELAY_VERSION", "PUBLIC_API_BASE_URL", "ADMIN_BASE_URL", "ADMIN_ORIGINS",
   "PUBLIC_API_HOST", "ADMIN_HOST", "DATABASE_NAME", "POSTGRES_DB", "ACME_EMAIL",
   "ACME_DNS_PROVIDER", "OTEL_EXPORTER_OTLP_ENDPOINT"}

VARIABLES
  env,        \* the environment file, text by text
  reread,     \* its settings whose text compose reads as something else, and as what
  shell,      \* the settings that the operator's shell exports
  secrets,    \* the secret root
  edits,      \* the edits made so far
  profile,    \* "core" or "cloudflare": which preflight compose ran last
  verdict,    \* what it said
  status      \* what became of each container's program

vars == <<env, reread, shell, secrets, edits, profile, verdict, status>>

Components == Services \cup {"postgres", "migrate", "redis", "proxy"}

Merge(f, g) == [n \in DOMAIN f \cup DOMAIN g |-> IF n \in DOMAIN f THEN f[n] ELSE g[n]]

Init ==
  /\ env \in Bases
  /\ reread = [n \in {} |-> Empty]
  /\ shell = [n \in {} |-> Empty]
  /\ secrets = Secrets
  /\ edits = 0
  /\ profile \in {"core", "cloudflare"}
  /\ verdict = "none"
  /\ status = [c \in Components |-> "absent"]

(***************************************************************************)
(* The preflight                                                           *)
(***************************************************************************)

\* deploymentSecretFiles: the settings that name a generated secret.
deploymentSecretFiles ==
  DatabasePasswords \cup
  { <<"REDIS_URL_FILE", "redis_url">>, <<"REDIS_PASSWORD_FILE", "redis_password">>,
    <<"MASTER_KEYRING_FILE", "provider_master_keyring">>,
    <<"API_KEY_PEPPER_RING_FILE", "api_key_pepper_ring">>,
    <<"SESSION_SECRET_FILE", "session_secret">>, <<"CSRF_SECRET_RING_FILE", "csrf_secret_ring">> }

\* ValidateDevSecrets, for a root of regular files of mode 0600.
ValidateDevSecrets(root) ==
  LET passwords == {s[2] : s \in DatabasePasswords}
  IN /\ DOMAIN root = {s[2] : s \in deploymentSecretFiles}
     /\ \A s \in passwords : ReadSimpleSecret(root, s)
     /\ \A s, t \in passwords : s # t => root[s] # root[t]
     /\ ReadSimpleSecret(root, "redis_password") /\ root["redis_password"] # "short"
     /\ ReadURISecret(root, "redis_url", {"redis"})
     /\ root["redis_url"].password = root["redis_password"]
     /\ root["redis_url"].host = "redis:6379" /\ root["redis_url"].path = "/0"
     /\ ReadProviderKeyRing(root, "provider_master_keyring")
     /\ ReadKeyRing(root, "api_key_pepper_ring")
     /\ ReadBase64Key(root, "session_secret")
     /\ ReadKeyRing(root, "csrf_secret_ring")

\* The files of a directory, by path.
Files(dir, contents) == [p \in {<<dir, n>> : n \in DOMAIN contents} |-> contents[p[2]]]

\* ResolveDeploymentSecretRoot and ResolveCloudflareSecretRoot: every path
\* must be the logical one, and is replaced by the file under the root.
Resolvable(v, table) == \A s \in table : value(v, s[1], RunSecret(s[2])) = RunSecret(s[2])
Resolve(v, table, root) ==
  Merge([n \in {s[1] : s \in table} |-> <<root, (CHOOSE s \in table : s[1] = n)[2]>>], v)

cloudflareSecretFiles ==
  { <<"ACME_DNS_API_TOKEN_FILE", "acme_dns_api_token">>,
    <<"CLOUDFLARE_TUNNEL_CREDENTIALS_FILE", "cloudflare_tunnel_credentials.json">> }

ResolveDeploymentSecretRoot(v) == Resolve(v, deploymentSecretFiles, "/source")

\* An empty path counts as unset here.
ResolveCloudflareSecretRoot(v) == Resolve(v, cloudflareSecretFiles, "/cloudflare-secrets")
CloudflareResolvable(v) ==
  /\ \A s \in cloudflareSecretFiles : value(v, s[1], Empty) \in {Empty, RunSecret(s[2])}
  /\ DOMAIN Tunnel = {s[2] : s \in cloudflareSecretFiles}

\* --core-only.
coreOnly(v) ==
  Merge([ENABLE_CLOUDFLARE_TUNNEL |-> FALSE, TLS_MODE |-> "disabled",
         ACME_EMAIL |-> Empty, ACME_DNS_PROVIDER |-> Empty], v)

\* What validate-deployment sees of the host.
PreflightFiles ==
  Merge(HostFiles, Merge(Files("/source", secrets), Files("/cloudflare-secrets", Tunnel)))

\* run of validate-deployment, with compose's flags for the profile; the file
\* must hold inventory names only (ReadEnvironmentFile).
Accepted ==
  LET v == IF profile = "core" THEN coreOnly(env) ELSE env
      w == ResolveDeploymentSecretRoot(v)
  IN /\ DOMAIN env \subseteq Inventory
     /\ ValidateDevSecrets(secrets)
     /\ Resolvable(v, deploymentSecretFiles)
     /\ IF profile = "core" THEN ValidateComplete(w, PreflightFiles)
        ELSE /\ CloudflareResolvable(w)
             /\ ValidateComplete(ResolveCloudflareSecretRoot(w), PreflightFiles)

Validate ==
  /\ verdict = "none"
  /\ verdict' = IF Accepted THEN "accepted" ELSE "refused"
  /\ UNCHANGED <<env, reread, shell, secrets, edits, profile, status>>

\* The operator writes the file, the secrets or the environment of the shell
\* that compose is called from.
Edit ==
  /\ verdict = "none"
  /\ edits < MaxEdits
  /\ edits' = edits + 1
  /\ \/ /\ \E e \in Edits :
             /\ env' = Merge(e.raw, env)
             /\ reread' = Merge(e.read, [n \in DOMAIN reread \ DOMAIN e.raw |-> reread[n]])
        /\ UNCHANGED <<shell, secrets>>
     \/ \E x \in Exports : shell' = Merge(x, shell) /\ UNCHANGED <<env, reread, secrets>>
     \/ \E d \in Damages : secrets' = Merge(d, secrets) /\ UNCHANGED <<env, reread, shell>>
  /\ UNCHANGED <<profile, verdict, status>>

(***************************************************************************)
(* The containers                                                          *)
(***************************************************************************)

ServicePassed ==
  {"NEXUSRELAY_ENV", "NEXUSRELAY_VERSION", "HTTP_BIND_ADDRESS", "HTTP_PORT", "DATABASE_HOST",
   "DATABASE_PORT", "DATABASE_NAME", "DATABASE_SSLMODE", "DATABASE_STATEMENT_TIMEOUT",
   "DATABASE_TRANSACTION_TIMEOUT", "REDIS_URL_FILE", "DEPENDENCY_STARTUP_TIMEOUT",
   "DEPENDENCY_PROBE_TIMEOUT", "DEPENDENCY_PROBE_INTERVAL", "DEPENDENCY_RETRY_MIN_DELAY",
   "DEPENDENCY_RETRY_MAX_DELAY", "MASTER_KEYRING_FILE", "LOG_LEVEL", "LOG_FORMAT",
   "METRICS_ENABLED", "OTEL_ENABLED", "OTEL_EXPORTER_OTLP_ENDPOINT", "SHUTDOWN_GRACE_PERIOD"}

\* The environment keys of each service in compose.yaml.
Passed(p) ==
  ServicePassed \cup
  IF p = "gateway"
    THEN {"PUBLIC_API_BASE_URL", "TRUSTED_PROXY_CIDRS", "DATABASE_GATEWAY_USER",
          "DATABASE_GATEWAY_PASSWORD_FILE", "DATABASE_MIN_CONNECTIONS_GATEWAY",
          "DATABASE_MAX_CONNECTIONS_GATEWAY", "REDIS_MAX_CONNECTIONS_GATEWAY",
          "API_KEY_PEPPER_RING_FILE"}
  ELSE IF p = "worker"
    THEN {"DATABASE_WORKER_USER", "DATABASE_WORKER_PASSWORD_FILE",
          "DATABASE_MIN_CONNECTIONS_WORKER", "DATABASE_MAX_CONNECTIONS_WORKER",
          "REDIS_MAX_CONNECTIONS_WORKER"}
  ELSE {"PUBLIC_API_BASE_URL", "ADMIN_BASE_URL", "ADMIN_ORIGINS", "TRUSTED_PROXY_CIDRS",
        "DATABASE_CONTROL_PLANE_USER", "DATABASE_CONTROL_PLANE_PASSWORD_FILE",
        "DATABASE_MIN_CONNECTIONS_CONTROL_PLANE", "DATABASE_MAX_CONNECTIONS_CONTROL_PLANE",
        "REDIS_MAX_CONNECTIONS_CONTROL_PLANE", "API_KEY_PEPPER_RING_FILE",
        "SESSION_SECRET_FILE", "CSRF_SECRET_RING_FILE"}

\* Values that compose.yaml writes out instead of interpolating them.
Pinned ==
  Merge([HTTP_PORT |-> 8080, DATABASE_HOST |-> "postgres"],
        [n \in {s[1] : s \in deploymentSecretFiles} |->
           RunSecret((CHOOSE s \in deploymentSecretFiles : s[1] = n)[2])])

\* The defaults of the interpolations: the d of ${NAME:-d}.
Default ==
  [NEXUSRELAY_ENV |-> "development", NEXUSRELAY_VERSION |-> "dev",
   PUBLIC_API_BASE_URL |-> LocalPublicURL, ADMIN_BASE_URL |-> LocalAdminURL,
   ADMIN_ORIGINS |-> <<LocalAdminURL>>, TRUSTED_PROXY_CIDRS |-> Empty,
   PUBLIC_API_HOST |-> Localhost, ADMIN_HOST |-> Localhost,
   TLS_MODE |-> "disabled", ACME_EMAIL |-> Empty, ACME_DNS_PROVIDER |-> Empty,
   POSTGRES_DB |-> "nexusrelay", DATABASE_NAME |-> "nexusrelay", DATABASE_PORT |-> 5432,
   HTTP_BIND_ADDRESS |-> "0.0.0.0", DATABASE_SSLMODE |-> "disable",
   DATABASE_GATEWAY_USER |-> "nexusrelay_gateway", DATABASE_WORKER_USER |-> "nexusrelay_worker",
   DATABASE_CONTROL_PLANE_USER |-> "nexusrelay_control_plane",
   DATABASE_STATEMENT_TIMEOUT |-> 30000, DATABASE_TRANSACTION_TIMEOUT |-> 30000,
   DATABASE_MIN_CONNECTIONS_GATEWAY |-> 2, DATABASE_MAX_CONNECTIONS_GATEWAY |-> 30,
   DATABASE_MIN_CONNECTIONS_CONTROL_PLANE |-> 2, DATABASE_MAX_CONNECTIONS_CONTROL_PLANE |-> 20,
   DATABASE_MIN_CONNECTIONS_WORKER |-> 2, DATABASE_MAX_CONNECTIONS_WORKER |-> 10,
   REDIS_MAX_CONNECTIONS_GATEWAY |-> 50, REDIS_MAX_CONNECTIONS_CONTROL_PLANE |-> 20,
   REDIS_MAX_CONNECTIONS_WORKER |-> 20,
   DEPENDENCY_STARTUP_TIMEOUT |-> 60000, DEPENDENCY_PROBE_TIMEOUT |-> 3000,
   DEPENDENCY_PROBE_INTERVAL |-> 5000, DEPENDENCY_RETRY_MIN_DELAY |-> 100,
   DEPENDENCY_RETRY_MAX_DELAY |-> 2000, LOG_LEVEL |-> "info", LOG_FORMAT |-> "json",
   METRICS_ENABLED |-> TRUE, OTEL_ENABLED |-> FALSE, OTEL_EXPORTER_OTLP_ENDPOINT |-> Empty,
   SHUTDOWN_GRACE_PERIOD |-> 30000]

\* A text of a strict syntax that compose would read as something else is not
\* in that syntax: the parsers take no quote, no comment and no $.
Foreign(name, text) ==
  IF name = "TRUSTED_PROXY_CIDRS" THEN text # Empty /\ \E i \in DOMAIN text : text[i] = Malformed
  ELSE text = Malformed
ASSUME EditsAssumption ==
  \A e \in Edits :
    /\ DOMAIN e.read \subseteq DOMAIN e.raw
    /\ \A n \in (DOMAIN e.read \cap DOMAIN Default) \ FreeText : Foreign(n, e.raw[n])

\* ${NAME:-d}: the shell's value, else what dotenv reads in the file; an empty
\* one counts as unset.
interpolate(name) ==
  LET x == value(Merge(shell, Merge(reread, env)), name, Empty)
  IN IF x = Empty THEN Default[name] ELSE x

\* The settings that compose interpolates for a service, and its container's
\* environment.
Interpolated(p) == Passed(p) \ DOMAIN Pinned
ComposeEnv(p) ==
  [n \in Passed(p) |-> IF n \in Interpolated(p) THEN interpolate(n) ELSE Pinned[n]]

\* The secrets that publish.sh puts in a service's volume.
Mounted(p) ==
  LET names == {"redis_url", "provider_master_keyring", databaseSettings(p).password}
               \cup (IF p = "worker" THEN {} ELSE {"api_key_pepper_ring"})
               \cup (IF p = "control-plane" THEN {"session_secret", "csrf_secret_ring"} ELSE {})
  IN Files("/run/secrets", [n \in names |-> secrets[n]])

\* validate_host of the proxy's entrypoint.
validate_host(name) == interpolate(name)[1] \notin NonDNS

\* The checks a container's program makes of its configuration before it
\* serves: the services' parsers, the checks of 10-nexusrelay-roles.sh, of
\* migrate/entrypoint.sh, of redis/entrypoint.sh and of traefik/entrypoint.sh.
Starts(c) ==
  \/ c \in Services /\ Parse(c, ComposeEnv(c), Mounted(c))
  \/ c = "postgres" /\ interpolate("POSTGRES_DB") = "nexusrelay"
                    /\ interpolate("DATABASE_NAME") = "nexusrelay"
  \/ c = "migrate" /\ interpolate("DATABASE_NAME") = "nexusrelay"
                   /\ interpolate("DATABASE_PORT") \in 1 .. MaxPort
  \/ c = "redis" /\ secrets["redis_password"] \notin {Malformed, "short"}
  \/ /\ c = "proxy"
     /\ validate_host("PUBLIC_API_HOST") /\ validate_host("ADMIN_HOST")
     /\ interpolate("TLS_MODE") \in {"disabled", "acme"}
     /\ interpolate("TLS_MODE") = "acme" =>
          /\ interpolate("ACME_DNS_PROVIDER") = "cloudflare"
          /\ interpolate("ACME_EMAIL") \notin {Empty, Malformed}

\* compose starts every container; each judges its own configuration.
Up ==
  /\ verdict = "accepted"
  /\ \A c \in Components : status[c] = "absent"
  /\ status' = [c \in Components |-> IF Starts(c) THEN "running" ELSE "refused"]
  /\ UNCHANGED <<env, reread, shell, secrets, edits, profile, verdict>>

\* The deployment is decided.
Settled ==
  /\ verdict = "refused" \/ \A c \in Components : status[c] # "absent"
  /\ UNCHANGED vars

Next == Edit \/ Validate \/ Up \/ Settled

Spec == Init /\ [][Next]_vars

(***************************************************************************)
(* Properties                                                              *)
(***************************************************************************)

Production == interpolate("NEXUSRELAY_ENV") = "production"

\* The configurations that the preflight accepts and a container refuses.
KnownRefusal(c) ==
  \/ c = "control-plane" /\ Production
  \/ c \in {"postgres", "migrate"} /\ value(env, "DATABASE_NAME", "nexusrelay") # "nexusrelay"
  \/ c = "proxy" /\ \/ value(env, "TLS_MODE", "disabled") \in
                         IF value(env, "ENABLE_CLOUDFLARE_TUNNEL", FALSE) THEN {"files"} ELSE {"files", "acme"}
                    \/ profile = "core" /\ value(env, "TLS_MODE", "disabled") # "disabled"
                    \/ value(env, "PUBLIC_API_HOST", Localhost)[1] \in NonDNS
                    \/ value(env, "ADMIN_HOST", Localhost)[1] \in NonDNS

\* The interpolated settings that a container's program looks at.
Reads(c) ==
  IF c \in Services THEN Interpolated(c)
  ELSE IF c = "postgres" THEN {"POSTGRES_DB", "DATABASE_NAME"}
  ELSE IF c = "migrate" THEN {"DATABASE_NAME", "DATABASE_PORT"}
  ELSE IF c = "proxy"
    THEN {"PUBLIC_API_HOST", "ADMIN_HOST", "TLS_MODE", "ACME_DNS_PROVIDER", "ACME_EMAIL"}
  ELSE {}

\* Compose has another value than the file: the shell's, or dotenv's reading of
\* a free text.
Altered(n) == n \in DOMAIN shell \/ n \in FreeText \cap DOMAIN reread

\* The preflight and the programs parse by different functions, from
\* differently filtered environments.  When the preflight has accepted a
\* deployment, no gateway, worker or Redis refuses to start and the others
\* refuse only for the reasons listed in KnownRefusal, unless a setting they
\* look at is altered between the file and the container.  A setting of a
\* strict syntax is never altered by its text: the preflight refuses it.
PreflightCovers ==
  \A c \in Components :
    status[c] = "refused" => KnownRefusal(c) \/ \E n \in Reads(c) : Altered(n)

\* ValuesForProcess gives each parser only the settings the inventory lists
\* for its process.  None of the settings it drops would have changed the
\* verdict: the parser decides the same on the whole file (without the
\* command-only settings that a service's environment may not hold).
FilterIsComplete ==
  \A p \in Processes :
    LET whole == IF p \in Services
                 THEN [n \in DOMAIN env \ BootstrapOnly |-> env[n]] ELSE env
        w == ResolveDeploymentSecretRoot(whole)
    IN DOMAIN env \subseteq Inventory /\ ValidateDevSecrets(secrets)
         => (Parse(p, ValuesForProcess(w, p), PreflightFiles) <=> Parse(p, w, PreflightFiles))

\* dependency.Run rejects a policy that ReadinessPolicy.validate refuses.  A
\* service whose settings were parsed never meets that: the policy its main
\* builds is valid, and one probe fits into the startup timeout.
PoliciesAreValid ==
  \A p \in Services : status[p] = "running" =>
    LET r == readinessPolicy(ComposeEnv(p))
    IN /\ r.probeInterval > 0
       /\ 0 < r.probeTimeout /\ r.probeTimeout < r.startupTimeout
       /\ 0 < r.retryMinimum /\ r.retryMinimum <= r.retryMaximum

\* What was validated is what runs: a running service reads every setting of
\* the file that compose passes on with the very value the preflight judged,
\* also when the file writes it in quotes, with a comment or empty; only the
\* shell's exports and the free texts can come between (envfile.go:18-19,
\* deploy/local-core.sh:28).
ValidatedIsWhatRuns ==
  \A p \in Services : status[p] = "running" =>
    \A n \in DOMAIN env \cap Interpolated(p) : ComposeEnv(p)[n] = env[n] \/ Altered(n)
=============================================================================
