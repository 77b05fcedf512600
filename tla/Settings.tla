------------------------------ MODULE Settings ------------------------------
(***************************************************************************)
(* The typed settings of NexusRelay (internal/config/config.go).  An       *)
(* environment v is a function from names to values; each parse function   *)
(* of the source is the predicate "v is accepted" of the same name, with   *)
(* the limits and the fallbacks written where the source writes them.      *)
(*                                                                         *)
(* A number or a duration is the number its text denotes (durations in     *)
(* milliseconds, the session's in seconds).  A URL is a record [scheme,    *)
(* host, path, rest], host being <<name, spelling, port>> and rest what    *)
(* userinfo, query and fragment it has.  A list is a sequence.  A text     *)
(* that the setting's syntax refuses is Malformed.                         *)
(***************************************************************************)
EXTENDS SecretReaders

CONSTANT HostPrefixed     \* the cookie names that begin with __Host-

\* The texts that the code writes out are neither empty nor malformed, and
\* Empty and Malformed are no numbers and no Booleans.
Texts ==
  {"development", "test", "production", "dev", "0.0.0.0", "debug", "info", "warn", "error",
   "json", "text", "disable", "require", "verify-ca", "verify-full", "postgres", "nexusrelay",
   "nexusrelay_gateway", "nexusrelay_control_plane", "nexusrelay_worker",
   "nexusrelay_session", "NEXUSRELAY_API_KEY", "NexusRelay", "disabled", "files", "acme"}
ASSUME TextsAssumption ==
  \A x \in {Empty, Malformed} : x \notin Texts /\ x \notin Int /\ x \notin BOOLEAN

Services  == {"gateway", "control-plane", "worker"}
Processes == Services \cup {"bootstrap", "deployment"}

Millisecond == 1
Second == 1000
Minute == 60 * Second
Hour   == 60 * Minute
Day    == 24 * Hour

MaxPort == 65535

(***************************************************************************)
(* Reading one setting                                                     *)
(***************************************************************************)

\* A bug: an empty value is replaced by the fallback.
valueUnlessEmpty(v, name, fallback) ==
  IF name \in DOMAIN v /\ v[name] # Empty THEN v[name] ELSE fallback

\* value: an empty value that is present is used as it is.
value(v, name, fallback) == IF name \in DOMAIN v THEN v[name] ELSE fallback

\* duration, integer and int64Value.
inRange(v, name, fallback, min, max) ==
  LET x == value(v, name, fallback) IN x \notin {Empty, Malformed} /\ x \in min .. max

boolean(v, name, fallback) == value(v, name, fallback) \in BOOLEAN

\* cleanNonempty; also the patterns and parsers that a text must match.
clean(v, name, fallback) == value(v, name, fallback) \notin {Empty, Malformed}

\* requiredText.
requiredText(v, name) == clean(v, name, Empty)

\* absoluteURL.
absoluteURL(u) ==
  /\ u \notin {Empty, Malformed}
  /\ u.scheme \in {"http", "https"}
  /\ u.host # Empty

\* originURL, which also drops a path of "/".
originURL(u) ==
  /\ absoluteURL(u)
  /\ u.rest = {}
  /\ u.path \in {Empty, "/"}

\* URL.String() of what originURL returns: hosts keep their spelling.
Origin(u) == <<u.scheme, u.host>>

EqualFold(host, name) ==
  IF name = Empty THEN host[1] = Empty ELSE host[1] = name[1]

Localhost      == <<"localhost", "lower", 8080>>
LocalAdminURL  == [scheme |-> "http", host |-> Localhost, path |-> Empty, rest |-> {}]
LocalPublicURL == [LocalAdminURL EXCEPT !.path = "/v1"]

RunSecret(file) == <<"/run/secrets", file>>

\* The path a *_FILE setting names; RunSecret(file) unless it is set.
requiredPath(v, name, file) == value(v, name, RunSecret(file))

isProductionGrade(v) == value(v, "NEXUSRELAY_ENV", "development") = "production"

validateEnvironment(v) ==
  value(v, "NEXUSRELAY_ENV", "development") \in {"development", "test", "production"}

(***************************************************************************)
(* The inventory of settings and who consumes each                         *)
(***************************************************************************)

BootstrapOnly ==
  {"BOOTSTRAP_OWNER_EMAIL", "BOOTSTRAP_OWNER_NAME", "BOOTSTRAP_ORGANIZATION_NAME",
   "BOOTSTRAP_ORGANIZATION_SLUG", "BOOTSTRAP_PASSWORD_FILE"}

\* The inventory's rows: sets of consumers and the names they consume.
InventoryRows ==
  { <<Processes, {"NEXUSRELAY_ENV", "NEXUSRELAY_VERSION", "DATABASE_NAME", "DATABASE_SSLMODE"}>>,
    <<Processes \ {"deployment"},
      {"DATABASE_HOST", "DATABASE_PORT", "DATABASE_STATEMENT_TIMEOUT",
       "DATABASE_TRANSACTION_TIMEOUT", "LOG_LEVEL", "LOG_FORMAT"}>>,
    <<Processes \ {"bootstrap"},
      {"HTTP_BIND_ADDRESS", "HTTP_PORT", "REDIS_URL_FILE", "SHUTDOWN_GRACE_PERIOD"}>>,
    <<Services,
      {"DEPENDENCY_STARTUP_TIMEOUT", "DEPENDENCY_PROBE_TIMEOUT", "DEPENDENCY_PROBE_INTERVAL",
       "DEPENDENCY_RETRY_MIN_DELAY", "DEPENDENCY_RETRY_MAX_DELAY", "MASTER_KEYRING_FILE",
       "METRICS_ENABLED", "OTEL_ENABLED", "OTEL_EXPORTER_OTLP_ENDPOINT"}>>,
    <<{"gateway", "control-plane", "deployment"}, {"PUBLIC_API_BASE_URL", "TRUSTED_PROXY_CIDRS"}>>,
    <<{"control-plane", "deployment"}, {"ADMIN_BASE_URL", "ADMIN_ORIGINS"}>>,
    <<{"deployment"},
      {"PUBLIC_API_HOST", "ADMIN_HOST", "ADMIN_EXPOSURE_MODE", "HTTPS_PORT", "TLS_MODE",
       "TLS_CERT_FILE", "TLS_KEY_FILE", "ACME_EMAIL", "ACME_DNS_PROVIDER",
       "ACME_DNS_API_TOKEN_FILE", "POSTGRES_DB", "POSTGRES_USER", "POSTGRES_PASSWORD_FILE",
       "DATABASE_MIGRATION_USER", "DATABASE_MIGRATION_PASSWORD_FILE", "REDIS_PASSWORD_FILE",
       "ENABLE_CLOUDFLARE_TUNNEL", "CLOUDFLARE_TUNNEL_ID",
       "CLOUDFLARE_TUNNEL_CREDENTIALS_FILE", "ENABLE_TAILSCALE_PRIVATE_ADMIN"}>>,
    <<{"gateway", "deployment"}, {"DATABASE_GATEWAY_USER", "DATABASE_GATEWAY_PASSWORD_FILE"}>>,
    <<{"control-plane", "bootstrap", "deployment"},
      {"DATABASE_CONTROL_PLANE_USER", "DATABASE_CONTROL_PLANE_PASSWORD_FILE"}>>,
    <<{"worker", "deployment"}, {"DATABASE_WORKER_USER", "DATABASE_WORKER_PASSWORD_FILE"}>>,
    <<{"gateway", "control-plane"}, {"API_KEY_PEPPER_RING_FILE"}>>,
    <<{"gateway"},
      {"DATABASE_MIN_CONNECTIONS_GATEWAY", "DATABASE_MAX_CONNECTIONS_GATEWAY",
       "REDIS_MAX_CONNECTIONS_GATEWAY", "REQUEST_BODY_MAX_BYTES", "UPSTREAM_CONNECT_TIMEOUT",
       "UPSTREAM_FIRST_BYTE_TIMEOUT", "UPSTREAM_IDLE_TIMEOUT", "MAX_UPSTREAM_ATTEMPTS"}>>,
    <<{"gateway", "worker"}, {"UPSTREAM_TOTAL_TIMEOUT"}>>,
    <<{"control-plane", "bootstrap"},
      {"DATABASE_MIN_CONNECTIONS_CONTROL_PLANE", "DATABASE_MAX_CONNECTIONS_CONTROL_PLANE",
       "PASSWORD_ARGON2_MEMORY_KIB", "PASSWORD_ARGON2_ITERATIONS", "PASSWORD_ARGON2_PARALLELISM"}>>,
    <<{"control-plane"},
      {"REDIS_MAX_CONNECTIONS_CONTROL_PLANE", "SESSION_SECRET_FILE", "CSRF_SECRET_RING_FILE",
       "SESSION_COOKIE_NAME", "SESSION_IDLE_TTL", "SESSION_ABSOLUTE_TTL",
       "SESSION_LAST_SEEN_WRITE_INTERVAL", "AGENT_API_KEY_ENV", "OPENCODE_PROVIDER_ID",
       "OPENCODE_PROVIDER_NAME"}>>,
    <<{"worker"},
      {"DATABASE_MIN_CONNECTIONS_WORKER", "DATABASE_MAX_CONNECTIONS_WORKER",
       "REDIS_MAX_CONNECTIONS_WORKER", "REQUEST_RETENTION_DAYS", "AUDIT_RETENTION_DAYS",
       "HEALTH_OBSERVATION_RETENTION_DAYS", "PROCESSED_OUTBOX_RETENTION_DAYS",
       "ANALYTICS_TARGET_LAG", "STALE_REQUEST_RECONCILIATION_INTERVAL", "WORKER_CONCURRENCY",
       "OUTBOX_LEASE_DURATION", "OUTBOX_RETRY_BASE_DELAY", "OUTBOX_RETRY_MAX_DELAY",
       "HEALTH_PROBE_INTERVAL", "HEALTH_FAST_WINDOW", "HEALTH_STABILIZING_WINDOW",
       "HEALTH_MIN_SAMPLES", "HEALTH_POLICY_VERSION", "RETENTION_BATCH_SIZE",
       "HEALTH_UNAVAILABLE_ENTRY_THRESHOLD_BPS", "HEALTH_UNAVAILABLE_EXIT_THRESHOLD_BPS",
       "HEALTH_CONSECUTIVE_FAILURES", "HEALTH_CONSECUTIVE_SUCCESSES"}>>,
    <<{"bootstrap"}, BootstrapOnly>>,
    <<{}, {"TAILSCALE_AUTH_KEY_FILE", "TAILSCALE_STATE_DIR", "TAILSCALE_HOSTNAME",
           "PRIVATE_INGRESS_SUBNET", "PRIVATE_TRAEFIK_IP", "PRIVATE_DNS_IP",
           "TAILSCALE_ADVERTISE_ROUTES"}>> }

Inventory   == UNION {row[2] : row \in InventoryRows}
Consumed(p) == UNION {row[2] : row \in {r \in InventoryRows : p \in r[1]}}

\* Names outside the inventory that preflight refuses: the obsolete settings,
\* and those with an owned prefix, of which the revision compose uses is one.
Refused == {"CSRF_SECRET_FILE", "DATABASE_USER", "DATABASE_PASSWORD_FILE",
            "SHARED_DATABASE_PASSWORD_FILE", "NEXUSRELAY_REVISION"}

preflight(v, p) ==
  /\ DOMAIN v \cap Refused = {}
  /\ p \in Services => DOMAIN v \cap BootstrapOnly = {}

\* A bug: the filter lets only the settings of one consumer through.
ValuesForProcessSole(v, p) ==
  [n \in {m \in DOMAIN v \cap Consumed(p) : \A q \in Processes \ {p} : m \notin Consumed(q)} |-> v[n]]

\* ValuesForProcess (envfile.go).
ValuesForProcess(v, p) == [n \in DOMAIN v \cap Consumed(p) |-> v[n]]

(***************************************************************************)
(* What several processes parse                                            *)
(***************************************************************************)

parseLogging(v) ==
  /\ value(v, "LOG_LEVEL", "info") \in {"debug", "info", "warn", "error"}
  /\ value(v, "LOG_FORMAT", "json") \in {"json", "text"}

parseObservability(v) ==
  LET endpoint == value(v, "OTEL_EXPORTER_OTLP_ENDPOINT", Empty)
  IN /\ parseLogging(v)
     /\ boolean(v, "METRICS_ENABLED", TRUE)
     /\ boolean(v, "OTEL_ENABLED", FALSE)
     /\ endpoint # Empty => absoluteURL(endpoint) /\ endpoint.rest = {}
     /\ value(v, "OTEL_ENABLED", FALSE) => endpoint # Empty

parseHTTP(v) ==
  /\ clean(v, "HTTP_BIND_ADDRESS", "0.0.0.0")
  /\ inRange(v, "HTTP_PORT", 8080, 1, MaxPort)
  /\ inRange(v, "SHUTDOWN_GRACE_PERIOD", 30 * Second, Second, 5 * Minute)

parseServiceCommon(v) ==
  /\ validateEnvironment(v)
  /\ clean(v, "NEXUSRELAY_VERSION", "dev")
  /\ parseHTTP(v)
  /\ parseObservability(v)

parseDatabaseSSLMode(v) ==
  /\ value(v, "DATABASE_SSLMODE", "disable") \in {"disable", "require", "verify-ca", "verify-full"}
  /\ isProductionGrade(v) => value(v, "DATABASE_SSLMODE", "disable") # "disable"

\* The databaseProcessSettings of a service (the bootstrap command uses the
\* control plane's), and defaultPasswordPath.
databaseSettings(p) ==
  IF p = "gateway"
    THEN [userSetting |-> "DATABASE_GATEWAY_USER", user |-> "nexusrelay_gateway",
          passwordSetting |-> "DATABASE_GATEWAY_PASSWORD_FILE",
          password |-> "postgres_gateway_password",
          minSetting |-> "DATABASE_MIN_CONNECTIONS_GATEWAY",
          maxSetting |-> "DATABASE_MAX_CONNECTIONS_GATEWAY", defaultMax |-> 30]
  ELSE IF p = "worker"
    THEN [userSetting |-> "DATABASE_WORKER_USER", user |-> "nexusrelay_worker",
          passwordSetting |-> "DATABASE_WORKER_PASSWORD_FILE",
          password |-> "postgres_worker_password",
          minSetting |-> "DATABASE_MIN_CONNECTIONS_WORKER",
          maxSetting |-> "DATABASE_MAX_CONNECTIONS_WORKER", defaultMax |-> 10]
  ELSE [userSetting |-> "DATABASE_CONTROL_PLANE_USER", user |-> "nexusrelay_control_plane",
        passwordSetting |-> "DATABASE_CONTROL_PLANE_PASSWORD_FILE",
        password |-> "postgres_control_plane_password",
        minSetting |-> "DATABASE_MIN_CONNECTIONS_CONTROL_PLANE",
        maxSetting |-> "DATABASE_MAX_CONNECTIONS_CONTROL_PLANE", defaultMax |-> 20]

parseDatabase(v, files, s) ==
  /\ clean(v, "DATABASE_NAME", "nexusrelay")
  /\ clean(v, "DATABASE_HOST", "postgres")
  /\ inRange(v, "DATABASE_PORT", 5432, 1, MaxPort)
  /\ parseDatabaseSSLMode(v)
  /\ inRange(v, "DATABASE_STATEMENT_TIMEOUT", 30 * Second, Millisecond, 30 * Minute)
  /\ inRange(v, "DATABASE_TRANSACTION_TIMEOUT", 30 * Second, Millisecond, 30 * Minute)
  /\ value(v, s.userSetting, s.user) = s.user
  /\ inRange(v, s.minSetting, 2, 0, 10000)
  /\ inRange(v, s.maxSetting, s.defaultMax, 1, 10000)
  /\ value(v, s.minSetting, 2) <= value(v, s.maxSetting, s.defaultMax)
  /\ ReadSimpleSecret(files, requiredPath(v, s.passwordSetting, s.password))

parseRedis(v, files, maxSetting, defaultMax) ==
  /\ ReadURISecret(files, requiredPath(v, "REDIS_URL_FILE", "redis_url"), {"redis", "rediss"})
  /\ inRange(v, maxSetting, defaultMax, 1, 10000)

\* A bug: the two delays are not compared.
parseDependencyReadinessUnordered(v) ==
  /\ inRange(v, "DEPENDENCY_STARTUP_TIMEOUT", 60 * Second, Second, 10 * Minute)
  /\ inRange(v, "DEPENDENCY_PROBE_TIMEOUT", 3 * Second, 100, Minute)
  /\ inRange(v, "DEPENDENCY_PROBE_INTERVAL", 5 * Second, Second, Minute)
  /\ inRange(v, "DEPENDENCY_RETRY_MIN_DELAY", 100, 10, Minute)
  /\ inRange(v, "DEPENDENCY_RETRY_MAX_DELAY", 2 * Second, 10, Minute)
  /\ value(v, "DEPENDENCY_PROBE_TIMEOUT", 3 * Second) < value(v, "DEPENDENCY_STARTUP_TIMEOUT", 60 * Second)

parseDependencyReadiness(v) ==
  /\ inRange(v, "DEPENDENCY_STARTUP_TIMEOUT", 60 * Second, Second, 10 * Minute)
  /\ inRange(v, "DEPENDENCY_PROBE_TIMEOUT", 3 * Second, 100, Minute)
  /\ inRange(v, "DEPENDENCY_PROBE_INTERVAL", 5 * Second, Second, Minute)
  /\ inRange(v, "DEPENDENCY_RETRY_MIN_DELAY", 100, 10, Minute)
  /\ inRange(v, "DEPENDENCY_RETRY_MAX_DELAY", 2 * Second, 10, Minute)
  /\ value(v, "DEPENDENCY_PROBE_TIMEOUT", 3 * Second) < value(v, "DEPENDENCY_STARTUP_TIMEOUT", 60 * Second)
  /\ value(v, "DEPENDENCY_RETRY_MIN_DELAY", 100) <= value(v, "DEPENDENCY_RETRY_MAX_DELAY", 2 * Second)

\* The ReadinessPolicy that a service's main builds from what it parsed.
readinessPolicy(v) ==
  [startupTimeout |-> value(v, "DEPENDENCY_STARTUP_TIMEOUT", 60 * Second),
   probeTimeout   |-> value(v, "DEPENDENCY_PROBE_TIMEOUT", 3 * Second),
   probeInterval  |-> value(v, "DEPENDENCY_PROBE_INTERVAL", 5 * Second),
   retryMinimum   |-> value(v, "DEPENDENCY_RETRY_MIN_DELAY", 100),
   retryMaximum   |-> value(v, "DEPENDENCY_RETRY_MAX_DELAY", 2 * Second)]

parsePublicAPIURL(v) ==
  LET public == value(v, "PUBLIC_API_BASE_URL", LocalPublicURL)
  IN /\ absoluteURL(public)
     /\ public.path = "/v1" /\ public.rest = {}
     /\ isProductionGrade(v) => public.scheme = "https"

\* parseOrigins: at least one, each an origin, no two alike.
parseOrigins(origins) ==
  /\ origins # Empty
  /\ \A i \in DOMAIN origins :
       /\ originURL(origins[i])
       /\ \A j \in 1 .. (i - 1) : Origin(origins[j]) # Origin(origins[i])

\* parseNamedCIDRs.
parseCIDRs(cidrs) ==
  cidrs # Empty => \A i \in DOMAIN cidrs : cidrs[i] \notin {Empty, Malformed}

validateAdminOrigins(v) ==
  LET admin   == value(v, "ADMIN_BASE_URL", LocalAdminURL)
      origins == value(v, "ADMIN_ORIGINS", <<LocalAdminURL>>)
  IN /\ \E i \in DOMAIN origins : Origin(origins[i]) = Origin(admin)
     /\ isProductionGrade(v) => \A i \in DOMAIN origins : origins[i].scheme = "https"

\* ADMIN_BASE_URL and ADMIN_ORIGINS, which the control plane and the
\* deployment parse by the same calls.
parseAdminURLs(v) ==
  LET admin == value(v, "ADMIN_BASE_URL", LocalAdminURL)
  IN /\ originURL(admin)
     /\ isProductionGrade(v) => admin.scheme = "https"
     /\ parseOrigins(value(v, "ADMIN_ORIGINS", <<LocalAdminURL>>))
     /\ validateAdminOrigins(v)

parseGatewayEndpoints(v) ==
  /\ parsePublicAPIURL(v)
  /\ parseCIDRs(value(v, "TRUSTED_PROXY_CIDRS", Empty))

parseControlPlaneEndpoints(v) ==
  /\ parsePublicAPIURL(v)
  /\ parseAdminURLs(v)
  /\ parseCIDRs(value(v, "TRUSTED_PROXY_CIDRS", Empty))

(***************************************************************************)
(* The policies of the single processes                                    *)
(***************************************************************************)

\* parsePasswordPolicy: Argon2 wants eight KiB of memory per lane.
parsePasswordPolicy(v) ==
  /\ inRange(v, "PASSWORD_ARGON2_MEMORY_KIB", 65536, 8, 4 * 1024 * 1024)
  /\ inRange(v, "PASSWORD_ARGON2_ITERATIONS", 3, 1, 100)
  /\ inRange(v, "PASSWORD_ARGON2_PARALLELISM", 2, 1, 255)
  /\ value(v, "PASSWORD_ARGON2_MEMORY_KIB", 65536) >= 8 * value(v, "PASSWORD_ARGON2_PARALLELISM", 2)

CookieName(v) == value(v, "SESSION_COOKIE_NAME", "nexusrelay_session")

\* parseSessionPolicy; its durations are in seconds.
parseSessionPolicy(v, files) ==
  LET hour == 3600
      idle == value(v, "SESSION_IDLE_TTL", 12 * hour)
  IN /\ inRange(v, "SESSION_IDLE_TTL", 12 * hour, 60, 30 * 24 * hour)
     /\ inRange(v, "SESSION_ABSOLUTE_TTL", 168 * hour, 60, 365 * 24 * hour)
     /\ inRange(v, "SESSION_LAST_SEEN_WRITE_INTERVAL", 300, 1, idle)
     /\ idle <= value(v, "SESSION_ABSOLUTE_TTL", 168 * hour)
     /\ CookieName(v) \notin {Empty, Malformed}
     /\ parsePasswordPolicy(v)
     /\ ReadBase64Key(files, requiredPath(v, "SESSION_SECRET_FILE", "session_secret"))
     /\ ReadKeyRing(files, requiredPath(v, "CSRF_SECRET_RING_FILE", "csrf_secret_ring"))

parseGatewayPolicy(v) ==
  LET total == value(v, "UPSTREAM_TOTAL_TIMEOUT", 10 * Minute)
  IN /\ inRange(v, "REQUEST_BODY_MAX_BYTES", 10485760, 1, 1024 * 1024 * 1024)
     /\ inRange(v, "UPSTREAM_CONNECT_TIMEOUT", 10 * Second, Millisecond, 10 * Minute)
     /\ inRange(v, "UPSTREAM_FIRST_BYTE_TIMEOUT", 60 * Second, Millisecond, 30 * Minute)
     /\ inRange(v, "UPSTREAM_IDLE_TIMEOUT", 60 * Second, Millisecond, 30 * Minute)
     /\ inRange(v, "UPSTREAM_TOTAL_TIMEOUT", 10 * Minute, Millisecond, 24 * Hour)
     /\ value(v, "UPSTREAM_CONNECT_TIMEOUT", 10 * Second) <= total
     /\ value(v, "UPSTREAM_FIRST_BYTE_TIMEOUT", 60 * Second) <= total
     /\ value(v, "UPSTREAM_IDLE_TIMEOUT", 60 * Second) <= total
     /\ inRange(v, "MAX_UPSTREAM_ATTEMPTS", 3, 1, 20)

\* parseWorkerPolicy: retention, outbox and health settings.
parseWorkerPolicy(v) ==
  /\ inRange(v, "REQUEST_RETENTION_DAYS", 90, 1, 36500)
  /\ inRange(v, "AUDIT_RETENTION_DAYS", 365, 1, 36500)
  /\ inRange(v, "HEALTH_OBSERVATION_RETENTION_DAYS", 14, 1, 36500)
  /\ inRange(v, "PROCESSED_OUTBOX_RETENTION_DAYS", 7, 1, 36500)
  /\ inRange(v, "ANALYTICS_TARGET_LAG", 5 * Minute, Second, 24 * Hour)
  /\ inRange(v, "STALE_REQUEST_RECONCILIATION_INTERVAL", Minute, Second, 24 * Hour)
  /\ inRange(v, "WORKER_CONCURRENCY", 4, 1, 1024)
  /\ inRange(v, "OUTBOX_LEASE_DURATION", 30 * Second, Second, Hour)
  /\ inRange(v, "OUTBOX_RETRY_BASE_DELAY", Second, Millisecond, Hour)
  /\ inRange(v, "OUTBOX_RETRY_MAX_DELAY", 5 * Minute, Millisecond, 24 * Hour)
  /\ value(v, "OUTBOX_RETRY_BASE_DELAY", Second) <= value(v, "OUTBOX_RETRY_MAX_DELAY", 5 * Minute)
  /\ inRange(v, "HEALTH_PROBE_INTERVAL", Minute, Second, 24 * Hour)
  /\ inRange(v, "HEALTH_FAST_WINDOW", 5 * Minute, Second, 24 * Hour)
  /\ inRange(v, "HEALTH_STABILIZING_WINDOW", 30 * Minute, Second, 7 * Day)
  /\ value(v, "HEALTH_FAST_WINDOW", 5 * Minute) <= value(v, "HEALTH_STABILIZING_WINDOW", 30 * Minute)
  /\ inRange(v, "HEALTH_MIN_SAMPLES", 20, 1, 1000000)
  /\ inRange(v, "HEALTH_POLICY_VERSION", 1, 1, 2147483647)
  /\ inRange(v, "HEALTH_UNAVAILABLE_ENTRY_THRESHOLD_BPS", 5000, 0, 10000)
  /\ inRange(v, "HEALTH_UNAVAILABLE_EXIT_THRESHOLD_BPS", 9000, 0, 10000)
  /\ value(v, "HEALTH_UNAVAILABLE_ENTRY_THRESHOLD_BPS", 5000)
       < value(v, "HEALTH_UNAVAILABLE_EXIT_THRESHOLD_BPS", 9000)
  /\ inRange(v, "HEALTH_CONSECUTIVE_FAILURES", 3, 1, 1000)
  /\ inRange(v, "HEALTH_CONSECUTIVE_SUCCESSES", 3, 1, 1000)
  /\ inRange(v, "RETENTION_BATCH_SIZE", 1000, 1, 100000)
  /\ inRange(v, "UPSTREAM_TOTAL_TIMEOUT", 10 * Minute, Millisecond, 24 * Hour)

parseAgent(v) ==
  /\ clean(v, "AGENT_API_KEY_ENV", "NEXUSRELAY_API_KEY")
  /\ clean(v, "OPENCODE_PROVIDER_ID", "nexusrelay")
  /\ clean(v, "OPENCODE_PROVIDER_NAME", "NexusRelay")

(***************************************************************************)
(* The four processes                                                      *)
(***************************************************************************)

ParseGateway(v, files) ==
  /\ preflight(v, "gateway")
  /\ parseServiceCommon(v)
  /\ parseGatewayEndpoints(v)
  /\ parseDatabase(v, files, databaseSettings("gateway"))
  /\ parseRedis(v, files, "REDIS_MAX_CONNECTIONS_GATEWAY", 50)
  /\ parseDependencyReadiness(v)
  /\ ReadProviderKeyRing(files, requiredPath(v, "MASTER_KEYRING_FILE", "provider_master_keyring"))
  /\ ReadKeyRing(files, requiredPath(v, "API_KEY_PEPPER_RING_FILE", "api_key_pepper_ring"))
  /\ parseGatewayPolicy(v)

ParseControlPlane(v, files) ==
  /\ preflight(v, "control-plane")
  /\ parseServiceCommon(v)
  /\ parseControlPlaneEndpoints(v)
  /\ parseDatabase(v, files, databaseSettings("control-plane"))
  /\ parseRedis(v, files, "REDIS_MAX_CONNECTIONS_CONTROL_PLANE", 20)
  /\ parseDependencyReadiness(v)
  /\ ReadProviderKeyRing(files, requiredPath(v, "MASTER_KEYRING_FILE", "provider_master_keyring"))
  /\ ReadKeyRing(files, requiredPath(v, "API_KEY_PEPPER_RING_FILE", "api_key_pepper_ring"))
  /\ parseSessionPolicy(v, files)
  /\ isProductionGrade(v) => CookieName(v) \in HostPrefixed
  /\ parseAgent(v)

ParseWorker(v, files) ==
  /\ preflight(v, "worker")
  /\ parseServiceCommon(v)
  /\ parseDatabase(v, files, databaseSettings("worker"))
  /\ parseRedis(v, files, "REDIS_MAX_CONNECTIONS_WORKER", 20)
  /\ parseDependencyReadiness(v)
  /\ ReadProviderKeyRing(files, requiredPath(v, "MASTER_KEYRING_FILE", "provider_master_keyring"))
  /\ parseWorkerPolicy(v)

ParseBootstrap(v, files) ==
  /\ preflight(v, "bootstrap")
  /\ validateEnvironment(v)
  /\ clean(v, "NEXUSRELAY_VERSION", "dev")
  /\ parseLogging(v)
  /\ parseDatabase(v, files, databaseSettings("bootstrap"))
  /\ parsePasswordPolicy(v)
  /\ \A n \in BootstrapOnly \ {"BOOTSTRAP_PASSWORD_FILE"} : requiredText(v, n)
  /\ ReadSimpleSecret(files, requiredPath(v, "BOOTSTRAP_PASSWORD_FILE", "bootstrap_password"))

(***************************************************************************)
(* The deployment as a whole                                               *)
(***************************************************************************)

parseEndpoints(v) ==
  LET public == value(v, "PUBLIC_API_BASE_URL", LocalPublicURL)
      admin  == value(v, "ADMIN_BASE_URL", LocalAdminURL)
  IN /\ parsePublicAPIURL(v)
     /\ parseAdminURLs(v)
     /\ EqualFold(public.host, value(v, "PUBLIC_API_HOST", Localhost))
     /\ EqualFold(admin.host, value(v, "ADMIN_HOST", Localhost))
     /\ value(v, "ADMIN_EXPOSURE_MODE", "local") \in {"local", "private", "public"}
     /\ parseCIDRs(value(v, "TRUSTED_PROXY_CIDRS", Empty))

\* parseTLS; files holds the certificate too when it is readable.
parseTLS(v, files) ==
  LET mode == value(v, "TLS_MODE", "disabled")
  IN /\ mode \in {"disabled", "files", "acme"}
     /\ mode = "files" => /\ value(v, "TLS_CERT_FILE", Empty) \in DOMAIN files
                          /\ value(v, "TLS_KEY_FILE", Empty) \in DOMAIN files
     /\ mode = "acme" =>
          /\ clean(v, "ACME_EMAIL", Empty)
          /\ clean(v, "ACME_DNS_PROVIDER", Empty)
          /\ ReadSimpleSecret(files, requiredPath(v, "ACME_DNS_API_TOKEN_FILE", "acme_dns_api_token"))

DatabaseUsers ==
  { <<"POSTGRES_USER", "nexusrelay_cluster_admin">>,
    <<"DATABASE_MIGRATION_USER", "nexusrelay_migration">>,
    <<"DATABASE_GATEWAY_USER", "nexusrelay_gateway">>,
    <<"DATABASE_CONTROL_PLANE_USER", "nexusrelay_control_plane">>,
    <<"DATABASE_WORKER_USER", "nexusrelay_worker">> }

DatabasePasswords ==
  { <<"POSTGRES_PASSWORD_FILE", "postgres_cluster_admin_password">>,
    <<"DATABASE_MIGRATION_PASSWORD_FILE", "postgres_migration_password">>,
    <<"DATABASE_GATEWAY_PASSWORD_FILE", "postgres_gateway_password">>,
    <<"DATABASE_CONTROL_PLANE_PASSWORD_FILE", "postgres_control_plane_password">>,
    <<"DATABASE_WORKER_PASSWORD_FILE", "postgres_worker_password">> }

\* parseDatabaseInventory: fixed users, five files, five passwords.
parseDatabaseInventory(v, files) ==
  LET path(s) == requiredPath(v, s[1], s[2])
  IN /\ value(v, "POSTGRES_DB", "nexusrelay") = value(v, "DATABASE_NAME", "nexusrelay")
     /\ \A u \in DatabaseUsers : value(v, u[1], u[2]) = u[2]
     /\ \A s \in DatabasePasswords : ReadSimpleSecret(files, path(s))
     /\ \A s, t \in DatabasePasswords :
          s # t => path(s) # path(t) /\ files[path(s)] # files[path(t)]
     /\ parseDatabaseSSLMode(v)

\* parseRedisDeployment: the password and the URL are of the same account; the
\* content "short" has fewer than 32 base64url characters.
parseRedisDeployment(v, files) ==
  LET password == requiredPath(v, "REDIS_PASSWORD_FILE", "redis_password")
      uri      == requiredPath(v, "REDIS_URL_FILE", "redis_url")
  IN /\ ReadSimpleSecret(files, password)
     /\ files[password] # "short"
     /\ ReadURISecret(files, uri, {"redis", "rediss"})
     /\ files[uri].user \in {Empty, "default"}
     /\ files[uri].password = files[password]

\* parseCloudflare and validatePublicTunnelHosts.
parseCloudflare(v, files) ==
  LET credentials == requiredPath(v, "CLOUDFLARE_TUNNEL_CREDENTIALS_FILE",
                                  "cloudflare_tunnel_credentials.json")
      public == value(v, "PUBLIC_API_BASE_URL", LocalPublicURL)
  IN /\ boolean(v, "ENABLE_CLOUDFLARE_TUNNEL", FALSE)
     /\ value(v, "ENABLE_CLOUDFLARE_TUNNEL", FALSE) =>
          /\ public.scheme = "https"
          /\ value(v, "TLS_MODE", "disabled") = "acme"
          /\ value(v, "ACME_DNS_PROVIDER", Empty) = "cloudflare"
          /\ ~EqualFold(public.host, value(v, "ADMIN_HOST", Localhost))
          /\ clean(v, "CLOUDFLARE_TUNNEL_ID", Empty)
          /\ ReadCloudflareCredentials(files, credentials)
          /\ files[credentials].tunnelID = value(v, "CLOUDFLARE_TUNNEL_ID", Empty)

parseTailscale(v) == value(v, "ENABLE_TAILSCALE_PRIVATE_ADMIN", FALSE) = FALSE

ParseDeployment(v, files) ==
  /\ preflight(v, "deployment")
  /\ validateEnvironment(v)
  /\ clean(v, "NEXUSRELAY_VERSION", "dev")
  /\ parseEndpoints(v)
  /\ parseHTTP(v)
  /\ inRange(v, "HTTPS_PORT", 8443, 1, MaxPort)
  /\ parseTLS(v, files)
  /\ parseDatabaseInventory(v, files)
  /\ parseRedisDeployment(v, files)
  /\ parseCloudflare(v, files)
  /\ parseTailscale(v)

\* The parser of a process.
Parse(p, v, files) ==
  \/ p = "gateway" /\ ParseGateway(v, files)
  \/ p = "control-plane" /\ ParseControlPlane(v, files)
  \/ p = "worker" /\ ParseWorker(v, files)
  \/ p = "bootstrap" /\ ParseBootstrap(v, files)
  \/ p = "deployment" /\ ParseDeployment(v, files)

\* A bug: the worker's settings are not parsed.
ValidateCompleteNoWorker(v, files) ==
  \A p \in Processes \ {"bootstrap", "worker"} : Parse(p, ValuesForProcess(v, p), files)

\* ValidateComplete (envfile.go); the bootstrap command's settings are not
\* part of it.
ValidateComplete(v, files) ==
  \A p \in Processes \ {"bootstrap"} : Parse(p, ValuesForProcess(v, p), files)
=============================================================================
