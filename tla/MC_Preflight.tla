--------------------------- MODULE MC_Preflight ---------------------------
(* Environments around every limit, two edits apart. *)
EXTENDS Preflight

MCRing == [version |-> 1, expectedEpoch |-> 1, active |-> "k1",
           keys |-> <<[id |-> "k1", key |-> "x"]>>]
MCRedisURL == [scheme |-> "redis", host |-> "redis:6379", path |-> "/0",
               user |-> Empty, password |-> "r"]
MCSecrets ==
  [postgres_cluster_admin_password |-> "p1", postgres_migration_password |-> "p2",
   postgres_gateway_password |-> "p3", postgres_control_plane_password |-> "p4",
   postgres_worker_password |-> "p5", redis_password |-> "r", redis_url |-> MCRedisURL,
   provider_master_keyring |-> MCRing, api_key_pepper_ring |-> MCRing,
   session_secret |-> "s", csrf_secret_ring |-> MCRing]
MCDamages ==
  { [postgres_worker_password |-> "p3"], [redis_password |-> "short"],
    [redis_url |-> [MCRedisURL EXCEPT !.password = "other"]],
    [redis_url |-> [MCRedisURL EXCEPT !.scheme = "rediss"]],
    [session_secret |-> Malformed],
    [api_key_pepper_ring |-> [MCRing EXCEPT !.active = "k2"]],
    [csrf_secret_ring |-> [MCRing EXCEPT !.keys = @ \o @]],
    [provider_master_keyring |-> [MCRing EXCEPT !.expectedEpoch = 0]] }

MCTunnelFile == "cloudflare_tunnel_credentials.json"
MCTunnel == [n \in {"acme_dns_api_token", MCTunnelFile} |->
               IF n = MCTunnelFile
               THEN [accountTag |-> "a", tunnelSecret |-> "t", tunnelID |-> "tunnel"]
               ELSE "token"]

MCCert == <<"/host", "cert.pem">>
MCKey  == <<"/host", "key.pem">>
MCHostFiles == [p \in {MCCert, MCKey, RunSecret("bootstrap_password")} |-> "text"]

MCHost(name) == <<name, "lower", 443>>
MCURL(name)  == [scheme |-> "https", host |-> MCHost(name), path |-> Empty, rest |-> {}]
MCProduction ==
  [NEXUSRELAY_ENV |-> "production", DATABASE_SSLMODE |-> "require",
   PUBLIC_API_BASE_URL |-> [MCURL("api") EXCEPT !.path = "/v1"], PUBLIC_API_HOST |-> MCHost("api"),
   ADMIN_BASE_URL |-> MCURL("admin"), ADMIN_HOST |-> MCHost("admin"),
   ADMIN_ORIGINS |-> <<MCURL("admin")>>, SESSION_COOKIE_NAME |-> "__Host-session"]
MCCloudflare ==
  [ENABLE_CLOUDFLARE_TUNNEL |-> TRUE, TLS_MODE |-> "acme", ACME_EMAIL |-> "ops@admin",
   ACME_DNS_PROVIDER |-> "cloudflare", CLOUDFLARE_TUNNEL_ID |-> "tunnel"]
MCDevelopment == [n \in {} |-> Empty]
MCBases == {MCDevelopment, MCProduction, Merge(MCCloudflare, MCProduction)}

\* Each setting at and just past a limit of its own or of the one it is
\* compared with, empty, and malformed.
MCValues ==
  { <<"NEXUSRELAY_ENV", "production">>, <<"NEXUSRELAY_ENV", "test">>,
    <<"NEXUSRELAY_ENV", Empty>>, <<"NEXUSRELAY_ENV", "staging">>,
    <<"NEXUSRELAY_VERSION", Malformed>>, <<"NEXUSRELAY_VERSION", Empty>>,
    <<"PUBLIC_API_BASE_URL", [LocalPublicURL EXCEPT !.path = "/"]>>,
    <<"PUBLIC_API_BASE_URL", [LocalPublicURL EXCEPT !.rest = {"query"}]>>,
    <<"PUBLIC_API_BASE_URL", Empty>>, <<"ADMIN_BASE_URL", [LocalAdminURL EXCEPT !.path = "/"]>>,
    <<"ADMIN_BASE_URL", [LocalAdminURL EXCEPT !.scheme = "https"]>>,
    <<"ADMIN_ORIGINS", <<LocalAdminURL, LocalAdminURL>>>>,
    <<"ADMIN_ORIGINS", <<LocalAdminURL, MCURL("admin")>>>>, <<"ADMIN_ORIGINS", Empty>>,
    <<"TRUSTED_PROXY_CIDRS", <<"10.0.0.0/8">>>>,
    <<"TRUSTED_PROXY_CIDRS", <<"10.0.0.0/8", Malformed>>>>,
    <<"PUBLIC_API_HOST", <<"localhost", "upper", 0>>>>,
    <<"PUBLIC_API_HOST", <<"my_host", "lower", 0>>>>, <<"ADMIN_EXPOSURE_MODE", "private">>,
    <<"ADMIN_EXPOSURE_MODE", Malformed>>, <<"HTTP_BIND_ADDRESS", Malformed>>, <<"HTTP_PORT", 0>>,
    <<"HTTP_PORT", 65536>>, <<"HTTP_PORT", 9090>>, <<"HTTPS_PORT", 0>>, <<"HTTPS_PORT", 65535>>,
    <<"SHUTDOWN_GRACE_PERIOD", 300000>>, <<"SHUTDOWN_GRACE_PERIOD", 300001>>,
    <<"SHUTDOWN_GRACE_PERIOD", Empty>>, <<"TLS_MODE", "acme">>, <<"TLS_MODE", "none">>,
    <<"POSTGRES_DB", "other">>, <<"DATABASE_NAME", "other">>, <<"DATABASE_NAME", Empty>>,
    <<"DATABASE_PORT", 0>>, <<"DATABASE_PORT", 65535>>, <<"DATABASE_SSLMODE", "disable">>,
    <<"DATABASE_SSLMODE", "verify-full">>, <<"DATABASE_WORKER_USER", "nexusrelay_gateway">>,
    <<"DATABASE_GATEWAY_PASSWORD_FILE", RunSecret("postgres_worker_password")>>,
    <<"DATABASE_GATEWAY_PASSWORD_FILE", Empty>>, <<"DATABASE_MIN_CONNECTIONS_GATEWAY", 0>>,
    <<"DATABASE_MIN_CONNECTIONS_GATEWAY", 31>>, <<"DATABASE_MAX_CONNECTIONS_GATEWAY", 0>>,
    <<"DATABASE_MAX_CONNECTIONS_GATEWAY", 1>>, <<"DATABASE_MAX_CONNECTIONS_GATEWAY", 10000>>,
    <<"DATABASE_MAX_CONNECTIONS_WORKER", 1>>, <<"DATABASE_STATEMENT_TIMEOUT", 0>>,
    <<"DATABASE_STATEMENT_TIMEOUT", 1800000>>, <<"REDIS_MAX_CONNECTIONS_GATEWAY", 0>>,
    <<"DEPENDENCY_STARTUP_TIMEOUT", 1000>>, <<"DEPENDENCY_STARTUP_TIMEOUT", 3000>>,
    <<"DEPENDENCY_STARTUP_TIMEOUT", 600001>>, <<"DEPENDENCY_PROBE_TIMEOUT", 100>>,
    <<"DEPENDENCY_PROBE_TIMEOUT", 3000>>, <<"DEPENDENCY_PROBE_TIMEOUT", 60000>>,
    <<"DEPENDENCY_PROBE_TIMEOUT", Empty>>, <<"DEPENDENCY_RETRY_MIN_DELAY", 10>>,
    <<"DEPENDENCY_RETRY_MIN_DELAY", 2000>>, <<"DEPENDENCY_RETRY_MIN_DELAY", 2001>>,
    <<"DEPENDENCY_RETRY_MAX_DELAY", 10>>, <<"DEPENDENCY_RETRY_MAX_DELAY", 100>>,
    <<"DEPENDENCY_RETRY_MAX_DELAY", 60001>>, <<"SESSION_COOKIE_NAME", "session">>,
    <<"SESSION_COOKIE_NAME", Malformed>>, <<"SESSION_IDLE_TTL", 60>>,
    <<"SESSION_IDLE_TTL", 2592000>>, <<"SESSION_ABSOLUTE_TTL", 60>>,
    <<"SESSION_LAST_SEEN_WRITE_INTERVAL", 43200>>, <<"SESSION_LAST_SEEN_WRITE_INTERVAL", 43201>>,
    <<"PASSWORD_ARGON2_MEMORY_KIB", 8>>, <<"PASSWORD_ARGON2_MEMORY_KIB", 16>>,
    <<"PASSWORD_ARGON2_PARALLELISM", 1>>, <<"PASSWORD_ARGON2_PARALLELISM", 255>>,
    <<"UPSTREAM_TOTAL_TIMEOUT", 1>>, <<"UPSTREAM_TOTAL_TIMEOUT", 60000>>,
    <<"UPSTREAM_CONNECT_TIMEOUT", 60001>>, <<"OUTBOX_RETRY_BASE_DELAY", 300000>>,
    <<"OUTBOX_RETRY_BASE_DELAY", 300001>>, <<"HEALTH_UNAVAILABLE_ENTRY_THRESHOLD_BPS", 8999>>,
    <<"HEALTH_UNAVAILABLE_ENTRY_THRESHOLD_BPS", 9000>>, <<"HEALTH_STABILIZING_WINDOW", 300000>>,
    <<"HEALTH_STABILIZING_WINDOW", 299999>>, <<"WORKER_CONCURRENCY", 1025>>,
    <<"OPENCODE_PROVIDER_ID", Malformed>>, <<"LOG_LEVEL", "trace">>,
    <<"METRICS_ENABLED", Malformed>>, <<"OTEL_ENABLED", TRUE>>,
    <<"OTEL_EXPORTER_OTLP_ENDPOINT", MCURL("otel")>>, <<"ENABLE_TAILSCALE_PRIVATE_ADMIN", TRUE>>,
    <<"CLOUDFLARE_TUNNEL_ID", "other">>, <<"BOOTSTRAP_OWNER_EMAIL", "owner">>,
    <<"NEXUSRELAY_REVISION", "r1">>, <<"DATABASE_USER", "nexusrelay">> }

\* A file for TLS of one's own, and a host name the proxy does not take.
MCGroups ==
  { [TLS_MODE |-> "files", TLS_CERT_FILE |-> MCCert, TLS_KEY_FILE |-> MCKey],
    [PUBLIC_API_HOST |-> MCHost("my_host"),
     PUBLIC_API_BASE_URL |-> [MCURL("my_host") EXCEPT !.path = "/v1"]],
    [POSTGRES_DB |-> "other", DATABASE_NAME |-> "other"],
    [BOOTSTRAP_OWNER_EMAIL |-> "owner@admin", BOOTSTRAP_OWNER_NAME |-> "owner",
     BOOTSTRAP_ORGANIZATION_NAME |-> "org", BOOTSTRAP_ORGANIZATION_SLUG |-> "org"] }

\* Settings in quotes, with a comment behind them or with a $: the text, and
\* what compose reads.
MCQuoted ==
  { [raw |-> [LOG_LEVEL |-> Malformed], read |-> [LOG_LEVEL |-> "debug"]],
    [raw |-> [NEXUSRELAY_ENV |-> Malformed], read |-> [NEXUSRELAY_ENV |-> "production"]],
    [raw |-> [SHUTDOWN_GRACE_PERIOD |-> Malformed], read |-> [SHUTDOWN_GRACE_PERIOD |-> 45000]],
    [raw |-> [DATABASE_PORT |-> Malformed], read |-> [DATABASE_PORT |-> Empty]],
    [raw |-> [OTEL_ENABLED |-> Malformed], read |-> [OTEL_ENABLED |-> TRUE]],
    [raw |-> [TLS_MODE |-> Malformed], read |-> [TLS_MODE |-> "acme"]],
    [raw |-> [TRUSTED_PROXY_CIDRS |-> <<Malformed>>], read |-> [TRUSTED_PROXY_CIDRS |-> Empty]],
    [raw |-> [NEXUSRELAY_VERSION |-> "'v1'"], read |-> [NEXUSRELAY_VERSION |-> "v1"]],
    [raw |-> [NEXUSRELAY_VERSION |-> "''"], read |-> [NEXUSRELAY_VERSION |-> Empty]],
    [raw |-> [DATABASE_NAME |-> "'nexusrelay'", POSTGRES_DB |-> "'nexusrelay'"],
     read |-> [DATABASE_NAME |-> "nexusrelay", POSTGRES_DB |-> "nexusrelay"]],
    [raw |-> [PUBLIC_API_HOST |-> MCHost("$API"),
              PUBLIC_API_BASE_URL |-> [MCURL("$API") EXCEPT !.path = "/v1"]],
     read |-> [PUBLIC_API_HOST |-> MCHost("my_host"),
               PUBLIC_API_BASE_URL |-> [MCURL("my_host") EXCEPT !.path = Empty]]],
    [raw |-> [OTEL_EXPORTER_OTLP_ENDPOINT |-> MCURL("$OTEL")],
     read |-> [OTEL_EXPORTER_OTLP_ENDPOINT |-> Malformed]] }

MCEdits ==
  {[raw |-> x, read |-> MCDevelopment] : x \in {[n \in {y[1]} |-> y[2]] : y \in MCValues} \cup MCGroups}
  \cup MCQuoted

MCExports ==
  { [LOG_LEVEL |-> "trace"], [LOG_LEVEL |-> Empty], [SHUTDOWN_GRACE_PERIOD |-> 300001],
    [DATABASE_NAME |-> "other"], [TLS_MODE |-> "files"], [NEXUSRELAY_ENV |-> "production"] }
=============================================================================
