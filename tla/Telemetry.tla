----------------------------- MODULE Telemetry -----------------------------
(***************************************************************************)
(* The telemetry of a service process: observability.New and Shutdown      *)
(* (internal/observability/observability.go), the HTTP middleware and its  *)
(* statusWriter (http.go) and the redacting log handler (logging.go), as   *)
(* apps/*/main.go puts them together.                                      *)
(*                                                                         *)
(* Every request is served by a goroutine of its own that runs the         *)
(* middleware around a handler.  The handler is any http.Handler that does *)
(* not unwrap the writer with a ResponseController (statusWriter.Unwrap,   *)
(* http.go:97-99, would let it send headers past WriteHeader; none of the  *)
(* repository's does): it writes headers and bodies in any order, returns  *)
(* or panics.  The main goroutine starts telemetry, stops it while         *)
(* handlers that outlived the server may still run, and exits.             *)
(*                                                                         *)
(* The readiness gauges are part of DependencyRun.  net/http, Prometheus,  *)
(* OpenTelemetry and log/slog are external: what is modelled of them is    *)
(* that the first final status written is the one sent, that an increment  *)
(* is atomic, that a record below the minimum level is dropped, and of the *)
(* batching span processor that its queue is bounded and does not block,   *)
(* that a batch the collector does not take is dropped without an error to *)
(* anybody, and that Shutdown drains the queue in the same way.            *)
(***************************************************************************)
EXTENDS Naturals, Sequences, FiniteSets

CONSTANTS
  Reqs,        \* requests
  Methods,     \* the methods clients use
  Paths,       \* the paths clients ask for
  Codes,       \* the status codes handlers use
  Parents,     \* the trace contexts clients send: none, sampled, unsampled
  Settings,    \* the configurations: log level, metrics, tracing
  MaxCalls,    \* bound: calls of WriteHeader and Write by handlers, and log
               \* calls besides the ones of the service itself, together
  QueueSize,   \* the spans that the batcher's queue holds without fail
  NoStatus     \* the client has got no status yet

\* No handler of the repository sends an informational (1xx) status, which
\* statusWriter would record as the final one.
ASSUME CodesAssumption ==
  Codes \subseteq 200..999 /\ 200 \in Codes /\ NoStatus \notin Codes

ASSUME RequestsAssumption == IsFiniteSet(Reqs)

ASSUME QueueAssumption == QueueSize \in Nat \ {0}

\* parseObservability accepts nothing else.
ASSUME SettingsAssumption ==
  Settings \subseteq [level : {"debug", "info", "warn", "error"},
                      metrics : BOOLEAN, otel : BOOLEAN]

VARIABLES
  settings,       \* config.Observability
  run,            \* where main is
  defaultLogger,  \* the logger slog.Error uses: its output and level
  httpMetric,     \* http_requests_total by route and status class
  httpLatency,    \* the number of observations of http_request_duration_seconds
  provider,       \* the trace provider: nil, open or shut
  queue,          \* spans that ended and wait for the batcher
  exported,       \* spans the collector has taken
  lost,           \* spans the batcher gave up: a full queue, a failed export
  req,            \* each request
  output,         \* the log lines written
  calls           \* the calls that MaxCalls bounds

vars == <<settings, run, defaultLogger, httpMetric, httpLatency, provider,
          queue, exported, lost, req, output, calls>>
mainVars == <<settings, run, defaultLogger, provider>>

-----------------------------------------------------------------------------
(* Bounded vocabularies *)

boundedRoute(method, path) ==
  IF method # "GET" THEN "unknown"
  ELSE IF path = "/health/live" THEN "health.live"
  ELSE IF path = "/health/ready" THEN "health.ready"
  ELSE IF path = "/metrics" THEN "metrics"
  ELSE "unknown"

Routes == {boundedRoute(m, p) : m \in Methods, p \in Paths}

\* The status class; 0 stands for "unknown".
boundedStatus(status) == IF status < 100 \/ status > 599 THEN 0 ELSE status \div 100

Classes == 0..5

-----------------------------------------------------------------------------
(* Logging *)

redactedValue == "[REDACTED]"

\* The keys of allowedAttributes that the calls below use.
allowedAttributes == {"route", "status", "duration_ms", "trace_id",
                      "error_message", "operation"}
allowedEvents == {"http.request.completed", "service.stopped",
                  "telemetry.shutdown.failed"}

\* strings.ToLower on the keys used.
Lower(key) == IF key = "Operation" THEN "operation" ELSE key

Flat(key, value) == [key |-> key, valuer |-> FALSE, kind |-> "flat", value |-> value]

\* SafeError: a LogValuer that resolves to a string.
SafeError(text) ==
  [key |-> "error_message", valuer |-> TRUE, kind |-> "flat", value |-> text]

\* A bug: the value is not resolved, so that a LogValuer is of unknown kind.
redactAttributeUnresolved(attr) ==
  IF Lower(attr.key) \notin allowedAttributes \/ attr.valuer \/ attr.kind = "any"
    THEN Flat(attr.key, redactedValue)
    ELSE [attr EXCEPT !.valuer = FALSE]

\* The value is resolved first, and a LogValuer may resolve to a group.  No
\* allowed key contains a forbidden part, so the second test of the code never
\* decides.  A group under an allowed key keeps the attributes inside it.
redactAttribute(attr) ==
  IF Lower(attr.key) \notin allowedAttributes \/ attr.kind = "any"
    THEN Flat(attr.key, redactedValue)
    ELSE [attr EXCEPT !.valuer = FALSE]

redactedEvent(event) == IF event \in allowedEvents THEN event ELSE redactedValue

LevelNumber == [debug |-> 0, info |-> 1, warn |-> 2, error |-> 3]

\* newLogger with an output and a minimum level.
newLogger(sink, level) == [sink |-> sink, level |-> level]

NoLogger == newLogger("none", "error")
runtimeLogger == newLogger("stdout", settings.level)

\* A bug: WithAttrs hands its attributes on unredacted.
WrittenBoundRaw(logger, level, event, with, attrs) ==
  IF LevelNumber[level] < LevelNumber[logger.level] THEN <<>>
  ELSE <<[sink |-> logger.sink, severity |-> level, event |-> redactedEvent(event),
          attrs |-> with \cup {redactAttribute(a) : a \in attrs}]>>

\* Logger.With(with...).Log(level, event, attrs...): the attributes of With
\* are redacted by WithAttrs, the others by Handle, and the built-in keys are
\* renamed.  WithGroup only nests what is logged after it: those attributes pass
\* the same two functions.
Written(logger, level, event, with, attrs) ==
  IF LevelNumber[level] < LevelNumber[logger.level] THEN <<>>
  ELSE <<[sink |-> logger.sink, severity |-> level, event |-> redactedEvent(event),
          attrs |-> {redactAttribute(a) : a \in with \cup attrs}]>>

-----------------------------------------------------------------------------
(* main, New and Shutdown *)

Init ==
  /\ settings \in Settings
  /\ run = "start"
  /\ defaultLogger = NoLogger
  /\ httpMetric = <<>>
  /\ httpLatency = <<>>
  /\ provider = "nil"
  /\ queue = {}
  /\ exported = {}
  /\ lost = {}
  /\ req = [r \in Reqs |->
             [pc |-> "none", route |-> "unknown", parent |-> "none",
              status |-> 200, wroteHeader |-> FALSE,
              wire |-> NoStatus, outlives |-> FALSE]]
  /\ output = <<>>
  /\ calls = 0

InstallBootstrapLogger ==
  /\ run = "start"
  /\ defaultLogger' = newLogger("stderr", "info")
  /\ run' = "new"
  /\ UNCHANGED <<settings, httpMetric, httpLatency, provider, queue, exported, lost, req,
                 output, calls>>

\* configureMetrics registers the vectors empty; nil is a function without
\* any route.
configureMetrics ==
  IF settings.metrics
    THEN /\ httpMetric' = [rc \in Routes \X Classes |-> 0]
         /\ httpLatency' = [r \in Routes |-> 0]
    ELSE UNCHANGED <<httpMetric, httpLatency>>

\* configureTracing returns an error when the exporter cannot start, which
\* needs tracing to be enabled.
New ==
  /\ run = "new"
  /\ \/ /\ run' = "serving"
        /\ provider' = IF settings.otel THEN "open" ELSE "nil"
        /\ configureMetrics
        /\ defaultLogger' = runtimeLogger
     \/ /\ settings.otel
        /\ run' = "failed"
        /\ UNCHANGED <<provider, httpMetric, httpLatency, defaultLogger>>
  /\ UNCHANGED <<settings, queue, exported, lost, req, output, calls>>

\* dependency.Run returns, with or without an error.
Stop ==
  /\ run = "serving"
  /\ run' \in {"stopping", "stoppingFailed"}
  /\ req' = [r \in Reqs |-> [req[r] EXCEPT !.outlives = req[r].pc \notin {"none", "done", "cut"}]]
  /\ UNCHANGED <<settings, defaultLogger, httpMetric, httpLatency, provider, queue,
                 exported, lost, output, calls>>

\* A bug: the provider is shut down without the spans that wait.
ShutdownDiscards ==
  /\ run \in {"stopping", "stoppingFailed"}
  /\ run' = IF run = "stopping" THEN "exit" ELSE "failed"
  /\ provider' = IF provider = "open" THEN "shut" ELSE provider
  /\ queue' = {}
  /\ UNCHANGED <<settings, defaultLogger, httpMetric, httpLatency, exported, lost, req, output, calls>>

\* shutdownTelemetry, deferred in run.  The provider drains its queue, where an
\* export that fails loses its spans and not the nil result, or its deadline of
\* five seconds passes, which alone is an error, while the drain goes on.
Shutdown ==
  /\ run \in {"stopping", "stoppingFailed"}
  /\ run' = IF run = "stopping" THEN "exit" ELSE "failed"
  /\ \/ /\ provider = "nil"
        /\ UNCHANGED <<provider, queue, exported, lost, output>>
     \/ /\ provider = "open"
        /\ provider' = "shut"
        /\ \E taken \in SUBSET queue :
             exported' = exported \cup taken /\ lost' = lost \cup (queue \ taken)
        /\ queue' = {}
        /\ UNCHANGED output
     \/ /\ provider = "open"
        /\ provider' = "shut"
        /\ output' = output \o Written(runtimeLogger, "error", "telemetry.shutdown.failed",
                                       {}, {SafeError("shutdown error")})
        /\ UNCHANGED <<queue, exported, lost>>
  /\ UNCHANGED <<settings, defaultLogger, httpMetric, httpLatency, req, calls>>

\* main reports the error with slog.Error and exits.
Exit ==
  /\ run \in {"exit", "failed"}
  /\ run' = IF run = "exit" THEN "exited" ELSE "exitedFailed"
  /\ output' = IF run = "exit" THEN output
               ELSE output \o Written(defaultLogger, "error", "service.stopped",
                                      {}, {SafeError("run error")})
  /\ UNCHANGED <<settings, defaultLogger, httpMetric, httpLatency, provider, queue,
                 exported, lost, req, calls>>

-----------------------------------------------------------------------------
(* HTTPMiddleware *)

Running == run \notin {"start", "new", "exited", "exitedFailed"}

\* A span is sampled when the parent is, or there is none.
Sampled(r) == settings.otel /\ req[r].parent # "unsampled"

\* The span context is valid with tracing enabled, and without it when the
\* client sent one.
TraceAttrs(r) ==
  IF settings.otel \/ req[r].parent # "none" THEN {Flat("trace_id", r)} ELSE {}

Arrive(r) ==
  /\ run = "serving"
  /\ req[r].pc = "none"
  /\ \E method \in Methods, path \in Paths, parent \in Parents :
       req' = [req EXCEPT ![r].pc = "handler", ![r].route = boundedRoute(method, path),
                          ![r].parent = parent]
  /\ UNCHANGED <<mainVars, httpMetric, httpLatency, queue, exported, lost, output, calls>>

\* A bug: every call of WriteHeader is recorded, not the first one.
WroteLastHeader(q, code) ==
  [q EXCEPT !.wroteHeader = TRUE, !.status = code,
            !.wire = IF q.wroteHeader THEN q.wire ELSE code]

\* statusWriter.WriteHeader.
WroteHeader(q, code) ==
  IF q.wroteHeader THEN q
  ELSE [q EXCEPT !.wroteHeader = TRUE, !.status = code, !.wire = code]

HandlerWritesHeader(r) ==
  /\ Running
  /\ req[r].pc = "handler"
  /\ calls < MaxCalls
  /\ calls' = calls + 1
  /\ \E code \in Codes :
       req' = [req EXCEPT ![r] = WroteHeader(@, code)]
  /\ UNCHANGED <<mainVars, httpMetric, httpLatency, queue, exported, lost, output>>

\* statusWriter.Write: a body without a header is a success.
HandlerWrites(r) ==
  /\ Running
  /\ req[r].pc = "handler"
  /\ calls < MaxCalls
  /\ calls' = calls + 1
  /\ req' = [req EXCEPT ![r] = WroteHeader(@, 200)]
  /\ UNCHANGED <<mainVars, httpMetric, httpLatency, queue, exported, lost, output>>

HandlerReturns(r) ==
  /\ Running
  /\ req[r].pc = "handler"
  /\ req' = [req EXCEPT ![r].pc = IF settings.metrics THEN "count" ELSE "log"]
  /\ UNCHANGED <<mainVars, httpMetric, httpLatency, queue, exported, lost, output, calls>>

\* Nothing after the call of the handler runs but the deferred span.End;
\* net/http recovers the panic and cuts the connection.
HandlerPanics(r) ==
  /\ Running
  /\ req[r].pc = "handler"
  /\ req' = [req EXCEPT ![r].pc = "panicked"]
  /\ UNCHANGED <<mainVars, httpMetric, httpLatency, queue, exported, lost, output, calls>>

\* r.httpMetric.WithLabelValues(route, status).Inc()
Count(r) ==
  /\ Running
  /\ req[r].pc = "count"
  /\ httpMetric' = [httpMetric EXCEPT ![<<req[r].route, boundedStatus(req[r].status)>>] = @ + 1]
  /\ req' = [req EXCEPT ![r].pc = "observe"]
  /\ UNCHANGED <<mainVars, httpLatency, queue, exported, lost, output, calls>>

\* r.httpLatency.WithLabelValues(route).Observe(...)
Observe(r) ==
  /\ Running
  /\ req[r].pc = "observe"
  /\ httpLatency' = [httpLatency EXCEPT ![req[r].route] = @ + 1]
  /\ req' = [req EXCEPT ![r].pc = "log"]
  /\ UNCHANGED <<mainVars, httpMetric, queue, exported, lost, output, calls>>

LogRequest(r) ==
  /\ Running
  /\ req[r].pc = "log"
  /\ output' = output \o Written(runtimeLogger, "info", "http.request.completed", {},
                 {Flat("route", req[r].route), Flat("status", req[r].status)}
                   \cup TraceAttrs(r))
  /\ req' = [req EXCEPT ![r].pc = "end"]
  /\ UNCHANGED <<mainVars, httpMetric, httpLatency, queue, exported, lost, calls>>

\* span.End(), and the response: net/http sends 200 for a handler that wrote
\* nothing.  A provider that was shut down ignores the span.  OnEnd does not
\* wait: a queue that is full, not counting the batch that is being sent, loses it.
EndSpan(r) ==
  /\ Running
  /\ req[r].pc \in {"end", "panicked"}
  /\ \/ ~(Sampled(r) /\ provider = "open") /\ UNCHANGED <<queue, lost>>
     \/ Sampled(r) /\ provider = "open" /\ queue' = queue \cup {r} /\ UNCHANGED lost
     \/ /\ Sampled(r) /\ provider = "open" /\ Cardinality(queue) >= QueueSize
        /\ lost' = lost \cup {r} /\ UNCHANGED queue
  /\ req' = [req EXCEPT ![r].pc = IF @ = "end" THEN "done" ELSE "cut",
                        ![r].wire = IF @ = NoStatus /\ req[r].pc = "end" THEN 200 ELSE @]
  /\ UNCHANGED <<mainVars, httpMetric, httpLatency, exported, output, calls>>

\* The batcher sends a span to the collector, which takes it or does not.  Also
\* after Shutdown has given up waiting, as long as the process lives.
Export(r) ==
  /\ Running
  /\ r \in queue
  /\ queue' = queue \ {r}
  /\ \/ exported' = exported \cup {r} /\ UNCHANGED lost
     \/ lost' = lost \cup {r} /\ UNCHANGED exported
  /\ UNCHANGED <<mainVars, httpMetric, httpLatency, req, output, calls>>

\* Any other code logs through the default logger, with attributes bound by
\* With or given to the call.
Emit ==
  /\ Running
  /\ run # "failed"
  /\ calls < MaxCalls
  /\ calls' = calls + 1
  /\ \E key \in {"Operation", "unlisted"}, kind \in {"flat", "any", "group"},
        valuer \in BOOLEAN, bound \in BOOLEAN :
       LET attr == [key |-> key, valuer |-> valuer, kind |-> kind, value |-> "raw"] IN
       output' = output \o Written(defaultLogger, "error", "other event",
                                   IF bound THEN {attr} ELSE {},
                                   IF bound THEN {} ELSE {attr})
  /\ UNCHANGED <<mainVars, httpMetric, httpLatency, queue, exported, lost, req>>

Exited ==
  /\ run \in {"exited", "exitedFailed"}
  /\ UNCHANGED vars

Next ==
  \/ InstallBootstrapLogger \/ New \/ Stop \/ Shutdown \/ Exit \/ Exited \/ Emit
  \/ \E r \in Reqs : \/ Arrive(r) \/ HandlerWritesHeader(r) \/ HandlerWrites(r)
                     \/ HandlerReturns(r) \/ HandlerPanics(r) \/ Count(r)
                     \/ Observe(r) \/ LogRequest(r) \/ EndSpan(r) \/ Export(r)

Spec == Init /\ [][Next]_vars

-----------------------------------------------------------------------------
(* Properties *)

\* A finished request of a service with metrics was counted once, under the
\* status the client got and not one the handler tried to send later, and
\* every counted request has a latency as soon as no request is between the
\* two updates.
CountedAsServed ==
  (settings.metrics /\ \A r \in Reqs : req[r].pc \in {"none", "handler", "done", "cut"}) =>
    \A route \in DOMAIN httpLatency :
      LET Done(c) == {r \in Reqs : /\ req[r].pc = "done"
                                   /\ req[r].route = route
                                   /\ boundedStatus(req[r].wire) = c} IN
      /\ \A c \in Classes : httpMetric[<<route, c>>] = Cardinality(Done(c))
      /\ httpLatency[route] = Cardinality(UNION {Done(c) : c \in Classes})

\* Every request that was answered has exactly one line in the log, with the
\* status and the route of the answer, unless the level suppresses it; a
\* handler that panicked has none.
LoggedAsServed ==
  LET Lines(r) == {i \in DOMAIN output :
                     /\ output[i].event = "http.request.completed"
                     /\ Flat("trace_id", r) \in output[i].attrs}
  IN \A r \in Reqs : TraceAttrs(r) # {} =>
       /\ req[r].pc = "done" =>
            /\ Cardinality(Lines(r)) = IF settings.level \in {"debug", "info"} THEN 1 ELSE 0
            /\ \A i \in Lines(r) : {Flat("status", req[r].wire),
                                    Flat("route", req[r].route)} \subseteq output[i].attrs
       /\ req[r].pc \in {"panicked", "cut"} => Lines(r) = {}

\* The counters, the log and what clients saw never drift apart
\* (http.go:17-53, 58-79).
RecordedAsServed == CountedAsServed /\ LoggedAsServed

\* An error that ends the process is reported: whether it comes from before
\* or after telemetry was configured, the log holds the event and the error
\* text, unredacted, at every configured level.
StopIsReported ==
  run = "exitedFailed" =>
    \E i \in DOMAIN output :
      /\ output[i].event = "service.stopped"
      /\ output[i].sink # "none"
      /\ Flat("error_message", "run error") \in output[i].attrs

\* An attribute that may be in the log: its key is in the allowlist and its
\* resolved value of a known type, or the value is redacted.
Safe(a) ==
  \/ Lower(a.key) \in allowedAttributes /\ a.kind = "flat" /\ ~a.valuer
  \/ a.value = redactedValue

\* docs/design/11-operations-security-testing.md:303 and
\* docs/runbooks/phase-2-local-core.md:52: whatever is not on the allowlist is
\* replaced before serialization (logging.go:121-131).
RawNeverWritten == \A i \in DOMAIN output : \A a \in output[i].attrs : Safe(a)

\* What escapes is a resolved group under a key of the allowlist and nothing
\* else: every other attribute is safe, whether it was bound with With, given to
\* the call, or hidden behind a LogValuer, and whichever logger wrote it
\* (logging.go:96-131).
SafeOrGroup(a) ==
  \/ Safe(a)
  \/ Lower(a.key) \in allowedAttributes /\ a.kind = "group" /\ ~a.valuer
OnlyGroupsEscape == \A i \in DOMAIN output : \A a \in output[i].attrs : SafeOrGroup(a)

\* No span is forgotten.  When the process exits, every sampled span of a request
\* that ended before dependency.Run returned was taken by the collector or given up
\* by the batcher (its queue was full, its export failed), unless the log reports
\* that the provider's shutdown failed (observability.go:105-113, 194-198).
NoSpanIsForgotten ==
  run \in {"exited", "exitedFailed"} =>
    \/ \A r \in Reqs : (Sampled(r) /\ req[r].pc \in {"done", "cut"} /\ ~req[r].outlives)
                         => r \in exported \cup lost
    \/ \E i \in DOMAIN output : output[i].event = "telemetry.shutdown.failed"
=============================================================================
