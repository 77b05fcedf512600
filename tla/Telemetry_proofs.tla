-------------------------- MODULE Telemetry_proofs --------------------------
(***************************************************************************)
(* Proofs about the telemetry of a process, for any number of requests,    *)
(* any routes, status codes, configurations and log calls.                 *)
(***************************************************************************)
EXTENDS Telemetry, FiniteSetTheorems, TLAPS

Levels == {"debug", "info", "warn", "error"}
Sinks == {"none", "stderr", "stdout"}
Loggers == [sink : Sinks, level : Levels]
Attributes ==
  [key : allowedAttributes \cup {"Operation", "unlisted"}, valuer : BOOLEAN,
   kind : {"flat", "any", "group"},
   value : {redactedValue, "shutdown error", "run error", "raw", "unknown"}
             \cup Reqs \cup Codes \cup Routes]
LogLines ==
  [sink : Sinks, severity : Levels, event : allowedEvents \cup {redactedValue},
   attrs : SUBSET Attributes]

Ended == {"done", "cut"}
Requests ==
  [pc : {"none", "handler", "count", "observe", "log", "end", "panicked"} \cup Ended,
   route : Routes \cup {"unknown"}, parent : Parents \cup {"none"}, status : Codes,
   wroteHeader : BOOLEAN, wire : Codes \cup {NoStatus}, outlives : BOOLEAN]

TypeOK ==
  /\ settings \in Settings
  /\ run \in {"start", "new", "serving", "stopping", "stoppingFailed", "exit", "failed",
              "exited", "exitedFailed"}
  /\ defaultLogger \in Loggers
  /\ provider \in {"nil", "open", "shut"}
  /\ queue \subseteq Reqs
  /\ req \in [Reqs -> Requests]
  /\ output \in Seq(LogLines)

\* What the middleware has recorded of a request is what the client gets.
RequestInv ==
  \A r \in Reqs :
    /\ req[r].wroteHeader => req[r].wire = req[r].status
    /\ ~req[r].wroteHeader =>
         req[r].status = 200 /\ req[r].wire = IF req[r].pc = "done" THEN 200 ELSE NoStatus
    /\ req[r].pc # "none" => req[r].route \in Routes
    /\ run \in {"start", "new"} => req[r].pc = "none"
    /\ run \in {"start", "new", "serving"} => ~req[r].outlives
    /\ run \notin {"start", "new", "serving"} /\ req[r].pc \notin {"none"} \cup Ended
         => req[r].outlives

\* The requests behind each counter and each histogram.
Counted(route, c) ==
  {r \in Reqs : /\ req[r].pc \in {"observe", "log", "end", "done"}
                /\ req[r].route = route
                /\ boundedStatus(req[r].status) = c}
Observed(route) ==
  {r \in Reqs : req[r].pc \in {"log", "end", "done"} /\ req[r].route = route}

MetricsRecord ==
  /\ httpMetric \in [Routes \X Classes -> Nat]
  /\ httpLatency \in [Routes -> Nat]
  /\ \A route \in Routes :
       /\ \A c \in Classes : httpMetric[<<route, c>>] = Cardinality(Counted(route, c))
       /\ httpLatency[route] = Cardinality(Observed(route))

\* With metrics, the vectors record those requests as soon as they exist.
MetricInv ==
  IF settings.metrics
  THEN \/ /\ httpMetric = <<>> /\ httpLatency = <<>>
          /\ run \in {"start", "new", "failed", "exitedFailed"}
          /\ \A r \in Reqs : req[r].pc = "none"
       \/ MetricsRecord
  ELSE \A r \in Reqs : req[r].pc \notin {"count", "observe"}

\* The lines that report a request: none before it is logged, one after.
LinesOf(r) ==
  {i \in DOMAIN output : /\ output[i].event = "http.request.completed"
                         /\ Flat("trace_id", r) \in output[i].attrs}
RequestAttrs(r) == {Flat("status", req[r].status), Flat("route", req[r].route)}
LoggedOnce(r) ==
  IF req[r].pc \in {"end", "done"}
  THEN TraceAttrs(r) # {} =>
         IF settings.level \in {"debug", "info"}
         THEN \E i \in DOMAIN output :
                LinesOf(r) = {i} /\ RequestAttrs(r) \subseteq output[i].attrs
         ELSE LinesOf(r) = {}
  ELSE LinesOf(r) = {}
LogInv == \A r \in Reqs : LoggedOnce(r)

\* The provider accepts spans until Shutdown, which empties the queue or says that
\* it did not.
ShutdownFailed == \E i \in DOMAIN output : output[i].event = "telemetry.shutdown.failed"
SpanInv ==
  /\ run \in {"start", "new"} => provider = "nil"
  /\ run \in {"serving", "stopping", "stoppingFailed"} =>
       provider = IF settings.otel THEN "open" ELSE "nil"
  /\ run \in {"exit", "failed", "exited", "exitedFailed"} => provider # "open"
  /\ provider # "open" /\ ~ShutdownFailed => queue = {}
  /\ ~ShutdownFailed =>
       \A r \in Reqs : Sampled(r) /\ req[r].pc \in Ended /\ ~req[r].outlives
                         => r \in exported \cup lost \cup queue

\* Every line that was written is redacted, and slog.Error has a logger.
OutputInv ==
  /\ run # "start" => defaultLogger.sink # "none"
  /\ OnlyGroupsEscape
  /\ StopIsReported

\* All of it (http.go, logging.go, observability.go).
Inv == TypeOK /\ RequestInv /\ MetricInv /\ LogInv /\ SpanInv /\ OutputInv

-----------------------------------------------------------------------------
(* Writing a line *)

\* redactAttribute makes every attribute safe but groups (logging.go:121-131).
LEMMA Redaction ==
  ASSUME NEW a \in Attributes
  PROVE  redactAttribute(a) \in Attributes /\ SafeOrGroup(redactAttribute(a))
<1>1. CASE Lower(a.key) \notin allowedAttributes \/ a.kind = "any"
  <2>1. redactAttribute(a) = Flat(a.key, redactedValue)
    BY <1>1 DEF redactAttribute
  <2>3. Flat(a.key, redactedValue) \in Attributes
    BY DEF Flat, Attributes
  <2>4. Flat(a.key, redactedValue).value = redactedValue
    BY DEF Flat
  <2> QED BY <2>1, <2>3, <2>4 DEF SafeOrGroup, Safe
<1>2. CASE ~(Lower(a.key) \notin allowedAttributes \/ a.kind = "any")
  BY <1>2 DEF redactAttribute, Attributes, SafeOrGroup, Safe
<1> QED BY <1>1, <1>2

\* The line that a call of Log writes.
LineOf(logger, level, event, attrs) ==
  [sink |-> logger.sink, severity |-> level, event |-> redactedEvent(event),
   attrs |-> {redactAttribute(a) : a \in attrs}]

LEMMA LineType ==
  ASSUME NEW logger \in Loggers, NEW level \in Levels, NEW event,
         NEW attrs \in SUBSET Attributes
  PROVE  /\ LineOf(logger, level, event, attrs) \in LogLines
         /\ \A a \in LineOf(logger, level, event, attrs).attrs : SafeOrGroup(a)
<1>1. \A a \in attrs : redactAttribute(a) \in Attributes /\ SafeOrGroup(redactAttribute(a))
  BY Redaction
<1>2. {redactAttribute(a) : a \in attrs} \in SUBSET Attributes
  BY <1>1
<1>3. redactedEvent(event) \in allowedEvents \cup {redactedValue}
  BY DEF redactedEvent
<1> QED BY <1>1, <1>2, <1>3 DEF LineOf, LogLines, Loggers

\* A call at the level error is written whatever the minimum level is; one at
\* info only with a minimum level of debug or info (logging.go:30-60).
LEMMA WrittenIs ==
  ASSUME NEW logger \in Loggers, NEW event, NEW attrs
  PROVE  /\ Written(logger, "error", event, {}, attrs) = <<LineOf(logger, "error", event, attrs)>>
         /\ Written(logger, "error", event, attrs, {}) = <<LineOf(logger, "error", event, attrs)>>
         /\ Written(logger, "info", event, {}, attrs) =
              IF logger.level \in {"debug", "info"}
              THEN <<LineOf(logger, "info", event, attrs)>> ELSE <<>>
<1>1. \A level \in Levels : LevelNumber[level] <= LevelNumber["error"]
  BY DEF Levels, LevelNumber
<1>2. \A level \in Levels : LevelNumber["info"] < LevelNumber[level] <=> level \notin {"debug", "info"}
  BY DEF Levels, LevelNumber
<1>3. logger.level \in Levels
  BY DEF Loggers
<1>4. {} \cup attrs = attrs /\ attrs \cup {} = attrs
  OBVIOUS
<1>5. ~(LevelNumber["error"] < LevelNumber[logger.level])
  BY <1>3 DEF Levels, LevelNumber
<1> QED BY <1>2, <1>3, <1>4, <1>5 DEF Written, LineOf

\* Appending one line leaves the others where they are.
LEMMA Append1 ==
  ASSUME NEW out \in Seq(LogLines), NEW line \in LogLines
  PROVE  /\ out \o <<line>> \in Seq(LogLines)
         /\ DOMAIN (out \o <<line>>) = DOMAIN out \cup {Len(out) + 1}
         /\ Len(out) + 1 \notin DOMAIN out
         /\ \A i \in DOMAIN out : (out \o <<line>>)[i] = out[i]
         /\ (out \o <<line>>)[Len(out) + 1] = line
  OBVIOUS

LEMMA Append0 ==
  ASSUME NEW out \in Seq(LogLines)
  PROVE  out \o <<>> = out
  OBVIOUS

-----------------------------------------------------------------------------
(* main, New and Shutdown *)

\* Nothing has arrived and nothing is written.
LEMMA InitInv == Init => Inv
<1> SUFFICES ASSUME Init PROVE Inv
  OBVIOUS
<1> USE DEF Init
<1>1. TypeOK
  BY CodesAssumption, SettingsAssumption
  DEF TypeOK, NoLogger, newLogger, Loggers, Sinks, Levels, Requests, Ended
<1>2. RequestInv
  BY DEF RequestInv, Ended
<1>3. MetricInv
  BY DEF MetricInv
<1>4. LogInv
  BY DEF LogInv, LoggedOnce, LinesOf
<1>5. SpanInv
  BY DEF SpanInv, Ended
<1>6. OutputInv
  BY DEF OutputInv, OnlyGroupsEscape, StopIsReported
<1> QED BY <1>1, <1>2, <1>3, <1>4, <1>5, <1>6 DEF Inv

\* The bootstrap logger writes to stderr (observability.go).
LEMMA InstallBootstrapLoggerInv == ASSUME Inv, InstallBootstrapLogger PROVE Inv'
<1> USE DEF Inv, InstallBootstrapLogger
<1>1. TypeOK'
  BY DEF TypeOK, newLogger, Loggers, Sinks, Levels
<1>2. RequestInv'
  BY DEF RequestInv
<1>3. MetricInv'
  BY DEF MetricInv, MetricsRecord, Counted, Observed
<1>4. LogInv'
  BY DEF LogInv, LoggedOnce, LinesOf, TraceAttrs, RequestAttrs
<1>5. SpanInv'
  BY DEF SpanInv, ShutdownFailed, Sampled
<1>6. OutputInv'
  BY DEF OutputInv, OnlyGroupsEscape, StopIsReported, newLogger
<1> QED BY <1>1, <1>2, <1>3, <1>4, <1>5, <1>6

\* The counts do not depend on what requests that are not counted yet do.
LEMMA MetricFrame ==
  ASSUME UNCHANGED <<settings, httpMetric, httpLatency>>,
         \A r \in Reqs :
           /\ req'[r].pc \in {"observe", "log", "end", "done"}
                <=> req[r].pc \in {"observe", "log", "end", "done"}
           /\ req'[r].pc \in {"log", "end", "done"} <=> req[r].pc \in {"log", "end", "done"}
           /\ req[r].pc \in {"observe", "log", "end", "done"} =>
                req'[r].route = req[r].route /\ req'[r].status = req[r].status
  PROVE  MetricsRecord => MetricsRecord'
<1>1. \A route, c : Counted(route, c)' = Counted(route, c) /\ Observed(route)' = Observed(route)
  BY DEF Counted, Observed
<1> QED BY <1>1 DEF MetricsRecord

\* New starts telemetry or fails (observability.go).
LEMMA NewInv == ASSUME Inv, New PROVE Inv'
<1> USE DEF Inv
<1>1. run = "new" /\ run' \in {"serving", "failed"} /\ UNCHANGED <<settings, queue, exported, lost, req, output>>
  BY DEF New
<1>2. \A r \in Reqs : req[r].pc = "none"
  BY <1>1 DEF RequestInv
<1>3. settings.level \in Levels
  BY SettingsAssumption DEF TypeOK, Levels
<1>4. TypeOK'
  BY <1>1, <1>3 DEF New, TypeOK, runtimeLogger, newLogger, Loggers, Sinks
<1>5. RequestInv'
  BY <1>1, <1>2 DEF RequestInv
<1>6. MetricInv'
  <2>1. CASE settings.metrics /\ run' = "serving"
    <3>1. /\ httpMetric' = [rc \in Routes \X Classes |-> 0]
          /\ httpLatency' = [route \in Routes |-> 0]
      BY <2>1 DEF New, configureMetrics
    <3>2. (\A route, c : Counted(route, c) = {} /\ Observed(route) = {})'
      BY <1>1, <1>2 DEF Counted, Observed
    <3>3. \A route \in Routes : \A c \in Classes : httpMetric'[<<route, c>>] = 0
      BY <3>1
    <3>4. MetricsRecord'
      BY <3>1, <3>2, <3>3, FS_EmptySet DEF MetricsRecord
    <3> QED BY <2>1, <3>4, <1>1 DEF MetricInv
  <2>2. CASE settings.metrics /\ run' = "failed"
    <3>1. UNCHANGED <<httpMetric, httpLatency>>
      BY <2>2 DEF New
    <3>2. MetricsRecord => MetricsRecord'
      BY <1>1, <3>1, MetricFrame
    <3> QED BY <1>1, <1>2, <2>2, <3>1, <3>2 DEF MetricInv
  <2>3. CASE ~settings.metrics
    BY <1>1, <1>2, <2>3 DEF MetricInv
  <2> QED BY <1>1, <2>1, <2>2, <2>3
<1>7. LogInv'
  BY <1>1, <1>2 DEF LogInv, LoggedOnce, LinesOf
<1>8. SpanInv'
  BY <1>1, <1>2 DEF New, SpanInv, ShutdownFailed, Ended
<1>9. OutputInv'
  <2>1. (run # "start" => defaultLogger.sink # "none")'
    BY <1>1 DEF New, OutputInv, runtimeLogger, newLogger
  <2>2. OnlyGroupsEscape'
    BY <1>1 DEF OutputInv, OnlyGroupsEscape
  <2>3. StopIsReported'
    BY <1>1 DEF StopIsReported
  <2> QED BY <2>1, <2>2, <2>3 DEF OutputInv
<1> QED BY <1>4, <1>5, <1>6, <1>7, <1>8, <1>9

\* A line that reports no request.
LEMMA OtherLine ==
  ASSUME Inv, NEW line \in LogLines, output' = output \o <<line>>,
         line.event # "http.request.completed", \A a \in line.attrs : SafeOrGroup(a)
  PROVE  /\ output' \in Seq(LogLines)
         /\ DOMAIN output \subseteq DOMAIN output'
         /\ \A i \in DOMAIN output : output'[i] = output[i]
         /\ \E i \in DOMAIN output' : output'[i] = line
         /\ \A r : LinesOf(r)' = LinesOf(r)
         /\ OnlyGroupsEscape'
         /\ ShutdownFailed => ShutdownFailed'
         /\ line.event = "telemetry.shutdown.failed" => ShutdownFailed'
<1> DEFINE n == Len(output) + 1
<1>1. output \in Seq(LogLines)
  BY DEF Inv, TypeOK
<1>2. /\ output' \in Seq(LogLines)
      /\ DOMAIN output' = DOMAIN output \cup {n}
      /\ n \notin DOMAIN output
      /\ \A i \in DOMAIN output : output'[i] = output[i]
      /\ output'[n] = line
  BY <1>1, Append1
<1>3. \A r : LinesOf(r)' = LinesOf(r)
  BY <1>2 DEF LinesOf
<1>4. OnlyGroupsEscape'
  BY <1>2 DEF OnlyGroupsEscape, Inv, OutputInv
<1>5. /\ ShutdownFailed => ShutdownFailed'
      /\ line.event = "telemetry.shutdown.failed" => ShutdownFailed'
  BY <1>2 DEF ShutdownFailed
<1> QED BY <1>2, <1>3, <1>4, <1>5

\* LogInv does not depend on lines of other requests, nor on what requests
\* that are not logged yet do.
LEMMA LogFrame ==
  ASSUME LogInv, settings' = settings, DOMAIN output \subseteq DOMAIN output',
         \A i \in DOMAIN output : output'[i] = output[i],
         NEW r \in Reqs, LinesOf(r)' = LinesOf(r),
         req'[r].pc \in {"end", "done"} <=> req[r].pc \in {"end", "done"},
         req[r].pc \in {"end", "done"} => /\ req'[r].route = req[r].route
                                          /\ req'[r].status = req[r].status
                                          /\ req'[r].parent = req[r].parent
  PROVE  LoggedOnce(r)'
<1>1. CASE req[r].pc \in {"end", "done"}
  <2>1. TraceAttrs(r)' = TraceAttrs(r) /\ RequestAttrs(r)' = RequestAttrs(r)
    BY <1>1 DEF TraceAttrs, RequestAttrs
  <2> QED BY <1>1, <2>1 DEF LogInv, LoggedOnce
<1>2. CASE req[r].pc \notin {"end", "done"}
  BY <1>2 DEF LogInv, LoggedOnce
<1> QED BY <1>1, <1>2

\* What keeps SpanInv: spans are not lost while main does nothing, and no
\* request ends.
LEMMA SpanFrame ==
  ASSUME SpanInv, UNCHANGED <<settings, run, provider>>,
         ShutdownFailed => ShutdownFailed',
         exported \cup lost \cup queue \subseteq exported' \cup lost' \cup queue',
         queue' \subseteq queue,
         \A r \in Reqs : req'[r].pc \in Ended =>
           /\ req[r].pc \in Ended
           /\ req'[r].parent = req[r].parent /\ req'[r].outlives = req[r].outlives
  PROVE  SpanInv'
<1>1. \A r \in Reqs : req'[r].pc \in Ended => (Sampled(r)' <=> Sampled(r))
  BY DEF Sampled
<1> QED BY <1>1 DEF SpanInv

\* Requests under way when dependency.Run returns outlive it (main.go).
LEMMA StopInv == ASSUME Inv, Stop PROVE Inv'
<1> USE DEF Inv
<1>1. /\ run = "serving" /\ run' \in {"stopping", "stoppingFailed"}
      /\ UNCHANGED <<settings, defaultLogger, httpMetric, httpLatency, provider, queue, exported, lost, output>>
  BY DEF Stop
<1>2. \A r \in Reqs : req[r] \in Requests
  BY DEF TypeOK
<1>3. req' \in [Reqs -> Requests]
  <2>1. \A r \in Reqs : [req[r] EXCEPT !.outlives = req[r].pc \notin {"none", "done", "cut"}] \in Requests
    BY <1>2 DEF Requests
  <2> QED BY <2>1 DEF Stop
<1>4. \A r \in Reqs :
        /\ req'[r].pc = req[r].pc /\ req'[r].route = req[r].route
        /\ req'[r].status = req[r].status /\ req'[r].parent = req[r].parent
        /\ req'[r].wire = req[r].wire /\ req'[r].wroteHeader = req[r].wroteHeader
        /\ req'[r].outlives <=> req[r].pc \notin {"none", "done", "cut"}
  <2>1. \A r \in Reqs : req'[r] = [req[r] EXCEPT !.outlives = req[r].pc \notin {"none", "done", "cut"}]
    BY DEF Stop
  <2>2. \A r \in Reqs :
          /\ req'[r].pc = req[r].pc /\ req'[r].route = req[r].route
          /\ req'[r].status = req[r].status /\ req'[r].parent = req[r].parent
          /\ req'[r].wire = req[r].wire /\ req'[r].wroteHeader = req[r].wroteHeader
          /\ req'[r].outlives = (req[r].pc \notin {"none", "done", "cut"})
    <3> TAKE r \in Reqs
    <3>1. req[r] \in Requests /\ req'[r] = [req[r] EXCEPT !.outlives = req[r].pc \notin {"none", "done", "cut"}]
      BY <1>2, <2>1
    <3> HIDE DEF Inv
    <3> QED BY <3>1 DEF Requests
  <2> QED BY <2>2
<1>5. TypeOK'
  BY <1>1, <1>3 DEF TypeOK
<1>6. RequestInv'
  BY <1>1, <1>4 DEF RequestInv, Ended
<1>7. MetricInv'
  BY <1>1, <1>4, MetricFrame DEF MetricInv
<1>8. LogInv'
  <2>1. \A r \in Reqs : LinesOf(r)' = LinesOf(r)
    BY <1>1 DEF LinesOf
  <2>2. \A r \in Reqs : LoggedOnce(r)'
    BY <1>1, <1>4, <2>1, LogFrame
  <2> QED BY <2>2 DEF LogInv
<1>9. SpanInv'
  <2>1. \A r \in Reqs : Sampled(r)' <=> Sampled(r)
    BY <1>1, <1>4 DEF Sampled
  <2>2. \A r \in Reqs : ~req[r].outlives
    BY <1>1 DEF RequestInv
  <2> QED BY <1>1, <1>4, <2>1, <2>2 DEF SpanInv, ShutdownFailed
<1>10. OutputInv'
  BY <1>1 DEF OutputInv, OnlyGroupsEscape, StopIsReported
<1> QED BY <1>5, <1>6, <1>7, <1>8, <1>9, <1>10

\* The provider drains the queue, or the log says that it did not
\* (observability.go).
LEMMA ShutdownInv == ASSUME Inv, Shutdown PROVE Inv'
<1> USE DEF Inv
<1> DEFINE line == LineOf(runtimeLogger, "error", "telemetry.shutdown.failed", {SafeError("shutdown error")})
<1>1. /\ run \in {"stopping", "stoppingFailed"} /\ run' \in {"exit", "failed"}
      /\ UNCHANGED <<settings, defaultLogger, httpMetric, httpLatency, req>>
  BY DEF Shutdown
<1>2. runtimeLogger \in Loggers
  BY SettingsAssumption DEF TypeOK, runtimeLogger, newLogger, Loggers, Sinks, Levels
<1>3. {SafeError("shutdown error")} \in SUBSET Attributes
  BY DEF SafeError, Attributes, allowedAttributes
<1>4. line \in LogLines /\ \A a \in line.attrs : SafeOrGroup(a)
  BY <1>2, <1>3, LineType DEF Levels
<1>5. line.event = "telemetry.shutdown.failed"
  BY DEF LineOf, redactedEvent, allowedEvents
<1>6. \/ output' = output
      \/ output' = output \o <<line>> /\ provider = "open"
  BY <1>2, WrittenIs DEF Shutdown
<1>7. /\ output' \in Seq(LogLines) /\ DOMAIN output \subseteq DOMAIN output'
      /\ \A i \in DOMAIN output : output'[i] = output[i]
      /\ \A r \in Reqs : LinesOf(r)' = LinesOf(r)
      /\ OnlyGroupsEscape'
      /\ ShutdownFailed => ShutdownFailed'
  <2>1. CASE output' = output
    BY <2>1 DEF TypeOK, LinesOf, OnlyGroupsEscape, OutputInv, ShutdownFailed
  <2>2. CASE output' = output \o <<line>>
    BY <1>4, <1>5, <2>2, OtherLine
  <2> QED BY <1>6, <2>1, <2>2
<1>8. TypeOK'
  BY <1>1, <1>7 DEF Shutdown, TypeOK
<1>9. RequestInv'
  BY <1>1 DEF RequestInv
<1>10. MetricInv'
  BY <1>1, MetricFrame DEF MetricInv
<1>11. LogInv'
  <2>1. \A r \in Reqs : LoggedOnce(r)'
    BY <1>1, <1>7, LogFrame
  <2> QED BY <2>1 DEF LogInv
<1>12. SpanInv'
  <2>1. \A r \in Reqs : Sampled(r)' <=> Sampled(r)
    BY <1>1 DEF Sampled
  <2>2. provider' # "open"
    BY <1>1 DEF Shutdown, SpanInv
  <2>3. CASE /\ exported' \cup lost' \cup queue' = exported \cup lost \cup queue
             /\ output' = output
             /\ ShutdownFailed \/ queue' = {}
    <3>1. ShutdownFailed' <=> ShutdownFailed
      BY <2>3 DEF ShutdownFailed
    <3> QED BY <1>1, <1>7, <2>1, <2>2, <2>3, <3>1 DEF SpanInv
  <2>4. CASE output' = output \o <<line>>
    <3>1. ShutdownFailed'
      BY <1>4, <1>5, <2>4, OtherLine
    <3> QED BY <1>1, <2>2, <3>1 DEF SpanInv
  <2>5. CASE provider = "nil" /\ UNCHANGED <<queue, exported, lost, output>>
    BY <2>3, <2>5 DEF SpanInv
  <2>6. CASE /\ \E taken \in SUBSET queue :
                  exported' = exported \cup taken /\ lost' = lost \cup (queue \ taken)
             /\ queue' = {} /\ UNCHANGED output
    BY <2>3, <2>6
  <2> QED BY <1>2, <2>4, <2>5, <2>6, WrittenIs DEF Shutdown
<1>13. OutputInv'
  BY <1>1, <1>7 DEF OutputInv, StopIsReported
<1> QED BY <1>8, <1>9, <1>10, <1>11, <1>12, <1>13

\* slog.Error writes at every level (apps/*/main.go).
LEMMA ExitInv == ASSUME Inv, Exit PROVE Inv'
<1> USE DEF Inv
<1> DEFINE line == LineOf(defaultLogger, "error", "service.stopped", {SafeError("run error")})
<1>1. /\ run \in {"exit", "failed"} /\ run' \in {"exited", "exitedFailed"}
      /\ UNCHANGED <<settings, defaultLogger, httpMetric, httpLatency, provider, queue, exported, lost, req>>
      /\ run = "failed" <=> run' = "exitedFailed"
  BY DEF Exit
<1>2. defaultLogger \in Loggers /\ defaultLogger.sink # "none"
  BY <1>1 DEF TypeOK, OutputInv
<1>3. {SafeError("run error")} \in SUBSET Attributes
  BY DEF SafeError, Attributes, allowedAttributes
<1>4. line \in LogLines /\ \A a \in line.attrs : SafeOrGroup(a)
  BY <1>2, <1>3, LineType DEF Levels
<1>5. line.event = "service.stopped" /\ line.sink # "none"
  BY <1>2 DEF LineOf, redactedEvent, allowedEvents
<1>6. Flat("error_message", "run error") \in line.attrs
  <2>1. redactAttribute(SafeError("run error")) = Flat("error_message", "run error")
    BY DEF redactAttribute, SafeError, Flat, Lower, allowedAttributes
  <2> QED BY <2>1 DEF LineOf
<1>7. \/ run' = "exited" /\ output' = output
      \/ run' = "exitedFailed" /\ output' = output \o <<line>>
  BY <1>2, WrittenIs DEF Exit
<1>8. /\ output' \in Seq(LogLines) /\ DOMAIN output \subseteq DOMAIN output'
      /\ \A i \in DOMAIN output : output'[i] = output[i]
      /\ \A r \in Reqs : LinesOf(r)' = LinesOf(r)
      /\ OnlyGroupsEscape'
      /\ ShutdownFailed => ShutdownFailed'
      /\ run' = "exitedFailed" => \E i \in DOMAIN output' : output'[i] = line
  <2>1. CASE run' = "exited" /\ output' = output
    BY <2>1 DEF TypeOK, LinesOf, OnlyGroupsEscape, OutputInv, ShutdownFailed
  <2>2. CASE run' = "exitedFailed" /\ output' = output \o <<line>>
    BY <1>4, <1>5, <2>2, OtherLine
  <2> QED BY <1>7, <2>1, <2>2
<1>9. TypeOK'
  BY <1>1, <1>8 DEF TypeOK
<1>10. RequestInv'
  BY <1>1 DEF RequestInv
<1>11. MetricInv'
  BY <1>1, MetricFrame DEF MetricInv
<1>12. LogInv'
  <2>1. \A r \in Reqs : LoggedOnce(r)'
    BY <1>1, <1>8, LogFrame
  <2> QED BY <2>1 DEF LogInv
<1>13. SpanInv'
  <2>1. \A r \in Reqs : Sampled(r)' <=> Sampled(r)
    BY <1>1 DEF Sampled
  <2> QED BY <1>1, <1>8, <2>1 DEF SpanInv
<1>14. OutputInv'
  BY <1>1, <1>2, <1>5, <1>6, <1>8 DEF OutputInv, StopIsReported
<1> QED BY <1>9, <1>10, <1>11, <1>12, <1>13, <1>14

\* Whatever other code logs is redacted (logging.go).
LEMMA EmitInv == ASSUME Inv, Emit PROVE Inv'
<1> USE DEF Inv
<1>1. /\ run \notin {"start", "new", "exited", "exitedFailed"}
      /\ UNCHANGED <<mainVars, httpMetric, httpLatency, queue, exported, lost, req>>
  BY DEF Emit, Running
<1>2. PICK key \in {"Operation", "unlisted"}, kind \in {"flat", "any", "group"}, valuer \in BOOLEAN, bound \in BOOLEAN :
        LET attr == [key |-> key, valuer |-> valuer, kind |-> kind, value |-> "raw"] IN
        output' = output \o Written(defaultLogger, "error", "other event",
                                    IF bound THEN {attr} ELSE {}, IF bound THEN {} ELSE {attr})
  BY DEF Emit
<1> DEFINE attr == [key |-> key, valuer |-> valuer, kind |-> kind, value |-> "raw"]
           line == LineOf(defaultLogger, "error", "other event", {attr})
<1>3. defaultLogger \in Loggers
  BY DEF TypeOK
<1>4. attr \in Attributes
  BY DEF Attributes
<1>5. line \in LogLines /\ \A a \in line.attrs : SafeOrGroup(a)
  <2> HIDE DEF attr
  <2>1. {attr} \in SUBSET Attributes
    BY <1>4
  <2> QED BY <1>3, <2>1, LineType DEF Levels
<1>6. line.event = "[REDACTED]"
  BY DEF LineOf, redactedEvent, allowedEvents, redactedValue
<1>7. output' = output \o <<line>>
  <2>1. \/ output' = output \o Written(defaultLogger, "error", "other event", {attr}, {})
        \/ output' = output \o Written(defaultLogger, "error", "other event", {}, {attr})
    BY <1>2
  <2> HIDE DEF attr
  <2> QED BY <1>3, <2>1, WrittenIs
<1>8. /\ output' \in Seq(LogLines) /\ DOMAIN output \subseteq DOMAIN output'
      /\ \A i \in DOMAIN output : output'[i] = output[i]
      /\ \A r \in Reqs : LinesOf(r)' = LinesOf(r)
      /\ OnlyGroupsEscape'
      /\ ShutdownFailed => ShutdownFailed'
  <2> HIDE DEF line
  <2> QED BY <1>5, <1>6, <1>7, OtherLine
<1> HIDE DEF line, attr
<1>9. TypeOK'
  BY <1>1, <1>8 DEF TypeOK, mainVars
<1>10. RequestInv'
  BY <1>1 DEF RequestInv, mainVars
<1>11. MetricInv'
  BY <1>1, MetricFrame DEF MetricInv, mainVars
<1>12. LogInv'
  <2>1. \A r \in Reqs : LoggedOnce(r)'
    BY <1>1, <1>8, LogFrame DEF mainVars
  <2> QED BY <2>1 DEF LogInv
<1>13. SpanInv'
  BY <1>1, <1>8, SpanFrame DEF mainVars
<1>14. OutputInv'
  BY <1>1, <1>8 DEF OutputInv, StopIsReported, mainVars
<1> QED BY <1>9, <1>10, <1>11, <1>12, <1>13, <1>14

-----------------------------------------------------------------------------
(* HTTPMiddleware *)

\* A step of one request changes nothing of the others.
LEMMA OneMoves ==
  ASSUME TypeOK, NEW r \in Reqs, NEW q \in Requests, req' = [req EXCEPT ![r] = q]
  PROVE  req' \in [Reqs -> Requests] /\ req'[r] = q /\ \A s \in Reqs : s # r => req'[s] = req[s]
  BY DEF TypeOK

\* Steps before a request is counted: nothing but the request itself and the
\* bound change, and it neither ends nor is recorded.
LEMMA EarlyStep ==
  ASSUME Inv, Running \/ run = "serving", NEW r \in Reqs, NEW q \in Requests,
         req' = [req EXCEPT ![r] = q],
         UNCHANGED <<mainVars, httpMetric, httpLatency, queue, exported, lost, output>>,
         req[r].pc \in {"none", "handler"}, req[r].pc = "none" => run = "serving",
         q.pc \in {"handler", "panicked", "count", "log"},
         q.pc = "count" => settings.metrics, q.pc = "log" => ~settings.metrics,
         q.outlives = req[r].outlives, q.route \in Routes,
         q.wroteHeader => q.wire = q.status,
         ~q.wroteHeader => q.status = 200 /\ q.wire = NoStatus
  PROVE  Inv'
<1> USE DEF Inv, mainVars
<1>1. req' \in [Reqs -> Requests] /\ req'[r] = q /\ \A s \in Reqs : s # r => req'[s] = req[s]
  BY OneMoves
<1>2. run \notin {"start", "new", "exited", "exitedFailed"}
  BY DEF Running
<1>3. TypeOK'
  BY <1>1 DEF TypeOK
<1>4. RequestInv'
  BY <1>1, <1>2 DEF RequestInv, Ended
<1>5. MetricInv'
  <2>1. CASE settings.metrics
    <3>1. MetricsRecord
      BY <1>2, <2>1 DEF MetricInv, RequestInv
    <3>2. \A s \in Reqs :
            /\ req'[s].pc \in {"observe", "log", "end", "done"}
                 <=> req[s].pc \in {"observe", "log", "end", "done"}
            /\ req'[s].pc \in {"log", "end", "done"} <=> req[s].pc \in {"log", "end", "done"}
            /\ req[s].pc \in {"observe", "log", "end", "done"} =>
                 req'[s].route = req[s].route /\ req'[s].status = req[s].status
      BY <1>1, <2>1
    <3>3. MetricsRecord'
      BY <3>1, <3>2, MetricFrame
    <3> QED BY <2>1, <3>3 DEF MetricInv
  <2>2. CASE ~settings.metrics
    BY <1>1, <2>2 DEF MetricInv
  <2> QED BY <2>1, <2>2
<1>6. LogInv'
  <2>1. \A s \in Reqs : LinesOf(s)' = LinesOf(s)
    BY DEF LinesOf
  <2>2. \A s \in Reqs : LoggedOnce(s)'
    BY <1>1, <2>1, LogFrame
  <2> QED BY <2>2 DEF LogInv
<1>7. SpanInv'
  <2>1. \A s \in Reqs : req'[s].pc \in Ended =>
          /\ req[s].pc \in Ended
          /\ req'[s].parent = req[s].parent /\ req'[s].outlives = req[s].outlives
    BY <1>1 DEF Ended
  <2> QED BY <2>1, SpanFrame DEF ShutdownFailed
<1>8. OutputInv'
  BY <1>2 DEF OutputInv, OnlyGroupsEscape, StopIsReported
<1> QED BY <1>3, <1>4, <1>5, <1>6, <1>7, <1>8

\* The middleware begins (http.go:17-28).
LEMMA ArriveInv == ASSUME Inv, NEW r \in Reqs, Arrive(r) PROVE Inv'
<1>1. PICK method \in Methods, path \in Paths, parent \in Parents :
        req' = [req EXCEPT ![r].pc = "handler", ![r].route = boundedRoute(method, path),
                           ![r].parent = parent]
  BY DEF Arrive
<1> DEFINE q == [req[r] EXCEPT !.pc = "handler", !.route = boundedRoute(method, path),
                               !.parent = parent]
<1>2. req[r] \in Requests /\ req \in [Reqs -> Requests]
  BY DEF Inv, TypeOK
<1>3. boundedRoute(method, path) \in Routes
  BY DEF Routes
<1>4. q \in Requests
  BY <1>2, <1>3 DEF Requests
<1>5. req' = [req EXCEPT ![r] = q]
  BY <1>1, <1>2
<1>6. /\ q.pc = "handler" /\ q.outlives = req[r].outlives /\ q.route \in Routes
      /\ q.wroteHeader = req[r].wroteHeader /\ q.status = req[r].status /\ q.wire = req[r].wire
  BY <1>2, <1>3 DEF Requests
<1>7. /\ req[r].wroteHeader => req[r].wire = req[r].status
      /\ ~req[r].wroteHeader => req[r].status = 200 /\ req[r].wire = NoStatus
  BY DEF Inv, RequestInv, Arrive
<1> HIDE DEF q
<1> QED BY <1>4, <1>5, <1>6, <1>7, EarlyStep DEF Arrive

\* The first status is recorded and sent, every later one is ignored
\* (http.go:58-79).
LEMMA WroteHeaderInv ==
  ASSUME Inv, NEW r \in Reqs, NEW code \in Codes, Running, req[r].pc = "handler",
         req' = [req EXCEPT ![r] = WroteHeader(@, code)],
         UNCHANGED <<mainVars, httpMetric, httpLatency, queue, exported, lost, output>>
  PROVE  Inv'
<1> DEFINE q == WroteHeader(req[r], code)
<1>1. req[r] \in Requests /\ req \in [Reqs -> Requests]
  BY DEF Inv, TypeOK
<1>2. q \in Requests
  BY <1>1 DEF Requests, WroteHeader
<1>3. q.pc = "handler" /\ q.outlives = req[r].outlives /\ q.route = req[r].route
  BY <1>1 DEF Requests, WroteHeader
<1>4. req[r].route \in Routes
  BY DEF Inv, RequestInv
<1>5. q.wroteHeader /\ q.wire = q.status
  <2>1. CASE req[r].wroteHeader
    BY <2>1 DEF WroteHeader, Inv, RequestInv
  <2>2. CASE ~req[r].wroteHeader
    BY <1>1, <2>2 DEF WroteHeader, Requests
  <2> QED BY <2>1, <2>2
<1>6. req' = [req EXCEPT ![r] = q]
  BY <1>1
<1> HIDE DEF q
<1> QED BY <1>2, <1>3, <1>4, <1>5, <1>6, EarlyStep

LEMMA HandlerWritesHeaderInv == ASSUME Inv, NEW r \in Reqs, HandlerWritesHeader(r) PROVE Inv'
  BY WroteHeaderInv DEF HandlerWritesHeader

LEMMA HandlerWritesInv == ASSUME Inv, NEW r \in Reqs, HandlerWrites(r) PROVE Inv'
  BY WroteHeaderInv, CodesAssumption DEF HandlerWrites

\* The handler is over; its status is final (http.go:30-38).
LEMMA HandlerEndsInv ==
  ASSUME Inv, NEW r \in Reqs, NEW next \in {"panicked", "count", "log"}, Running,
         req[r].pc = "handler", req' = [req EXCEPT ![r].pc = next],
         next = "count" => settings.metrics, next = "log" => ~settings.metrics,
         UNCHANGED <<mainVars, httpMetric, httpLatency, queue, exported, lost, output>>
  PROVE  Inv'
<1> DEFINE q == [req[r] EXCEPT !.pc = next]
<1>1. req[r] \in Requests /\ req \in [Reqs -> Requests]
  BY DEF Inv, TypeOK
<1>2. q \in Requests
  BY <1>1 DEF Requests
<1>3. /\ q.pc = next /\ q.outlives = req[r].outlives /\ q.route = req[r].route
      /\ q.wroteHeader = req[r].wroteHeader /\ q.status = req[r].status /\ q.wire = req[r].wire
  BY <1>1 DEF Requests
<1>4. /\ req[r].route \in Routes
      /\ req[r].wroteHeader => req[r].wire = req[r].status
      /\ ~req[r].wroteHeader => req[r].status = 200 /\ req[r].wire = NoStatus
  BY DEF Inv, RequestInv
<1>5. req' = [req EXCEPT ![r] = q]
  BY <1>1
<1>6. /\ q.wroteHeader => q.wire = q.status
      /\ ~q.wroteHeader => q.status = 200 /\ q.wire = NoStatus
      /\ q.pc \in {"handler", "panicked", "count", "log"}
      /\ q.pc = "count" => settings.metrics
      /\ q.pc = "log" => ~settings.metrics
  BY <1>3, <1>4
<1> HIDE DEF q
<1> QED BY <1>2, <1>3, <1>4, <1>5, <1>6, EarlyStep

LEMMA HandlerReturnsInv == ASSUME Inv, NEW r \in Reqs, HandlerReturns(r) PROVE Inv'
<1>1. CASE settings.metrics
  BY <1>1, HandlerEndsInv DEF HandlerReturns
<1>2. CASE ~settings.metrics
  BY <1>2, HandlerEndsInv DEF HandlerReturns
<1> QED BY <1>1, <1>2

LEMMA HandlerPanicsInv == ASSUME Inv, NEW r \in Reqs, HandlerPanics(r) PROVE Inv'
  BY HandlerEndsInv DEF HandlerPanics

\* Every status has a class (http.go:81-96).
LEMMA ClassOfCode == \A code \in Codes : boundedStatus(code) \in Classes
<1> TAKE code \in Codes
<1>1. code \in 200 .. 999
  BY CodesAssumption
<1>2. code <= 599 => code \div 100 \in 0 .. 5
  BY <1>1
<1> QED BY <1>1, <1>2 DEF boundedStatus, Classes

\* A counted request adds itself to its class (http.go:39-41).
LEMMA CountInv == ASSUME Inv, NEW r \in Reqs, Count(r) PROVE Inv'
<1> USE DEF Inv, mainVars
<1> DEFINE q == [req[r] EXCEPT !.pc = "observe"]
           rc == <<req[r].route, boundedStatus(req[r].status)>>
<1>1. /\ run \notin {"start", "new", "exited", "exitedFailed"} /\ req[r].pc = "count"
      /\ httpMetric' = [httpMetric EXCEPT ![rc] = @ + 1]
      /\ UNCHANGED <<mainVars, httpLatency, queue, exported, lost, output>>
  BY DEF Count, Running
<1>2. req[r] \in Requests /\ req \in [Reqs -> Requests]
  BY DEF TypeOK
<1>3. q \in Requests /\ req' = [req EXCEPT ![r] = q]
  BY <1>2 DEF Requests, Count
<1>4. /\ q.pc = "observe" /\ q.outlives = req[r].outlives /\ q.route = req[r].route /\ q.parent = req[r].parent
      /\ q.wroteHeader = req[r].wroteHeader /\ q.status = req[r].status /\ q.wire = req[r].wire
  BY <1>2 DEF Requests
<1>5. req' \in [Reqs -> Requests] /\ req'[r] = q /\ \A s \in Reqs : s # r => req'[s] = req[s]
  <2> HIDE DEF q
  <2> QED BY <1>3, OneMoves
<1> HIDE DEF q
<1>6. TypeOK'
  BY <1>1, <1>5 DEF TypeOK
<1>7. RequestInv'
  BY <1>1, <1>4, <1>5 DEF RequestInv, Ended
<1>8. MetricInv'
  <2>1. settings.metrics /\ MetricsRecord
    BY <1>1 DEF MetricInv
  <2>2. req[r].route \in Routes /\ boundedStatus(req[r].status) \in Classes
    BY <1>1, <1>2, ClassOfCode DEF RequestInv, Requests
  <2>3. \A route : Observed(route)' = Observed(route)
    BY <1>1, <1>4, <1>5 DEF Observed
  <2>4. \A route, c : Counted(route, c)' = IF <<route, c>> = rc THEN Counted(route, c) \cup {r}
                                           ELSE Counted(route, c)
    BY <1>1, <1>4, <1>5 DEF Counted
  <2>5. \A route, c : r \notin Counted(route, c) /\ IsFiniteSet(Counted(route, c))
    BY <1>1, RequestsAssumption, FS_Subset DEF Counted
  <2>6. \A route \in Routes, c \in Classes :
          httpMetric'[<<route, c>>] = Cardinality(Counted(route, c)')
    <3> TAKE route \in Routes, c \in Classes
    <3>1. httpMetric[<<route, c>>] = Cardinality(Counted(route, c))
      BY <2>1 DEF MetricsRecord
    <3>2. CASE <<route, c>> = rc
      <4>1. Cardinality(Counted(route, c)') = Cardinality(Counted(route, c)) + 1
        BY <2>4, <2>5, <3>2, FS_AddElement
      <4> QED BY <1>1, <2>1, <3>1, <3>2, <4>1 DEF MetricsRecord
    <3>3. CASE <<route, c>> # rc
      BY <1>1, <2>1, <2>4, <3>1, <3>3 DEF MetricsRecord
    <3> QED BY <3>2, <3>3
  <2>7. httpMetric' \in [Routes \X Classes -> Nat]
    BY <1>1, <2>1, <2>2 DEF MetricsRecord
  <2>8. MetricsRecord'
    BY <1>1, <2>1, <2>3, <2>6, <2>7 DEF MetricsRecord
  <2> QED BY <1>1, <2>1, <2>8 DEF MetricInv
<1>9. LogInv'
  <2>1. \A s \in Reqs : LinesOf(s)' = LinesOf(s)
    BY <1>1 DEF LinesOf
  <2>2. \A s \in Reqs : LoggedOnce(s)'
    BY <1>1, <1>4, <1>5, <2>1, LogFrame
  <2> QED BY <2>2 DEF LogInv
<1>10. SpanInv'
  <2>1. \A s \in Reqs : req'[s].pc \in Ended =>
          /\ req[s].pc \in Ended
          /\ req'[s].parent = req[s].parent /\ req'[s].outlives = req[s].outlives
    BY <1>4, <1>5 DEF Ended
  <2> QED BY <1>1, <2>1, SpanFrame DEF ShutdownFailed
<1>11. OutputInv'
  BY <1>1 DEF OutputInv, OnlyGroupsEscape, StopIsReported
<1> QED BY <1>6, <1>7, <1>8, <1>9, <1>10, <1>11

\* The histogram follows the counter (http.go:42).
LEMMA ObserveInv == ASSUME Inv, NEW r \in Reqs, Observe(r) PROVE Inv'
<1> USE DEF Inv, mainVars
<1> DEFINE q == [req[r] EXCEPT !.pc = "log"]
<1>1. /\ run \notin {"start", "new", "exited", "exitedFailed"} /\ req[r].pc = "observe"
      /\ httpLatency' = [httpLatency EXCEPT ![req[r].route] = @ + 1]
      /\ UNCHANGED <<mainVars, httpMetric, queue, exported, lost, output>>
  BY DEF Observe, Running
<1>2. req[r] \in Requests /\ req \in [Reqs -> Requests]
  BY DEF TypeOK
<1>3. q \in Requests /\ req' = [req EXCEPT ![r] = q]
  BY <1>2 DEF Requests, Observe
<1>4. /\ q.pc = "log" /\ q.outlives = req[r].outlives /\ q.route = req[r].route /\ q.parent = req[r].parent
      /\ q.wroteHeader = req[r].wroteHeader /\ q.status = req[r].status /\ q.wire = req[r].wire
  BY <1>2 DEF Requests
<1>5. req' \in [Reqs -> Requests] /\ req'[r] = q /\ \A s \in Reqs : s # r => req'[s] = req[s]
  <2> HIDE DEF q
  <2> QED BY <1>3, OneMoves
<1> HIDE DEF q
<1>6. TypeOK'
  BY <1>1, <1>5 DEF TypeOK
<1>7. RequestInv'
  BY <1>1, <1>4, <1>5 DEF RequestInv, Ended
<1>8. MetricInv'
  <2>1. settings.metrics /\ MetricsRecord
    BY <1>1 DEF MetricInv
  <2>2. req[r].route \in Routes
    BY <1>1 DEF RequestInv
  <2>3. \A route, c : Counted(route, c)' = Counted(route, c)
    BY <1>1, <1>4, <1>5 DEF Counted
  <2>4. \A route : Observed(route)' = IF route = req[r].route THEN Observed(route) \cup {r}
                                      ELSE Observed(route)
    BY <1>1, <1>4, <1>5 DEF Observed
  <2>5. \A route : r \notin Observed(route) /\ IsFiniteSet(Observed(route))
    BY <1>1, RequestsAssumption, FS_Subset DEF Observed
  <2>6. \A route \in Routes : httpLatency'[route] = Cardinality(Observed(route)')
    <3> TAKE route \in Routes
    <3>1. httpLatency[route] = Cardinality(Observed(route))
      BY <2>1 DEF MetricsRecord
    <3>2. CASE route = req[r].route
      <4>1. Cardinality(Observed(route)') = Cardinality(Observed(route)) + 1
        BY <2>4, <2>5, <3>2, FS_AddElement
      <4> QED BY <1>1, <2>1, <3>1, <3>2, <4>1 DEF MetricsRecord
    <3>3. CASE route # req[r].route
      BY <1>1, <2>1, <2>4, <3>1, <3>3 DEF MetricsRecord
    <3> QED BY <3>2, <3>3
  <2>7. httpLatency' \in [Routes -> Nat]
    BY <1>1, <2>1, <2>2 DEF MetricsRecord
  <2>8. MetricsRecord'
    BY <1>1, <2>1, <2>3, <2>6, <2>7 DEF MetricsRecord
  <2> QED BY <1>1, <2>1, <2>8 DEF MetricInv
<1>9. LogInv'
  <2>1. \A s \in Reqs : LinesOf(s)' = LinesOf(s)
    BY <1>1 DEF LinesOf
  <2>2. \A s \in Reqs : LoggedOnce(s)'
    BY <1>1, <1>4, <1>5, <2>1, LogFrame
  <2> QED BY <2>2 DEF LogInv
<1>10. SpanInv'
  <2>1. \A s \in Reqs : req'[s].pc \in Ended =>
          /\ req[s].pc \in Ended
          /\ req'[s].parent = req[s].parent /\ req'[s].outlives = req[s].outlives
    BY <1>4, <1>5 DEF Ended
  <2> QED BY <1>1, <2>1, SpanFrame DEF ShutdownFailed
<1>11. OutputInv'
  BY <1>1 DEF OutputInv, OnlyGroupsEscape, StopIsReported
<1> QED BY <1>6, <1>7, <1>8, <1>9, <1>10, <1>11

\* The attributes of the request line pass the redaction as they are.
LEMMA FlatKept ==
  ASSUME NEW key \in {"route", "status", "trace_id"}, NEW v
  PROVE  redactAttribute(Flat(key, v)) = Flat(key, v)
  BY DEF redactAttribute, Flat, Lower, allowedAttributes

LEMMA FlatInjective ==
  ASSUME NEW k1, NEW k2, NEW v1, NEW v2, Flat(k1, v1) = Flat(k2, v2)
  PROVE  k1 = k2 /\ v1 = v2
<1>1. Flat(k1, v1).key = k1 /\ Flat(k2, v2).key = k2 /\ Flat(k1, v1).value = v1 /\ Flat(k2, v2).value = v2
  BY DEF Flat
<1> QED BY <1>1

\* One line, with the status that was recorded (http.go:44-48).
LEMMA LogRequestInv == ASSUME Inv, NEW r \in Reqs, LogRequest(r) PROVE Inv'
<1> USE DEF Inv, mainVars
<1> DEFINE q == [req[r] EXCEPT !.pc = "end"]
           attrs == {Flat("route", req[r].route), Flat("status", req[r].status)} \cup TraceAttrs(r)
           line == LineOf(runtimeLogger, "info", "http.request.completed", attrs)
<1>1. /\ run \notin {"start", "new", "exited", "exitedFailed"} /\ req[r].pc = "log"
      /\ UNCHANGED <<mainVars, httpMetric, httpLatency, queue, exported, lost>>
  BY DEF LogRequest, Running
<1>2. req[r] \in Requests /\ req \in [Reqs -> Requests]
  BY DEF TypeOK
<1>3. q \in Requests /\ req' = [req EXCEPT ![r] = q]
  BY <1>2 DEF Requests, LogRequest
<1>4. /\ q.pc = "end" /\ q.outlives = req[r].outlives /\ q.route = req[r].route /\ q.parent = req[r].parent
      /\ q.wroteHeader = req[r].wroteHeader /\ q.status = req[r].status /\ q.wire = req[r].wire
  BY <1>2 DEF Requests
<1>5. req' \in [Reqs -> Requests] /\ req'[r] = q /\ \A s \in Reqs : s # r => req'[s] = req[s]
  <2> HIDE DEF q
  <2> QED BY <1>3, OneMoves
<1> HIDE DEF q
<1>6. runtimeLogger \in Loggers /\ runtimeLogger.level = settings.level
  BY SettingsAssumption DEF TypeOK, runtimeLogger, newLogger, Loggers, Sinks, Levels
<1>7. attrs \in SUBSET Attributes
  <2>1. Flat("route", req[r].route) \in Attributes
    BY <1>2 DEF Flat, Attributes, Requests, allowedAttributes
  <2>2. Flat("status", req[r].status) \in Attributes
    BY <1>2 DEF Flat, Attributes, Requests, allowedAttributes
  <2>3. TraceAttrs(r) \subseteq Attributes
    <3>1. Flat("trace_id", r) \in Attributes
      BY DEF Flat, Attributes, allowedAttributes
    <3> QED BY <3>1 DEF TraceAttrs
  <2> QED BY <2>1, <2>2, <2>3
<1>8. line.attrs = attrs
  <2>1. \A a \in attrs : redactAttribute(a) = a
    BY FlatKept DEF TraceAttrs
  <2> QED BY <2>1 DEF LineOf
<1>9. line.event = "http.request.completed"
  BY DEF LineOf, redactedEvent, allowedEvents
<1>10. \A s \in Reqs : Flat("trace_id", s) \in attrs <=> s = r /\ TraceAttrs(r) # {}
  BY FlatInjective DEF TraceAttrs
<1>11. line \in LogLines /\ \A a \in line.attrs : SafeOrGroup(a)
  <2> HIDE DEF attrs
  <2> QED BY <1>6, <1>7, LineType DEF Levels
<1>12. output' = IF settings.level \in {"debug", "info"} THEN output \o <<line>> ELSE output
  <2>1. output' = output \o Written(runtimeLogger, "info", "http.request.completed", {}, attrs)
    BY DEF LogRequest
  <2>2. output \in Seq(LogLines)
    BY DEF TypeOK
  <2> HIDE DEF attrs
  <2> QED BY <1>6, <2>1, <2>2, WrittenIs, Append0
<1>13. RequestAttrs(r)' = RequestAttrs(r) /\ TraceAttrs(r)' = TraceAttrs(r) /\ RequestAttrs(r) \subseteq attrs
  BY <1>1, <1>4, <1>5 DEF RequestAttrs, TraceAttrs
<1> HIDE DEF line, attrs
<1> DEFINE n == Len(output) + 1
<1>14. output \in Seq(LogLines)
  BY DEF TypeOK
<1>15. output' \in Seq(LogLines) /\ LogInv' /\ OnlyGroupsEscape' /\ (ShutdownFailed => ShutdownFailed')
  <2>1. CASE settings.level \in {"debug", "info"}
    <3>1. /\ output' \in Seq(LogLines)
          /\ DOMAIN output' = DOMAIN output \cup {n}
          /\ n \notin DOMAIN output
          /\ \A i \in DOMAIN output : output'[i] = output[i]
          /\ output'[n] = line
      BY <1>11, <1>12, <1>14, <2>1, Append1
    <3> HIDE DEF n
    <3>2. \A s \in Reqs : s # r => LinesOf(s)' = LinesOf(s)
      BY <1>8, <1>10, <3>1 DEF LinesOf
    <3>3. LinesOf(r) = {}
      BY <1>1 DEF LogInv, LoggedOnce
    <3>4. TraceAttrs(r) # {} => LinesOf(r)' = {n}
      BY <1>8, <1>9, <1>10, <3>1, <3>3 DEF LinesOf
    <3>5. LoggedOnce(r)'
      BY <1>1, <1>4, <1>5, <1>8, <1>13, <2>1, <3>1, <3>4 DEF LoggedOnce
    <3>6. \A s \in Reqs : s # r => LoggedOnce(s)'
      BY <1>1, <1>5, <3>1, <3>2, LogFrame
    <3>7. OnlyGroupsEscape' /\ (ShutdownFailed => ShutdownFailed')
      BY <1>11, <3>1 DEF OnlyGroupsEscape, OutputInv, ShutdownFailed
    <3> QED BY <3>1, <3>5, <3>6, <3>7 DEF LogInv
  <2>2. CASE settings.level \notin {"debug", "info"}
    <3>1. output' = output /\ \A s \in Reqs : LinesOf(s)' = LinesOf(s)
      BY <1>12, <2>2 DEF LinesOf
    <3>2. LoggedOnce(r)'
      BY <1>1, <1>4, <1>5, <1>13, <2>2, <3>1 DEF LogInv, LoggedOnce
    <3>3. \A s \in Reqs : s # r => LoggedOnce(s)'
      BY <1>1, <1>5, <3>1, LogFrame
    <3> QED BY <1>14, <3>1, <3>2, <3>3 DEF LogInv, OnlyGroupsEscape, OutputInv, ShutdownFailed
  <2> QED BY <2>1, <2>2
<1>16. TypeOK'
  BY <1>1, <1>5, <1>15 DEF TypeOK
<1>17. RequestInv'
  BY <1>1, <1>4, <1>5 DEF RequestInv, Ended
<1>18. MetricInv'
  <2>1. \A s \in Reqs :
          /\ req'[s].pc \in {"observe", "log", "end", "done"}
               <=> req[s].pc \in {"observe", "log", "end", "done"}
          /\ req'[s].pc \in {"log", "end", "done"} <=> req[s].pc \in {"log", "end", "done"}
          /\ req[s].pc \in {"observe", "log", "end", "done"} =>
               req'[s].route = req[s].route /\ req'[s].status = req[s].status
    BY <1>1, <1>4, <1>5
  <2>2. MetricsRecord => MetricsRecord'
    BY <1>1, <2>1, MetricFrame
  <2> QED BY <1>1, <1>4, <1>5, <2>2 DEF MetricInv
<1>19. SpanInv'
  <2>1. \A s \in Reqs : req'[s].pc \in Ended =>
          /\ req[s].pc \in Ended
          /\ req'[s].parent = req[s].parent /\ req'[s].outlives = req[s].outlives
    BY <1>4, <1>5 DEF Ended
  <2> QED BY <1>1, <1>15, <2>1, SpanFrame
<1>20. OutputInv'
  BY <1>1, <1>15 DEF OutputInv, StopIsReported
<1> QED BY <1>15, <1>16, <1>17, <1>18, <1>19, <1>20

\* The request is over: its span waits for the batcher or is lost, and a client that got
\* no status gets 200 (http.go:26, 30).
LEMMA EndSpanInv == ASSUME Inv, NEW r \in Reqs, EndSpan(r) PROVE Inv'
<1> USE DEF Inv, mainVars
<1> DEFINE p == IF req[r].pc = "end" THEN "done" ELSE "cut"
           w == IF req[r].wire = NoStatus /\ req[r].pc = "end" THEN 200 ELSE req[r].wire
           q == [req[r] EXCEPT !.pc = p, !.wire = w]
<1>1. /\ run \notin {"start", "new", "exited", "exitedFailed"} /\ req[r].pc \in {"end", "panicked"}
      /\ \/ ~(Sampled(r) /\ provider = "open") /\ queue' = queue /\ lost' = lost
         \/ Sampled(r) /\ provider = "open" /\ queue' = queue \cup {r} /\ lost' = lost
         \/ Sampled(r) /\ provider = "open" /\ queue' = queue /\ lost' = lost \cup {r}
      /\ UNCHANGED <<mainVars, httpMetric, httpLatency, exported, output>>
  BY DEF EndSpan, Running
<1>2. req[r] \in Requests /\ req \in [Reqs -> Requests]
  BY DEF TypeOK
<1>3. req' = [req EXCEPT ![r] = q]
  BY <1>2 DEF EndSpan
<1>4. q \in Requests
  <2>1. p \in Ended /\ w \in Codes \cup {NoStatus}
    BY <1>2, CodesAssumption DEF Requests, Ended
  <2> HIDE DEF p, w
  <2> QED BY <1>2, <2>1 DEF Requests
<1>5. /\ q.pc = IF req[r].pc = "end" THEN "done" ELSE "cut"
      /\ q.wire = IF req[r].wire = NoStatus /\ req[r].pc = "end" THEN 200 ELSE req[r].wire
      /\ q.outlives = req[r].outlives /\ q.route = req[r].route /\ q.parent = req[r].parent
      /\ q.wroteHeader = req[r].wroteHeader /\ q.status = req[r].status
  BY <1>2 DEF Requests
<1>6. req' \in [Reqs -> Requests] /\ req'[r] = q /\ \A s \in Reqs : s # r => req'[s] = req[s]
  <2> HIDE DEF q
  <2> QED BY <1>3, <1>4, OneMoves
<1> HIDE DEF q
<1>7. TypeOK'
  BY <1>1, <1>6 DEF TypeOK
<1>8. RequestInv'
  <2>1. req[r].status # NoStatus
    BY <1>2, CodesAssumption DEF Requests
  <2> QED BY <1>1, <1>5, <1>6, <2>1 DEF RequestInv, Ended
<1>9. MetricInv'
  <2>1. \A s \in Reqs :
          /\ req'[s].pc \in {"observe", "log", "end", "done"}
               <=> req[s].pc \in {"observe", "log", "end", "done"}
          /\ req'[s].pc \in {"log", "end", "done"} <=> req[s].pc \in {"log", "end", "done"}
          /\ req[s].pc \in {"observe", "log", "end", "done"} =>
               req'[s].route = req[s].route /\ req'[s].status = req[s].status
    BY <1>1, <1>5, <1>6
  <2>2. MetricsRecord => MetricsRecord'
    BY <1>1, <2>1, MetricFrame
  <2> QED BY <1>1, <1>5, <1>6, <2>2 DEF MetricInv
<1>10. LogInv'
  <2>1. \A s \in Reqs : LinesOf(s)' = LinesOf(s)
    BY <1>1 DEF LinesOf
  <2>2. \A s \in Reqs : LoggedOnce(s)'
    BY <1>1, <1>5, <1>6, <2>1, LogFrame
  <2> QED BY <2>2 DEF LogInv
<1>11. SpanInv'
  <2>1. \A s \in Reqs : Sampled(s)' <=> Sampled(s)
    BY <1>1, <1>5, <1>6 DEF Sampled
  <2>2. ShutdownFailed' <=> ShutdownFailed
    BY <1>1 DEF ShutdownFailed
  <2>3. Sampled(r) /\ ~req[r].outlives => provider = "open"
    BY <1>1 DEF RequestInv, SpanInv, Sampled, Ended, TypeOK
  <2>4. Sampled(r)' /\ ~req'[r].outlives => r \in exported' \cup lost' \cup queue'
    BY <1>1, <1>5, <1>6, <2>1, <2>3
  <2> QED BY <1>1, <1>6, <2>1, <2>2, <2>4 DEF SpanInv
<1>12. OutputInv'
  BY <1>1 DEF OutputInv, OnlyGroupsEscape, StopIsReported
<1> QED BY <1>7, <1>8, <1>9, <1>10, <1>11, <1>12

\* The batcher moves a span from the queue to the collector or loses it.
LEMMA ExportInv == ASSUME Inv, NEW r \in Reqs, Export(r) PROVE Inv'
<1> USE DEF Inv, mainVars
<1>1. /\ run \notin {"start", "new", "exited", "exitedFailed"}
      /\ queue' = queue \ {r}
      /\ \/ exported' = exported \cup {r} /\ lost' = lost
         \/ exported' = exported /\ lost' = lost \cup {r}
      /\ UNCHANGED <<mainVars, httpMetric, httpLatency, req, output>>
  BY DEF Export, Running
<1>2. TypeOK'
  BY <1>1 DEF TypeOK
<1>3. RequestInv'
  BY <1>1 DEF RequestInv
<1>4. MetricInv'
  BY <1>1, MetricFrame DEF MetricInv
<1>5. LogInv'
  <2>1. \A s \in Reqs : LinesOf(s)' = LinesOf(s)
    BY <1>1 DEF LinesOf
  <2>2. \A s \in Reqs : LoggedOnce(s)'
    BY <1>1, <2>1, LogFrame
  <2> QED BY <2>2 DEF LogInv
<1>6. SpanInv'
  BY <1>1, SpanFrame DEF ShutdownFailed
<1>7. OutputInv'
  BY <1>1 DEF OutputInv, OnlyGroupsEscape, StopIsReported
<1> QED BY <1>2, <1>3, <1>4, <1>5, <1>6, <1>7

-----------------------------------------------------------------------------
(* The theorems *)

\* Every step keeps the invariant.
LEMMA StepInv == Inv /\ [Next]_vars => Inv'
<1> SUFFICES ASSUME Inv, [Next]_vars PROVE Inv'
  OBVIOUS
<1>1. CASE Exited \/ UNCHANGED vars
  <2>1. UNCHANGED vars
    BY <1>1 DEF Exited
  <2>2. \A r : LinesOf(r)' = LinesOf(r) /\ TraceAttrs(r)' = TraceAttrs(r) /\ RequestAttrs(r)' = RequestAttrs(r)
    BY <2>1 DEF vars, LinesOf, TraceAttrs, RequestAttrs
  <2>3. TypeOK' /\ RequestInv'
    BY <2>1 DEF vars, Inv, TypeOK, RequestInv
  <2>4. MetricInv'
    BY <2>1, MetricFrame DEF vars, Inv, MetricInv
  <2>5. LogInv'
    BY <2>1, <2>2 DEF vars, Inv, LogInv, LoggedOnce
  <2>6. SpanInv'
    BY <2>1, SpanFrame DEF vars, Inv, ShutdownFailed
  <2>7. OutputInv'
    BY <2>1 DEF vars, Inv, OutputInv, OnlyGroupsEscape, StopIsReported
  <2> QED BY <2>3, <2>4, <2>5, <2>6, <2>7 DEF Inv
<1>2. CASE InstallBootstrapLogger \/ New \/ Stop \/ Shutdown \/ Exit \/ Emit
  BY <1>2, InstallBootstrapLoggerInv, NewInv, StopInv, ShutdownInv, ExitInv, EmitInv
<1>3. ASSUME NEW r \in Reqs,
             \/ Arrive(r) \/ HandlerWritesHeader(r) \/ HandlerWrites(r) \/ HandlerReturns(r)
             \/ HandlerPanics(r) \/ Count(r) \/ Observe(r) \/ LogRequest(r) \/ EndSpan(r) \/ Export(r)
      PROVE  Inv'
  BY <1>3, ArriveInv, HandlerWritesHeaderInv, HandlerWritesInv, HandlerReturnsInv,
     HandlerPanicsInv, CountInv, ObserveInv, LogRequestInv, EndSpanInv, ExportInv
<1> QED BY <1>1, <1>2, <1>3 DEF Next

\* The invariant ties the counters, the log and the spans to where each
\* request is (http.go, logging.go, observability.go).
THEOREM Invariance == Spec => []Inv
  BY InitInv, StepInv, PTL DEF Spec

\* At rest the requests that were counted are the ones that were answered.
LEMMA InvCounted == Inv => CountedAsServed
<1> SUFFICES ASSUME Inv, settings.metrics,
                    \A r \in Reqs : req[r].pc \in {"none", "handler", "done", "cut"},
                    NEW route \in DOMAIN httpLatency
             PROVE  LET Done(c) == {r \in Reqs : /\ req[r].pc = "done"
                                                 /\ req[r].route = route
                                                 /\ boundedStatus(req[r].wire) = c} IN
                    /\ \A c \in Classes : httpMetric[<<route, c>>] = Cardinality(Done(c))
                    /\ httpLatency[route] = Cardinality(UNION {Done(c) : c \in Classes})
  BY DEF CountedAsServed
<1> DEFINE Done(c) == {r \in Reqs : /\ req[r].pc = "done" /\ req[r].route = route
                                    /\ boundedStatus(req[r].wire) = c}
<1>1. MetricsRecord
  BY DEF Inv, MetricInv
<1>2. route \in Routes
  BY <1>1 DEF MetricsRecord
<1>3. \A r \in Reqs : req[r].pc = "done" => req[r].wire = req[r].status
  BY DEF Inv, RequestInv
<1>4. \A c : Done(c) = Counted(route, c)
  BY <1>3 DEF Counted
<1>5. UNION {Done(c) : c \in Classes} = Observed(route)
  <2>1. \A r \in Reqs : boundedStatus(req[r].status) \in Classes
    BY ClassOfCode DEF Inv, TypeOK, Requests
  <2>2. \A r \in Observed(route) : r \in Done(boundedStatus(req[r].status))
    BY <1>3 DEF Observed
  <2>3. \A c : Done(c) \subseteq Observed(route)
    BY DEF Observed
  <2>4. \A r \in Observed(route) : r \in Reqs
    BY DEF Observed
  <2> HIDE DEF Done
  <2> QED BY <2>1, <2>2, <2>3, <2>4
<1> HIDE DEF Done
<1>6. \A c \in Classes : httpMetric[<<route, c>>] = Cardinality(Done(c))
  BY <1>1, <1>2, <1>4 DEF MetricsRecord
<1>7. httpLatency[route] = Cardinality(UNION {Done(c) : c \in Classes})
  BY <1>1, <1>2, <1>5 DEF MetricsRecord
<1> QED BY <1>6, <1>7 DEF Done

\* Each answered request has its line.
LEMMA InvLogged == Inv => LoggedAsServed
<1> SUFFICES ASSUME Inv, NEW r \in Reqs, TraceAttrs(r) # {}
             PROVE  /\ req[r].pc = "done" =>
                         /\ Cardinality(LinesOf(r)) = IF settings.level \in {"debug", "info"} THEN 1 ELSE 0
                         /\ \A i \in LinesOf(r) : {Flat("status", req[r].wire), Flat("route", req[r].route)}
                                                     \subseteq output[i].attrs
                    /\ req[r].pc \in {"panicked", "cut"} => LinesOf(r) = {}
  BY DEF LoggedAsServed, LinesOf
<1>1. LoggedOnce(r)
  BY DEF Inv, LogInv
<1>2. CASE req[r].pc = "done"
  <2>1. RequestAttrs(r) = {Flat("status", req[r].wire), Flat("route", req[r].route)}
    BY <1>2 DEF Inv, RequestInv, RequestAttrs
  <2>2. CASE settings.level \in {"debug", "info"}
    <3>1. PICK i \in DOMAIN output : LinesOf(r) = {i} /\ RequestAttrs(r) \subseteq output[i].attrs
      BY <1>1, <1>2, <2>2 DEF LoggedOnce
    <3>2. Cardinality(LinesOf(r)) = 1
      BY <3>1, FS_Singleton
    <3> QED BY <1>2, <2>1, <2>2, <3>1, <3>2
  <2>3. CASE settings.level \notin {"debug", "info"}
    BY <1>1, <1>2, <2>3, FS_EmptySet DEF LoggedOnce
  <2> QED BY <2>2, <2>3
<1>3. CASE req[r].pc # "done"
  BY <1>1, <1>3 DEF LoggedOnce
<1> QED BY <1>2, <1>3

\* The counters, the log and what clients saw agree, for any number of
\* concurrent requests, handlers that write several headers, and panics
\* (http.go:17-79).
THEOREM TelemetryIsTruthful == Spec => []RecordedAsServed
<1>1. Inv => RecordedAsServed
  BY InvCounted, InvLogged DEF RecordedAsServed
<1> QED BY <1>1, Invariance, PTL

\* Every span of a request that ended in time was handed to the collector or given
\* up by the batcher, whatever fails, or the log has the failed shutdown
\* (observability.go:105-113, 194-198).
THEOREM SpansAreAccountedFor == Spec => []NoSpanIsForgotten
<1>1. Inv => NoSpanIsForgotten
  BY DEF Inv, SpanInv, NoSpanIsForgotten, ShutdownFailed, Ended
<1> QED BY <1>1, Invariance, PTL

\* The error that ends a process is in the log, readable, at every level
\* (apps/*/main.go, logging.go).
THEOREM FailureIsReported == Spec => []StopIsReported
<1>1. Inv => StopIsReported
  BY DEF Inv, OutputInv
<1> QED BY <1>1, Invariance, PTL

\* But for groups under a key of the allowlist nothing outside the allowlist reaches
\* the log, bound or not, through whichever logger (logging.go:96-131).
THEOREM LogIsRedacted == Spec => []OnlyGroupsEscape
<1>1. Inv => OnlyGroupsEscape
  BY DEF Inv, OutputInv
<1> QED BY <1>1, Invariance, PTL
=============================================================================
