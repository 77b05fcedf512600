------------------------------ MODULE Service ------------------------------
(***************************************************************************)
(* One NexusRelay service process (apps/gateway, apps/control-plane and    *)
(* apps/worker have the same main.go): configuration, telemetry and client *)
(* pools are set up in order, dependency.Run runs the service, and the     *)
(* deferred calls tear it down in reverse order.                           *)
(***************************************************************************)
EXTENDS DependencyRun

VARIABLES
  mainPc,       \* where main is
  resources,    \* telemetry and the client pools that are open
  exitCode      \* the status of the process, or "none"

mainVars == <<mainPc, resources, exitCode>>
vars == <<httpVars, depVars, mainVars>>

MainPcs == {"load", "telemetry", "postgresql", "redis", "run", "closeRedis",
            "closePostgreSQL", "shutdownTelemetry", "exit"}
Clients == {"postgresql", "redis"}
Resources == Clients \cup {"telemetry"}

TypeOK ==
  /\ HttpTypeOK
  /\ DepTypeOK
  /\ mainPc \in MainPcs
  /\ resources \in SUBSET Resources
  /\ exitCode \in {"none", "0", "1"}

Init ==
  /\ HttpInit
  /\ DepInit
  /\ mainPc = "load"
  /\ resources = {}
  /\ exitCode = "none"

-----------------------------------------------------------------------------
(* main and run *)

\* run returns err to main, which exits with status 1.
Fails(next) ==
  /\ exitCode' = "1"
  /\ mainPc' = next

LoadConfig ==
  /\ mainPc = "load"
  /\ \/ Fails("exit")
     \/ mainPc' = "telemetry" /\ UNCHANGED exitCode
  /\ UNCHANGED <<resources, httpVars, depVars>>

NewTelemetry ==
  /\ mainPc = "telemetry"
  /\ \/ /\ Fails("exit")
        /\ UNCHANGED resources
     \/ /\ resources' = resources \cup {"telemetry"}
        /\ mainPc' = "postgresql"
        /\ UNCHANGED exitCode
  /\ UNCHANGED <<httpVars, depVars>>

\* dependency.Open: the PostgreSQL pool.
OpenPostgreSQL ==
  /\ mainPc = "postgresql"
  /\ \/ /\ Fails("shutdownTelemetry")
        /\ UNCHANGED resources
     \/ /\ resources' = resources \cup {"postgresql"}
        /\ mainPc' = "redis"
        /\ UNCHANGED exitCode
  /\ UNCHANGED <<httpVars, depVars>>

\* A bug: the pool stays open when the Redis options are refused.
OpenRedisLeaks ==
  /\ mainPc = "redis"
  /\ \/ /\ Fails("shutdownTelemetry")
        /\ UNCHANGED <<resources, runPc>>
     \/ /\ resources' = resources \cup {"redis"}
        /\ mainPc' = "run"
        /\ runPc' = "enter"
        /\ UNCHANGED exitCode
  /\ UNCHANGED <<httpVars, policy, signalled, startupExpired, setReadyNext, setReadyArg,
                 gauge, depGauge, retryDelay, probe, depUp, serveChan, runReturn>>

\* dependency.Open: the Redis client; when its options are refused the pool
\* is closed again.  Then dependency.Run is called.
OpenRedis ==
  /\ mainPc = "redis"
  /\ \/ /\ Fails("shutdownTelemetry")
        /\ resources' = resources \ {"postgresql"}
        /\ UNCHANGED runPc
     \/ /\ resources' = resources \cup {"redis"}
        /\ mainPc' = "run"
        /\ runPc' = "enter"
        /\ UNCHANGED exitCode
  /\ UNCHANGED <<httpVars, policy, signalled, startupExpired, setReadyNext, setReadyArg,
                 gauge, depGauge, retryDelay, probe, depUp, serveChan, runReturn>>

\* dependency.Run has returned: its error decides the exit status.
RunEnded ==
  /\ mainPc = "run"
  /\ runPc = "done"
  /\ exitCode' = IF runReturn = "nil" THEN "0" ELSE "1"
  /\ mainPc' = "closeRedis"
  /\ UNCHANGED <<resources, httpVars, depVars>>

\* The deferred Clients.Close and shutdownTelemetry.  A failed telemetry
\* shutdown is logged and does not change the outcome.
CloseStep(pc, resource, next) ==
  /\ mainPc = pc
  /\ resources' = resources \ {resource}
  /\ mainPc' = next
  /\ UNCHANGED <<exitCode, httpVars, depVars>>

CloseRedis == CloseStep("closeRedis", "redis", "closePostgreSQL")
ClosePostgreSQL == CloseStep("closePostgreSQL", "postgresql", "shutdownTelemetry")
ShutdownTelemetry == CloseStep("shutdownTelemetry", "telemetry", "exit")

\* SIGINT or SIGTERM, through signal.NotifyContext.
Signal ==
  /\ ~signalled
  /\ mainPc # "exit"
  /\ signalled' = TRUE
  /\ UNCHANGED <<policy, startupExpired, runPc, setReadyNext, setReadyArg, gauge,
                 depGauge, retryDelay, probe, depUp, serveChan, runReturn,
                 httpVars, mainVars>>

Exited == mainPc = "exit" /\ UNCHANGED vars

-----------------------------------------------------------------------------

MainStep ==
  \/ LoadConfig \/ NewTelemetry \/ OpenPostgreSQL \/ OpenRedis
  \/ RunEnded \/ CloseRedis \/ ClosePostgreSQL \/ ShutdownTelemetry

\* A process that has exited takes no step.
Alive == mainPc # "exit"

RunNext ==
  \/ RunStep \/ StartupSelect \/ SteadySelect
  \/ ServeGoroutineSends \/ StartupTimerExpires
  \/ \E p \in Probes : PingEnds(p) \/ DependencyChanges(p)

Next ==
  \/ MainStep
  \/ Signal
  \/ Alive /\ RunNext /\ UNCHANGED mainVars
  \/ Alive /\ HttpNext /\ UNCHANGED <<depVars, mainVars>>
  \/ Exited

\* Runnable goroutines run, timers fire and pings end at their timeout.  Go's
\* select chooses at random among its ready cases, so one that is ready time
\* and again is taken: strong fairness for the cases that end a loop.  A
\* ticker ticks again while nothing else is ready.  Nothing is assumed of
\* signals, dependencies, clients and handlers.
Fairness ==
  /\ WF_vars(MainStep)
  /\ WF_vars(Alive /\ RunStep /\ UNCHANGED mainVars)
  /\ WF_vars(Alive /\ StartupSelect /\ UNCHANGED mainVars)
  /\ WF_vars(Alive /\ SteadySelect /\ UNCHANGED mainVars)
  /\ SF_vars(Alive /\ (StartupSelectServeResult \/ StartupSelectDone) /\ UNCHANGED mainVars)
  /\ SF_vars(Alive /\ (SteadyServeResult \/ SteadySignal) /\ UNCHANGED mainVars)
  /\ WF_vars(Alive /\ ServeGoroutineSends /\ UNCHANGED mainVars)
  /\ WF_vars(Alive /\ StartupTimerExpires /\ UNCHANGED mainVars)
  /\ \A p \in Probes : WF_vars(Alive /\ PingEnds(p) /\ UNCHANGED mainVars)
  /\ WF_vars(Alive /\ ServerStep /\ UNCHANGED <<depVars, mainVars>>)
  /\ WF_vars(Alive /\ AcceptMustStep /\ UNCHANGED <<depVars, mainVars>>)
  /\ WF_vars(Alive /\ GraceExpires /\ UNCHANGED <<depVars, mainVars>>)

Spec == Init /\ [][Next]_vars /\ Fairness

-----------------------------------------------------------------------------
(* The contract this specification implements *)

ServerBroke ==
  serverPc \in {"returned", "gone"} /\ serveReturn \in {"listenErr", "serveErr"}

PcAfterSetReady == IF runPc = "setReady" THEN setReadyNext ELSE runPc

Phase ==
  IF exitCode # "none" THEN "stopped"
  ELSE IF ServerBroke THEN "broken"
  ELSE IF serveCtxDone THEN "draining"
  ELSE IF PcAfterSetReady \in {"steady", "tickProbing", "cancel"} THEN "serving"
  ELSE "starting"

Contract == INSTANCE ServiceContract
              WITH phase <- Phase, ready <- healthReady, status <- exitCode

\* The safety half of the contract: its initial state and its steps.
ContractSafety == Contract!Init /\ [][Contract!Next]_(Contract!contractVars)

\* The service implements its contract, liveness included: the phases are read
\* off the server's and Run's program counters (readiness.go:51-116,
\* server.go:36-62, main.go:23-53).
ImplementsContract == Contract!Spec

-----------------------------------------------------------------------------
(* Safety *)

ServerRuns == serverPc \notin {"idle", "returned", "gone"}

\* While the HTTP server still runs under a cancelled context, readiness has
\* been withdrawn: on a signal (readiness.go:108-110) and on a failed startup
\* (86-88).  The deferred calls run cancelServe before setReady(false) (65-67),
\* so this depends on Run having taken the server's result by then.
NotReadyWhileDraining == serveCtxDone /\ ServerRuns => ~healthReady

\* No probe goroutine pings, and the HTTP server does not run, while telemetry
\* or a client pool it uses is closed (main.go:42-52): Run returns only after
\* its round was awaited (readiness.go:135) and the server was.
NoUseAfterClose ==
  (\E p \in Probes : probe[p] = "ping") \/ ServerRuns => Resources \subseteq resources

\* The process exits with status 0 only after a signal, and with every request
\* answered (main.go:23-26 through readiness.go:90-96,111 and server.go:53-61).
\* A startup timeout is a failure although the server stopped cleanly, as long as
\* no signal has come by then; with one Run returns the server's nil
\* (readiness.go:90-91) and the process exits with 0.
ExitZeroMeansDrained ==
  exitCode = "0" => signalled /\ \A c \in Conns : ~HandlerRuns(c)

\* Between rounds the two readiness signals agree with each other and with the
\* gauges of the last round: the three are stored by different goroutines
\* (readiness.go:113,129-131 and main.go:51).
MetricsAgree ==
  runPc = "steady" =>
    /\ gauge = healthReady
    /\ healthReady = \A p \in Probes : depGauge[p]

\* However the process ends, nothing is left behind: telemetry and pools closed,
\* the port free, readiness withdrawn from both signals, and no goroutine of
\* the server, the accept loop or a probe left running (main.go:42-52,
\* dependency.go:35, readiness.go:65-67).
ExitReleasesEverything ==
  mainPc = "exit" =>
    /\ resources = {}
    /\ ~listenerOpen
    /\ ~healthReady /\ ~gauge
    /\ serverPc \in {"idle", "gone"} /\ acceptPc \in {"none", "returned"}
    /\ \A p \in Probes : probe[p] # "ping"

\* The delay between startup rounds stays within the policy's limits, also
\* when doubling overshoots (readiness.go:73,99) or minimum equals maximum.
RetryDelayWithinPolicy ==
  retryDelay # 0 => policy.retryMinimum <= retryDelay /\ retryDelay <= policy.retryMaximum

-----------------------------------------------------------------------------
(* Liveness *)

\* A signal ends the process (readiness.go:86,108), even when a dependency
\* hangs, a request never ends or the tick is always ready.
SignalStops == signalled ~> mainPc = "exit"

\* Startup does not go on for ever (readiness.go:71-100): the service becomes
\* ready or ends, however often rounds fail.
StartupEnds == runPc = "startupProbing" ~> runPc \in {"steady", "done"}

\* Readiness follows the dependencies (readiness.go:76-77,112-113).  When one is
\* down for good, readiness is withdrawn and stays so; when all have recovered
\* for good, the service becomes ready and stays ready unless it is told to
\* stop or its server ends.
ReadinessFollowsDependencies ==
  /\ \A p \in Probes : <>[](~depUp[p]) => <>[](~healthReady)
  /\ <>[](\A p \in Probes : depUp[p]) => <>[](healthReady \/ signalled \/ exitCode # "none")
=============================================================================
