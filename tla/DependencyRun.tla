--------------------------- MODULE DependencyRun ---------------------------
(***************************************************************************)
(* dependency.Run (internal/dependency/readiness.go): the goroutine that   *)
(* owns a service's readiness.  It starts the HTTP server in a goroutine   *)
(* of its own, under a context detached from the signal context, probes    *)
(* the dependencies until all answer or the startup timeout expires, and   *)
(* then keeps probing on every tick until a signal arrives or the server   *)
(* ends.                                                                   *)
(*                                                                         *)
(* setReady is the closure of apps/*/main.go: it stores Health.ready and   *)
(* then the service_ready gauge, two stores that readers can separate.     *)
(***************************************************************************)
EXTENDS HttpServer

CONSTANTS
  Probes,     \* the dependencies probed: PostgreSQL and Redis
  Policies    \* the readiness policies a service may be configured with

VARIABLES
  policy,           \* the ReadinessPolicy given to Run
  signalled,        \* ctx.Err() # nil: SIGINT or SIGTERM was delivered
  startupExpired,   \* the startup timeout has passed
  runPc,            \* where Run is
  setReadyNext,     \* where Run goes on when setReady returns
  setReadyArg,      \* the argument of the setReady call under way
  gauge,            \* the service_ready gauge
  depGauge,         \* the dependency_ready gauge of each dependency
  retryDelay,       \* retryDelay
  probe,            \* each probe goroutine of the current round
  depUp,            \* the dependency answers a ping in time
  serveChan,        \* the channel serveResult of Run
  runReturn         \* what Run returned

depVars == <<policy, signalled, startupExpired, runPc, setReadyNext,
             setReadyArg, gauge, depGauge, retryDelay, probe, depUp,
             serveChan, runReturn>>

\* What the steps of Run itself leave alone.
runEnvVars == <<policy, signalled, startupExpired, depGauge, depUp>>

\* The part of the server's state that Run never touches.
serverVars == <<acceptPc, acceptChan, listenerOpen, inShutdown, graceExpired,
                conn, serveReturn>>

ASSUME ProbesAssumption == Probes # {}

ASSUME PoliciesAssumption ==
  \A p \in Policies :
    p \in [startupTimeout : Int, probeTimeout : Int, probeInterval : Int,
           retryMinimum : Int, retryMaximum : Int]

-----------------------------------------------------------------------------

\* ReadinessPolicy.validate.
ValidPolicy(p) ==
  /\ p.startupTimeout > 0
  /\ p.probeTimeout > 0
  /\ p.probeInterval > 0
  /\ p.retryMinimum > 0
  /\ p.retryMaximum >= p.retryMinimum

MinInt(a, b) == IF a <= b THEN a ELSE b

RunPcs == {"idle", "enter", "spawn", "setReady", "startupProbing",
           "startupSelect", "startupAwait", "steady", "tickProbing",
           "cancel", "awaitServe", "return", "deferred", "done"}
RunResults == ServeResults \cup {"policyErr", "startupTimeout"}
Finished == {"ok", "failed"}

DepTypeOK ==
  /\ policy \in Policies
  /\ signalled \in BOOLEAN
  /\ startupExpired \in BOOLEAN
  /\ runPc \in RunPcs
  /\ setReadyNext \in RunPcs
  /\ setReadyArg \in BOOLEAN
  /\ gauge \in BOOLEAN
  /\ depGauge \in [Probes -> BOOLEAN]
  /\ retryDelay \in Int
  /\ probe \in [Probes -> {"idle", "ping"} \cup Finished]
  /\ depUp \in [Probes -> BOOLEAN]
  /\ serveChan \in ServeResults
  /\ runReturn \in RunResults

DepInit ==
  /\ policy \in Policies
  /\ signalled = FALSE
  /\ startupExpired = FALSE
  /\ runPc = "idle"
  /\ setReadyNext = "idle"
  /\ setReadyArg = FALSE
  /\ gauge = FALSE
  /\ depGauge = [p \in Probes |-> FALSE]
  /\ retryDelay = 0
  /\ probe = [p \in Probes |-> "idle"]
  /\ depUp \in [Probes -> BOOLEAN]
  /\ serveChan = "none"
  /\ runReturn = "none"

-----------------------------------------------------------------------------
(* setReady *)

\* health.SetReady(ready); Run goes on at next when the gauge is stored too.
SetReady(ready, next) ==
  /\ healthReady' = ready
  /\ setReadyArg' = ready
  /\ setReadyNext' = next
  /\ runPc' = "setReady"

\* telemetry.SetReady(ready).
StoreGauge ==
  /\ runPc = "setReady"
  /\ gauge' = setReadyArg
  /\ runPc' = setReadyNext
  /\ UNCHANGED <<runEnvVars, setReadyNext, setReadyArg, retryDelay, probe, serveChan,
                 runReturn, serveCtxDone, healthReady, serverPc, serverVars>>

-----------------------------------------------------------------------------
(* runProbes: one goroutine per probe, awaited together *)

LaunchProbes == probe' = [p \in Probes |-> "ping"]

RoundFinished == \A p \in Probes : probe[p] \in Finished
NoneFailed == \A p \in Probes : probe[p] = "ok"

\* A bug: the startup has no timeout.
StartupContextOnlySignal == signalled

StartupContextDone == signalled \/ startupExpired

\* The context of the round under way: startupContext, or ctx.
RoundContextDone == signalled \/ (runPc = "startupProbing" /\ startupExpired)

\* A ping ends and its outcome is observed.  It succeeds only if the
\* dependency answers; it fails if that is down, slower than the probe
\* timeout, or the round's context is done.
PingEnds(p) ==
  /\ probe[p] = "ping"
  /\ \/ /\ depUp[p]
        /\ probe' = [probe EXCEPT ![p] = "ok"]
        /\ depGauge' = [depGauge EXCEPT ![p] = TRUE]
     \/ /\ ~depUp[p] \/ RoundContextDone
        /\ probe' = [probe EXCEPT ![p] = "failed"]
        /\ depGauge' = [depGauge EXCEPT ![p] = FALSE]
  /\ UNCHANGED <<policy, signalled, startupExpired, runPc, setReadyNext,
                 setReadyArg, gauge, retryDelay, depUp, serveChan, runReturn, httpVars>>

-----------------------------------------------------------------------------
(* Run: entry and startup *)

\* An invalid policy is refused before anything is started.
RejectPolicy ==
  /\ runPc = "enter"
  /\ ~ValidPolicy(policy)
  /\ runReturn' = "policyErr"
  /\ runPc' = "done"
  /\ UNCHANGED <<runEnvVars, setReadyNext, setReadyArg, gauge, retryDelay, probe,
                 serveChan, httpVars>>

EnterRun ==
  /\ runPc = "enter"
  /\ ValidPolicy(policy)
  /\ SetReady(FALSE, "spawn")
  /\ UNCHANGED <<runEnvVars, gauge, retryDelay, probe, serveChan, runReturn,
                 serveCtxDone, serverPc, serverVars>>

\* The server goroutine starts, the startup timer runs, the first round begins.
SpawnServe ==
  /\ runPc = "spawn"
  /\ serverPc' = "listen"
  /\ retryDelay' = policy.retryMinimum
  /\ LaunchProbes
  /\ runPc' = "startupProbing"
  /\ UNCHANGED <<runEnvVars, setReadyNext, setReadyArg, gauge, serveChan, runReturn,
                 serveCtxDone, healthReady, serverVars>>

\* Every dependency answered: ready, whatever happened to the contexts since.
StartupSucceeds ==
  /\ runPc = "startupProbing"
  /\ RoundFinished
  /\ NoneFailed
  /\ SetReady(TRUE, "steady")
  /\ UNCHANGED <<runEnvVars, gauge, retryDelay, probe, serveChan, runReturn,
                 serveCtxDone, serverPc, serverVars>>

StartupRoundFails ==
  /\ runPc = "startupProbing"
  /\ RoundFinished
  /\ ~NoneFailed
  /\ runPc' = "startupSelect"
  /\ UNCHANGED <<runEnvVars, setReadyNext, setReadyArg, gauge, retryDelay, probe,
                 serveChan, runReturn, httpVars>>

\* Run takes the server's result and returns it; its deferred calls follow.
TakeServeResult(result) ==
  /\ serveChan # "none"
  /\ serveChan' = "none"
  /\ runReturn' = result
  /\ runPc' = "return"

StartupSelectServeResult ==
  /\ runPc = "startupSelect"
  /\ TakeServeResult(serveChan)
  /\ UNCHANGED <<runEnvVars, setReadyNext, setReadyArg, gauge, retryDelay, probe, httpVars>>

StartupSelectDone ==
  /\ runPc = "startupSelect"
  /\ StartupContextDone
  /\ serveCtxDone' = TRUE
  /\ runPc' = "startupAwait"
  /\ UNCHANGED <<runEnvVars, setReadyNext, setReadyArg, gauge, retryDelay, probe,
                 serveChan, runReturn, healthReady, serverPc, serverVars>>

\* A bug: the delay doubles without its cap.
StartupSelectTimerUncapped ==
  /\ runPc = "startupSelect"
  /\ retryDelay' = 2 * retryDelay
  /\ LaunchProbes
  /\ runPc' = "startupProbing"
  /\ UNCHANGED <<runEnvVars, setReadyNext, setReadyArg, gauge, serveChan, runReturn,
                 httpVars>>

StartupSelectTimer ==
  /\ runPc = "startupSelect"
  /\ retryDelay' = MinInt(2 * retryDelay, policy.retryMaximum)
  /\ LaunchProbes
  /\ runPc' = "startupProbing"
  /\ UNCHANGED <<runEnvVars, setReadyNext, setReadyArg, gauge, serveChan, runReturn,
                 httpVars>>

\* A bug: a startup timeout with a clean shutdown passes for success.
StartupAwaitServeForgetsTimeout ==
  /\ runPc = "startupAwait"
  /\ TakeServeResult(serveChan)
  /\ UNCHANGED <<runEnvVars, setReadyNext, setReadyArg, gauge, retryDelay, probe, httpVars>>

\* The startup failed: the server's error, or the timeout unless a signal has
\* arrived by now.
StartupAwaitServe ==
  /\ runPc = "startupAwait"
  /\ TakeServeResult(IF ~signalled /\ serveChan = "nil" THEN "startupTimeout" ELSE serveChan)
  /\ UNCHANGED <<runEnvVars, setReadyNext, setReadyArg, gauge, retryDelay, probe, httpVars>>

-----------------------------------------------------------------------------
(* Run: the steady loop *)

SteadyServeResult ==
  /\ runPc = "steady"
  /\ TakeServeResult(serveChan)
  /\ UNCHANGED <<runEnvVars, setReadyNext, setReadyArg, gauge, retryDelay, probe, httpVars>>

\* A bug: the server is cancelled before readiness is cleared.
SteadySignalCancelsFirst ==
  /\ runPc = "steady"
  /\ signalled
  /\ serveCtxDone' = TRUE
  /\ runPc' = "awaitServe"
  /\ UNCHANGED <<runEnvVars, setReadyNext, setReadyArg, gauge, retryDelay, probe,
                 serveChan, runReturn, healthReady, serverPc, serverVars>>

\* A bug: the server is not cancelled at all.
SteadySignalForgetsCancel ==
  /\ runPc = "steady"
  /\ signalled
  /\ SetReady(FALSE, "awaitServe")
  /\ UNCHANGED <<runEnvVars, gauge, retryDelay, probe, serveChan, runReturn,
                 serveCtxDone, serverPc, serverVars>>

\* The signal: readiness is cleared first.
SteadySignal ==
  /\ runPc = "steady"
  /\ signalled
  /\ SetReady(FALSE, "cancel")
  /\ UNCHANGED <<runEnvVars, gauge, retryDelay, probe, serveChan, runReturn,
                 serveCtxDone, serverPc, serverVars>>

CancelServe ==
  /\ runPc = "cancel"
  /\ serveCtxDone' = TRUE
  /\ runPc' = "awaitServe"
  /\ UNCHANGED <<runEnvVars, setReadyNext, setReadyArg, gauge, retryDelay, probe,
                 serveChan, runReturn, healthReady, serverPc, serverVars>>

\* A bug: Run returns without waiting for the server.
AwaitServeSkipped ==
  /\ runPc = "awaitServe"
  /\ runReturn' = "nil"
  /\ runPc' = "return"
  /\ UNCHANGED <<runEnvVars, setReadyNext, setReadyArg, gauge, retryDelay, probe,
                 serveChan, httpVars>>

AwaitServe ==
  /\ runPc = "awaitServe"
  /\ TakeServeResult(serveChan)
  /\ UNCHANGED <<runEnvVars, setReadyNext, setReadyArg, gauge, retryDelay, probe, httpVars>>

SteadyTick ==
  /\ runPc = "steady"
  /\ LaunchProbes
  /\ runPc' = "tickProbing"
  /\ UNCHANGED <<runEnvVars, setReadyNext, setReadyArg, gauge, retryDelay, serveChan,
                 runReturn, httpVars>>

\* A bug: the round does not wait for its slow probes.
TickRoundEndsEarly ==
  /\ runPc = "tickProbing"
  /\ \E p \in Probes : probe[p] \in Finished
  /\ SetReady(\A p \in Probes : probe[p] # "failed", "steady")
  /\ UNCHANGED <<runEnvVars, gauge, retryDelay, probe, serveChan, runReturn,
                 serveCtxDone, serverPc, serverVars>>

\* A bug: readiness once given is never withdrawn.
TickRoundNeverClears ==
  /\ runPc = "tickProbing"
  /\ RoundFinished
  /\ SetReady(healthReady \/ NoneFailed, "steady")
  /\ UNCHANGED <<runEnvVars, gauge, retryDelay, probe, serveChan, runReturn,
                 serveCtxDone, serverPc, serverVars>>

TickRoundEnds ==
  /\ runPc = "tickProbing"
  /\ RoundFinished
  /\ SetReady(NoneFailed, "steady")
  /\ UNCHANGED <<runEnvVars, gauge, retryDelay, probe, serveChan, runReturn,
                 serveCtxDone, serverPc, serverVars>>

\* The deferred calls, last registered first: cancelServe ...
DeferredCancelServe ==
  /\ runPc = "return"
  /\ serveCtxDone' = TRUE
  /\ runPc' = "deferred"
  /\ UNCHANGED <<runEnvVars, setReadyNext, setReadyArg, gauge, retryDelay, probe,
                 serveChan, runReturn, healthReady, serverPc, serverVars>>

\* ... and then setReady(false).
DeferredSetReady ==
  /\ runPc = "deferred"
  /\ SetReady(FALSE, "done")
  /\ UNCHANGED <<runEnvVars, gauge, retryDelay, probe, serveChan, runReturn,
                 serveCtxDone, serverPc, serverVars>>

-----------------------------------------------------------------------------
(* The goroutine around serve, the timers and the world *)

\* go func() { serveResult <- serve(serveContext) }(): the send never blocks.
ServeGoroutineSends ==
  /\ serverPc = "returned"
  /\ serverPc' = "gone"
  /\ serveChan' = serveReturn
  /\ UNCHANGED <<runEnvVars, runPc, setReadyNext, setReadyArg, gauge, retryDelay, probe,
                 runReturn, serveCtxDone, healthReady, serverVars>>

StartupTimerExpires ==
  /\ runPc \in {"startupProbing", "startupSelect"}
  /\ ~startupExpired
  /\ startupExpired' = TRUE
  /\ UNCHANGED <<policy, signalled, runPc, setReadyNext, setReadyArg, gauge, depGauge,
                 retryDelay, probe, depUp, serveChan, runReturn, httpVars>>

DependencyChanges(p) ==
  /\ depUp' = [depUp EXCEPT ![p] = ~depUp[p]]
  /\ UNCHANGED <<policy, signalled, startupExpired, runPc, setReadyNext, setReadyArg,
                 gauge, depGauge, retryDelay, probe, serveChan, runReturn, httpVars>>

\* Steps of Run other than the choices of its two selects.
RunStep ==
  \/ StoreGauge \/ RejectPolicy \/ EnterRun \/ SpawnServe
  \/ StartupSucceeds \/ StartupRoundFails \/ StartupAwaitServe
  \/ CancelServe \/ AwaitServe \/ TickRoundEnds
  \/ DeferredCancelServe \/ DeferredSetReady

StartupSelect == StartupSelectServeResult \/ StartupSelectDone \/ StartupSelectTimer
SteadySelect == SteadyServeResult \/ SteadySignal \/ SteadyTick
=============================================================================
