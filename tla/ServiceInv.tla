----------------------------- MODULE ServiceInv -----------------------------
(***************************************************************************)
(* The inductive invariant behind the safety properties of Service, in     *)
(* three parts: the HTTP server, dependency.Run, and main.                 *)
(***************************************************************************)
EXTENDS Service

\* The HTTP server: what its program counter says about the accept loop, the
\* connections and the cancelled context.
HttpInv ==
  /\ serverPc \in {"idle", "listen"} => acceptPc = "none" /\ NoneActive
  /\ serverPc \in {"idle", "listen", "select", "shutdown"} => ~inShutdown
  /\ serverPc \in {"listenerWait", "poll", "closeWait", "await"} => inShutdown
  /\ serverPc \in {"shutdown", "listenerWait", "poll", "closeWait", "await"} => serveCtxDone
  /\ acceptPc = "accepting" => serverPc \in {"select", "shutdown", "listenerWait"}
  /\ acceptPc \in {"none", "returned"} => ~listenerOpen
  /\ acceptChan # "empty" => acceptPc = "returned"
  /\ acceptChan = "closed" => inShutdown
  /\ serverPc \in {"returned", "gone"} => acceptPc \in {"none", "returned"}
  /\ serveReturn # "none" <=> serverPc \in {"returned", "gone"}
  /\ (\E c \in Conns : conn[c] = "orphan") =>
       serverPc = "closeWait" \/ serveReturn = "shutdownErr"
  /\ serverPc = "await" => NoneActive
  /\ serveReturn = "nil" => NoneActive
  /\ serveReturn \in {"nil", "shutdownErr"} => serveCtxDone

\* The steps of Run at which the server's context is not cancelled, and those
\* at which it has been because of a signal.
BeforeCancel == {"idle", "enter", "spawn", "startupProbing", "startupSelect",
                 "steady", "tickProbing", "cancel"}

\* Run: readiness, the server's context and the server's result against Run's
\* program counter.
RunInv ==
  /\ setReadyNext # "setReady"
  /\ runPc = "setReady" => setReadyNext \in {"spawn", "steady", "cancel", "done"}
  /\ runPc = "setReady" => setReadyArg = healthReady
  /\ runPc = "setReady" /\ setReadyNext # "steady" => ~healthReady
  /\ healthReady => PcAfterSetReady \in {"steady", "tickProbing", "return", "deferred"}
  /\ PcAfterSetReady \in BeforeCancel => ~serveCtxDone
  /\ PcAfterSetReady \in {"cancel", "awaitServe"} => signalled
  /\ PcAfterSetReady \in {"idle", "enter", "spawn"} => serverPc = "idle"
  /\ runPc \in {"idle", "enter"} => ~gauge
  /\ PcAfterSetReady \in {"return", "deferred"} => serverPc = "gone"
  /\ runPc \in {"return", "deferred"} /\ healthReady =>
       serveReturn \in {"listenErr", "serveErr"}
  /\ runPc = "deferred" => serveCtxDone
  /\ PcAfterSetReady = "done" => serverPc \in {"idle", "gone"}
  /\ runPc = "done" => ~gauge
  /\ serveChan # "none" => serverPc = "gone" /\ serveChan = serveReturn
  /\ runReturn = "nil" => signalled /\ serveReturn = "nil" /\ serverPc = "gone"

\* Run: the round of probes and the gauges.
RoundInv ==
  /\ (\E p \in Probes : probe[p] = "ping") => runPc \in {"startupProbing", "tickProbing"}
  /\ \A p \in Probes : probe[p] \in Finished => (depGauge[p] <=> probe[p] = "ok")
  /\ PcAfterSetReady = "steady" =>
       /\ RoundFinished
       /\ healthReady = NoneFailed
  /\ runPc = "steady" => gauge = healthReady

\* Run: the retry delay.  Startup begins with a valid policy only.
RetryInv ==
  /\ PcAfterSetReady = "spawn" => ValidPolicy(policy)
  /\ retryDelay # 0 => policy.retryMinimum <= retryDelay /\ retryDelay <= policy.retryMaximum
  /\ retryDelay # 0 => policy.retryMinimum > 0
  /\ runPc \in {"startupProbing", "startupSelect"} => retryDelay # 0

\* main: what is open, what Run has done and what is decided at each step.
MainInv ==
  /\ "telemetry" \in resources <=> mainPc \notin {"load", "telemetry", "exit"}
  /\ "postgresql" \in resources <=> mainPc \in {"redis", "run", "closeRedis", "closePostgreSQL"}
  /\ "redis" \in resources <=> mainPc \in {"run", "closeRedis"}
  /\ mainPc \in {"load", "telemetry", "postgresql", "redis"} =>
       runPc = "idle" /\ exitCode = "none"
  /\ mainPc = "run" => runPc # "idle" /\ exitCode = "none"
  /\ mainPc \in {"closeRedis", "closePostgreSQL"} => runPc = "done"
  /\ mainPc \in {"shutdownTelemetry", "exit"} => runPc \in {"idle", "done"}
  /\ exitCode = "0" => runReturn = "nil"

\* All of it, for dependency.Run, the HTTP server and main together
\* (readiness.go:51-116, server.go:28-62, gateway/main.go:18-61): every program
\* counter says what the channels, contexts, gauges and resources hold.
Inv == TypeOK /\ HttpInv /\ RunInv /\ RoundInv /\ RetryInv /\ MainInv
=============================================================================
