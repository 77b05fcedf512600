----------------------------- MODULE HttpServer -----------------------------
(***************************************************************************)
(* The operational HTTP server of every NexusRelay service:                *)
(* httpserver.Server.Run and Serve (internal/httpserver/server.go) and the *)
(* readiness flag of httpserver.Health (health.go).                        *)
(*                                                                         *)
(* Three kinds of goroutine take steps:                                    *)
(*   - the one that runs Server.Run (serverPc);                            *)
(*   - the accept loop, net/http's Server.Serve (acceptPc), which reports  *)
(*     on a channel of capacity one (acceptChan);                          *)
(*   - one handler per connection (conn).                                  *)
(*                                                                         *)
(* net/http is not part of the repository.  What server.go relies on is    *)
(* modelled: Serve refuses to start once Shutdown was called, returns      *)
(* ErrServerClosed when its listener was closed by Shutdown, and any other *)
(* error otherwise; Shutdown closes the listeners that Serve registered,   *)
(* waits for their accept loops, then polls until no handler is active or  *)
(* its context expires; Close cuts connections and waits for no handler.   *)
(***************************************************************************)
EXTENDS Integers

CONSTANT Conns    \* connections that clients may open, one request each

VARIABLES
  serveCtxDone,   \* the context given to Server.Run is cancelled
  healthReady,    \* Health.ready
  serverPc,       \* where Server.Run is
  acceptPc,       \* where the accept loop is
  acceptChan,     \* the channel serveResult of Serve
  listenerOpen,   \* the TCP listener is open
  inShutdown,     \* http.Server.inShutdown
  graceExpired,   \* the shutdown context has expired
  conn,           \* what became of each connection
  serveReturn     \* what Server.Run returned

httpVars == <<serveCtxDone, healthReady, serverPc, acceptPc, acceptChan,
              listenerOpen, inShutdown, graceExpired, conn, serveReturn>>

\* What is left alone by a step of Server.Run or of the accept loop.
httpEnvVars == <<serveCtxDone, healthReady>>

ServerPcs == {"idle", "listen", "select", "shutdown", "listenerWait", "poll",
              "closeWait", "await", "returned", "gone"}
AcceptPcs == {"none", "spawned", "accepting", "returned"}
ConnStates == {"none", "active", "ready", "notReady", "orphan", "cut"}
ServeResults == {"none", "nil", "listenErr", "serveErr", "shutdownErr"}

HttpTypeOK ==
  /\ serveCtxDone \in BOOLEAN
  /\ healthReady \in BOOLEAN
  /\ serverPc \in ServerPcs
  /\ acceptPc \in AcceptPcs
  /\ acceptChan \in {"empty", "closed", "error"}
  /\ listenerOpen \in BOOLEAN
  /\ inShutdown \in BOOLEAN
  /\ graceExpired \in BOOLEAN
  /\ conn \in [Conns -> ConnStates]
  /\ serveReturn \in ServeResults

HttpInit ==
  /\ serveCtxDone = FALSE
  /\ healthReady = FALSE
  /\ serverPc = "idle"
  /\ acceptPc = "none"
  /\ acceptChan = "empty"
  /\ listenerOpen = FALSE
  /\ inShutdown = FALSE
  /\ graceExpired = FALSE
  /\ conn = [c \in Conns |-> "none"]
  /\ serveReturn = "none"

-----------------------------------------------------------------------------
(* Server.Run: the listener *)

ServerReturns(result) ==
  /\ serverPc' = "returned"
  /\ serveReturn' = result

\* net.Listen fails, for example because the port is taken.
ListenFails ==
  /\ serverPc = "listen"
  /\ ServerReturns("listenErr")
  /\ UNCHANGED <<httpEnvVars, acceptPc, acceptChan, listenerOpen, inShutdown,
                 graceExpired, conn>>

\* net.Listen succeeds and Serve starts the accept goroutine.
ListenSucceeds ==
  /\ serverPc = "listen"
  /\ listenerOpen' = TRUE
  /\ acceptPc' = "spawned"
  /\ serverPc' = "select"
  /\ UNCHANGED <<httpEnvVars, acceptChan, inShutdown, graceExpired, conn, serveReturn>>

-----------------------------------------------------------------------------
(* The accept loop, net/http Server.Serve *)

\* Serve returns on every path with its listener closed, and the goroutine
\* around it sends the result.
AcceptReturns(result) ==
  /\ acceptPc' = "returned"
  /\ acceptChan' = result
  /\ listenerOpen' = FALSE

\* The goroutine is scheduled and Serve registers its listener, or refuses to
\* because Shutdown has been called in between.
AcceptStarts ==
  /\ acceptPc = "spawned"
  /\ \/ /\ inShutdown
        /\ AcceptReturns("closed")
     \/ /\ ~inShutdown
        /\ acceptPc' = "accepting"
        /\ UNCHANGED <<acceptChan, listenerOpen>>
  /\ UNCHANGED <<httpEnvVars, serverPc, inShutdown, graceExpired, conn, serveReturn>>

AcceptConn(c) ==
  /\ acceptPc = "accepting"
  /\ listenerOpen
  /\ conn[c] = "none"
  /\ conn' = [conn EXCEPT ![c] = "active"]
  /\ UNCHANGED <<httpEnvVars, serverPc, acceptPc, acceptChan, listenerOpen,
                 inShutdown, graceExpired, serveReturn>>

\* Accept fails: because Shutdown closed the listener, or permanently.
AcceptStops ==
  /\ acceptPc = "accepting"
  /\ AcceptReturns(IF inShutdown THEN "closed" ELSE "error")
  /\ UNCHANGED <<httpEnvVars, serverPc, inShutdown, graceExpired, conn, serveReturn>>

-----------------------------------------------------------------------------
(* Handlers *)

\* The readiness handler answers from the flag it loads.
Answer(c) ==
  /\ conn[c] = "active"
  /\ conn' = [conn EXCEPT ![c] = IF healthReady THEN "ready" ELSE "notReady"]
  /\ UNCHANGED <<httpEnvVars, serverPc, acceptPc, acceptChan, listenerOpen,
                 inShutdown, graceExpired, serveReturn>>

\* A handler whose connection Close has cut runs to its end all the same.
OrphanEnds(c) ==
  /\ conn[c] = "orphan"
  /\ conn' = [conn EXCEPT ![c] = "cut"]
  /\ UNCHANGED <<httpEnvVars, serverPc, acceptPc, acceptChan, listenerOpen,
                 inShutdown, graceExpired, serveReturn>>

HandlerRuns(c) == conn[c] \in {"active", "orphan"}

NoneActive == \A c \in Conns : conn[c] # "active"

-----------------------------------------------------------------------------
(* Server.Serve: the select, Shutdown, Close *)

\* The accept loop ended by itself.
SelectServeResult ==
  /\ serverPc = "select"
  /\ acceptChan # "empty"
  /\ acceptChan' = "empty"
  /\ ServerReturns(IF acceptChan = "closed" THEN "nil" ELSE "serveErr")
  /\ UNCHANGED <<httpEnvVars, acceptPc, listenerOpen, inShutdown, graceExpired, conn>>

\* The context is cancelled: the grace period starts.
SelectContextDone ==
  /\ serverPc = "select"
  /\ serveCtxDone
  /\ serverPc' = "shutdown"
  /\ UNCHANGED <<httpEnvVars, acceptPc, acceptChan, listenerOpen, inShutdown,
                 graceExpired, conn, serveReturn>>

GraceExpires ==
  /\ serverPc \in {"shutdown", "listenerWait", "poll"}
  /\ ~graceExpired
  /\ graceExpired' = TRUE
  /\ UNCHANGED <<httpEnvVars, serverPc, acceptPc, acceptChan, listenerOpen,
                 inShutdown, conn, serveReturn>>

\* Shutdown sets inShutdown and closes the listeners Serve has registered.
ShutdownBegins ==
  /\ serverPc = "shutdown"
  /\ inShutdown' = TRUE
  /\ listenerOpen' = (listenerOpen /\ acceptPc # "accepting")
  /\ serverPc' = "listenerWait"
  /\ UNCHANGED <<httpEnvVars, acceptPc, acceptChan, graceExpired, conn, serveReturn>>

\* Shutdown has seen every accept loop end and looks at the connections once
\* before it looks at its context.
ShutdownFirstPoll ==
  /\ serverPc = "listenerWait"
  /\ acceptPc # "accepting"
  /\ serverPc' = IF NoneActive THEN "await" ELSE "poll"
  /\ UNCHANGED <<httpEnvVars, acceptPc, acceptChan, listenerOpen, inShutdown,
                 graceExpired, conn, serveReturn>>

ShutdownDrained ==
  /\ serverPc = "poll"
  /\ NoneActive
  /\ serverPc' = "await"
  /\ UNCHANGED <<httpEnvVars, acceptPc, acceptChan, listenerOpen, inShutdown,
                 graceExpired, conn, serveReturn>>

\* Shutdown gives up and Serve calls Close, which cuts what is left.
ShutdownExpires ==
  /\ serverPc = "poll"
  /\ graceExpired
  /\ conn' = [c \in Conns |-> IF conn[c] = "active" THEN "orphan" ELSE conn[c]]
  /\ serverPc' = "closeWait"
  /\ UNCHANGED <<httpEnvVars, acceptPc, acceptChan, listenerOpen, inShutdown,
                 graceExpired, serveReturn>>

\* Serve waits for the accept loop after Close and reports the failed shutdown.
CloseWaited ==
  /\ serverPc = "closeWait"
  /\ acceptChan # "empty"
  /\ acceptChan' = "empty"
  /\ ServerReturns("shutdownErr")
  /\ UNCHANGED <<httpEnvVars, acceptPc, listenerOpen, inShutdown, graceExpired, conn>>

\* A bug: Serve returns after Shutdown without waiting for the accept loop.
ResultNotAwaited ==
  /\ serverPc = "await"
  /\ ServerReturns("nil")
  /\ UNCHANGED <<httpEnvVars, acceptPc, acceptChan, listenerOpen, inShutdown,
                 graceExpired, conn>>

\* Serve waits for the accept loop after Shutdown and reports its error, if any.
ResultAwaited ==
  /\ serverPc = "await"
  /\ acceptChan # "empty"
  /\ acceptChan' = "empty"
  /\ ServerReturns(IF acceptChan = "closed" THEN "nil" ELSE "serveErr")
  /\ UNCHANGED <<httpEnvVars, acceptPc, listenerOpen, inShutdown, graceExpired, conn>>

-----------------------------------------------------------------------------
\* Steps of Server.Run that nothing outside the server can hold up for ever.
ServerStep ==
  \/ ListenFails \/ ListenSucceeds
  \/ SelectServeResult \/ SelectContextDone
  \/ ShutdownBegins \/ ShutdownFirstPoll \/ ShutdownDrained \/ ShutdownExpires
  \/ CloseWaited \/ ResultAwaited

\* A closed listener makes Accept fail; an open one may serve for ever.
AcceptMustStep == AcceptStarts \/ (AcceptStops /\ inShutdown)

HttpNext ==
  \/ ServerStep
  \/ GraceExpires
  \/ AcceptStarts
  \/ AcceptStops
  \/ \E c \in Conns : AcceptConn(c) \/ Answer(c) \/ OrphanEnds(c)

-----------------------------------------------------------------------------
(* Properties *)

\* When Serve has returned (server.go:36-62) the port is free and its accept
\* goroutine has ended, even when Shutdown ran before that goroutine did; and
\* it returned nil only after a drained shutdown: its context was cancelled and
\* no handler is still running, neither one it stopped waiting for nor one
\* accepted while the shutdown began.
ReturnMeansStopped ==
  serverPc \in {"returned", "gone"} =>
    /\ ~listenerOpen
    /\ acceptPc \in {"none", "returned"}
    /\ serveReturn = "nil" => serveCtxDone /\ \A c \in Conns : ~HandlerRuns(c)
=============================================================================
