--------------------------- MODULE ContainerStop ---------------------------
(***************************************************************************)
(* How long a service container has to stop.  docker stop sends SIGTERM    *)
(* and, after stop_grace_period (deploy/compose.yaml), SIGKILL.  In        *)
(* between the process drains its HTTP server for at most                  *)
(* SHUTDOWN_GRACE_PERIOD (internal/httpserver/server.go) and then gives    *)
(* telemetry five seconds (apps/*/main.go).                                *)
(*                                                                         *)
(* HttpServer has the steps of the drain; this module has the clock.  Time *)
(* passes in units of five seconds, and a deadline that has come is acted  *)
(* upon before time goes on.                                               *)
(***************************************************************************)
EXTENDS Naturals

CONSTANTS
  Reqs,        \* requests in flight when the container is stopped
  Graces,      \* values of SHUTDOWN_GRACE_PERIOD, in units
  StopGrace    \* stop_grace_period, in units

VARIABLES
  grace,      \* Server.shutdownGrace
  now,        \* time since SIGTERM
  process,    \* what the process does
  flushAt,    \* when telemetry.Shutdown was called
  req         \* what becomes of each request

vars == <<grace, now, process, flushAt, req>>

FlushTimeout == 1

Stopped == process \in {"exited", "killed"}

Init ==
  /\ grace \in Graces
  /\ now = 0
  /\ process = "serving"
  /\ flushAt = 0
  /\ req = [r \in Reqs |-> "open"]

\* SIGTERM: dependency.Run clears readiness and cancels the server's context.
Terminate ==
  /\ process = "serving"
  /\ process' = "draining"
  /\ UNCHANGED <<grace, now, flushAt, req>>

RequestEnds(r) ==
  /\ ~Stopped
  /\ req[r] = "open"
  /\ req' = [req EXCEPT ![r] = "served"]
  /\ UNCHANGED <<grace, now, process, flushAt>>

Drained == \A r \in Reqs : req[r] # "open"

\* The context of Shutdown has expired.
DrainDeadline == now >= grace

\* Shutdown returns because nothing is open, or at its deadline; then Close
\* cuts what is left.
DrainEnds ==
  /\ process = "draining"
  /\ Drained \/ DrainDeadline
  /\ req' = [r \in Reqs |-> IF req[r] = "open" THEN "cut" ELSE req[r]]
  /\ process' = "flushing"
  /\ flushAt' = now
  /\ UNCHANGED <<grace, now>>

\* The deadline of shutdownTelemetry has come.
FlushDue == now >= flushAt + FlushTimeout

\* telemetry.Shutdown returns, by itself or at its deadline, and main exits.
FlushEnds ==
  /\ process = "flushing"
  /\ process' = "exited"
  /\ UNCHANGED <<grace, now, flushAt, req>>

\* The container runtime gives up waiting.
Kill ==
  /\ process \in {"draining", "flushing"}
  /\ now >= StopGrace
  /\ req' = [r \in Reqs |-> IF req[r] = "open" THEN "cut" ELSE req[r]]
  /\ process' = "killed"
  /\ UNCHANGED <<grace, now, flushAt>>

Tick ==
  /\ process \in {"draining", "flushing"}
  /\ now < StopGrace
  /\ ~(process = "draining" /\ DrainDeadline)
  /\ ~(process = "flushing" /\ FlushDue)
  /\ now' = now + 1
  /\ UNCHANGED <<grace, process, flushAt, req>>

Finished == Stopped /\ UNCHANGED vars

Next ==
  \/ Terminate \/ DrainEnds \/ FlushEnds \/ Kill \/ Tick \/ Finished
  \/ \E r \in Reqs : RequestEnds(r)

Spec == Init /\ [][Next]_vars

-----------------------------------------------------------------------------
(* Properties *)

\* A request that was in flight when the container was told to stop is only
\* ever cut after it had the whole configured drain period
\* (docs/requirements.md:396).
GraceIsHonoured == \A r \in Reqs : req[r] = "cut" => now >= grace
=============================================================================
