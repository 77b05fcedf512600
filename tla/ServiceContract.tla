-------------------------- MODULE ServiceContract --------------------------
(***************************************************************************)
(* What a service promises whoever routes traffic to it and supervises it, *)
(* without its goroutines, channels and timers:                            *)
(*   - it is ready only while it serves, and withdraws readiness before it *)
(*     begins to drain;                                                    *)
(*   - it stops with success only from a drain, and a transport that broke *)
(*     or a setup that failed is a failure;                                *)
(*   - a drain and a broken transport both end.                            *)
(***************************************************************************)

VARIABLES phase, ready, status

contractVars == <<phase, ready, status>>

Init ==
  /\ phase = "starting"
  /\ ready = FALSE
  /\ status = "none"

BeginServing ==
  /\ phase = "starting"
  /\ phase' = "serving"
  /\ ready' = TRUE
  /\ UNCHANGED status

\* Readiness follows the dependencies.
ChangeReadiness ==
  /\ phase = "serving"
  /\ ready' \in BOOLEAN
  /\ UNCHANGED <<phase, status>>

BeginDraining ==
  /\ phase \in {"starting", "serving"}
  /\ ~ready
  /\ phase' = "draining"
  /\ UNCHANGED <<ready, status>>

\* The transport ends by itself.  Nobody can read readiness from here on.
Break ==
  /\ phase \in {"starting", "serving", "draining", "broken"}
  /\ phase' = "broken"
  /\ ready' \in BOOLEAN
  /\ UNCHANGED status

\* Nothing was ever served, the transport broke, or a drain ended.
Stop ==
  /\ phase \in {"starting", "draining", "broken"}
  /\ phase' = "stopped"
  /\ ready' = FALSE
  /\ status' \in IF phase = "draining" THEN {"0", "1"} ELSE {"1"}

Next == BeginServing \/ ChangeReadiness \/ BeginDraining \/ Break \/ Stop

Ends == phase \in {"draining", "broken"} /\ Stop

Spec == Init /\ [][Next]_contractVars /\ WF_contractVars(Ends)
=============================================================================
