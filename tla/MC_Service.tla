----------------------------- MODULE MC_Service -----------------------------
(* A service with two dependencies, small durations and two requests. *)
EXTENDS ServiceInv

\* Delays 2 and 3: doubling 2 overshoots the maximum.
MCPolicy == [startupTimeout |-> 1, probeTimeout |-> 1, probeInterval |-> 1,
             retryMinimum |-> 2, retryMaximum |-> 3]

\* That policy, and three that validate refuses.
MCPolicies ==
  {MCPolicy,
   [MCPolicy EXCEPT !.retryMinimum = 0],
   [MCPolicy EXCEPT !.retryMinimum = 4],
   [MCPolicy EXCEPT !.probeInterval = 0]}
=============================================================================
