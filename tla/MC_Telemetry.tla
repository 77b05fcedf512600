---------------------------- MODULE MC_Telemetry ----------------------------
(* Two requests against a service that counts, traces and logs them, and   *)
(* against one that does none of it and logs errors only.                  *)
EXTENDS Telemetry, TLC

MCMethods == {"GET", "POST"}
MCPaths == {"/health/ready"}
MCCodes == {200, 503, 700}
MCParents == {"none", "unsampled"}
MCSettings ==
  {[level |-> "info", metrics |-> TRUE, otel |-> TRUE],
   [level |-> "error", metrics |-> FALSE, otel |-> FALSE]}
MCSymmetry == Permutations(Reqs)
=============================================================================
