-------------------------- MODULE MC_ContainerStop --------------------------
(* Values of SHUTDOWN_GRACE_PERIOD in units of five seconds: short ones,   *)
(* the default of 30 s, those around the stop period of 40 s, and the      *)
(* longest the parser accepts.                                             *)
EXTENDS ContainerStop

MCGraces == {1, 2, 6, 7, 8, 9, 12, 60}
=============================================================================
