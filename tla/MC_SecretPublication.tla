------------------------ MODULE MC_SecretPublication ------------------------
(* Three volumes, one of them with two files; the source is replaced twice.  *)
EXTENDS SecretPublication

MCTargets == <<"postgres", "migrate", "gateway">>
MCFilesOf ==
  [postgres |-> <<"postgres_migration_password", "postgres_gateway_password">>,
   migrate |-> <<"postgres_migration_password">>,
   gateway |-> <<"postgres_gateway_password">>]
=============================================================================
