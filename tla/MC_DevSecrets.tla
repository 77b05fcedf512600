--------------------------- MODULE MC_DevSecrets ---------------------------
(* Three runs and three files: an inventory can be half moved while one run  *)
(* looks at it and another is about to claim the destination.                *)
EXTENDS DevSecrets

MCFiles == {"provider_master_keyring", "redis_password", "redis_url"}
MCWriteOrder == <<"redis_password", "redis_url", "provider_master_keyring">>
MCRenameOrder == <<"provider_master_keyring", "redis_password", "redis_url">>
=============================================================================
