--------------------------- MODULE SecretReaders ---------------------------
(***************************************************************************)
(* The typed readers of secret files (internal/config/secret.go).  A file  *)
(* system is a function files from paths to contents.  Its domain holds    *)
(* the paths that readSecretBytes accepts (module SecretFile is about how  *)
(* it decides), and a content is Malformed when its text is refused by the *)
(* reader's own syntax: a control character, no URI, a JSON document that  *)
(* strictJSON refuses (module JsonScan), no canonical base64 key.          *)
(***************************************************************************)
EXTENDS Integers, Sequences

CONSTANTS
  Empty,       \* the empty string
  Malformed    \* any text that the syntax expected at its place refuses

\* ReadSecretFile and ReadSimpleSecret.
ReadSimpleSecret(files, path) ==
  /\ path \in DOMAIN files
  /\ files[path] # Malformed

\* ReadURISecret: one absolute URI of an allowed scheme.
ReadURISecret(files, path, schemes) ==
  /\ ReadSimpleSecret(files, path)
  /\ files[path].host # Empty
  /\ files[path].scheme \in schemes

\* ReadBase64Key.
ReadBase64Key(files, path) == ReadSimpleSecret(files, path)

\* validateRing: version 1, well-formed keys under distinct identifiers, and
\* the active one among them.
validateRing(ring) ==
  /\ ring.version = 1
  /\ ring.active # Malformed
  /\ Len(ring.keys) > 0
  /\ \A i \in DOMAIN ring.keys :
       /\ Malformed \notin {ring.keys[i].id, ring.keys[i].key}
       /\ \A j \in 1 .. (i - 1) : ring.keys[j].id # ring.keys[i].id
  /\ \E i \in DOMAIN ring.keys : ring.keys[i].id = ring.active

ReadKeyRing(files, path) ==
  /\ ReadSimpleSecret(files, path)
  /\ validateRing(files[path])

ReadProviderKeyRing(files, path) ==
  /\ ReadSimpleSecret(files, path)
  /\ files[path].expectedEpoch >= 1
  /\ validateRing(files[path])

ReadCloudflareCredentials(files, path) ==
  /\ ReadSimpleSecret(files, path)
  /\ Empty \notin {files[path].accountTag, files[path].tunnelSecret, files[path].tunnelID}
=============================================================================
