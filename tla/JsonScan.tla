------------------------------ MODULE JsonScan ------------------------------
(***************************************************************************)
(* Reading a key ring (internal/config/secret.go): the bytes come from     *)
(* SecretFile, strictJSON scans the document against a schema, then        *)
(* decodes it again with encoding/json, whose own rules are laxer, and the *)
(* reader validates what came out.                                         *)
(*                                                                         *)
(* Every file spells a document besides the text that readSecretBytes      *)
(* looks at.  A document is a sequence of JSON values: an object           *)
(* [t |-> "obj", f |-> fields] with a sequence of <<name, value>> pairs,   *)
(* an array [t |-> "arr", e |-> elements], or a scalar: [t |-> "str",      *)
(* s |-> text], [t |-> "num", n |-> number] or Null.  It is Malformed if   *)
(* its syntax is.  A field that is none of the key rings', or one of       *)
(* theirs in other letters, is "other" or "VERSION".                       *)
(***************************************************************************)
EXTENDS SecretFile, SecretReaders, FiniteSets

CONSTANTS
  Documents,   \* the documents that may be read
  Schemas,     \* the fields of the documents' object, one set for each reader
  MaxInt64     \* the greatest number of the type that the wire structs' numbers have

ASSUME MaxInt64Assumption == MaxInt64 \in Nat \ {0}

VARIABLES
  schema,   \* the reader's fields
  document, \* the document each file spells
  ringPc,   \* "read", "scan", "decode", "validate", "accepted" or "refused"
  wire      \* what was decoded

ringVars == <<schema, document, ringPc, wire>>

\* The document of the open file, whose content never changes.
doc == document[file]

KeyFields == {"key_id", "key"}
Null == [t |-> "null"]
Scalar(value) == value.t \in {"str", "num", "null"}

\* The JSON values: a record of one of the five kinds, and what it contains.
IsSeq(s) == Len(s) \in Nat /\ s = [i \in 1 .. Len(s) |-> s[i]]
Shaped(x) ==
  \/ x = Null
  \/ x.t = "str" /\ x = [t |-> "str", s |-> x.s]
  \/ x.t = "num" /\ x = [t |-> "num", n |-> x.n] /\ x.n \in Int
  \/ x.t = "arr" /\ x = [t |-> "arr", e |-> x.e] /\ IsSeq(x.e)
  \/ x.t = "obj" /\ x = [t |-> "obj", f |-> x.f] /\ IsSeq(x.f)
Children(x) ==
  IF x.t = "obj" THEN {x.f[i][2] : i \in DOMAIN x.f}
  ELSE IF x.t = "arr" THEN {x.e[i] : i \in DOMAIN x.e} ELSE {}

\* The two readers' wire structs, and documents as deep as these look.
RingFields == {"version", "active_key_id", "keys"}
ASSUME SchemasAssumption == Schemas \subseteq {RingFields, RingFields \cup {"expected_epoch"}}
ASSUME DocumentsAssumption ==
  \A d \in Documents :
    /\ IsSeq(d)
    /\ \A i \in DOMAIN d : d[i] # Malformed =>
         /\ Shaped(d[i])
         /\ \A x \in Children(d[i]) : Shaped(x) /\ \A y \in Children(x) : Shaped(y) /\ \A z \in Children(y) : Shaped(z)

ReadInit ==
  /\ FileInit
  /\ schema \in Schemas
  /\ document \in [Inodes -> Documents]
  /\ ringPc = "read"
  /\ wire = Null

\* readSecretBytes has returned bytes or an error.
BytesRead ==
  /\ pc = "done"
  /\ ringPc = "read"
  /\ ringPc' = IF result = None THEN "refused" ELSE "scan"
  /\ UNCHANGED <<schema, document, wire>>

Names(value) == {value.f[i][1] : i \in DOMAIN value.f}
Repeats(value) == \E i, j \in DOMAIN value.f : i # j /\ value.f[i][1] = value.f[j][1]

\* A bug: a repeated field is let through.
scanFieldsRepeated(value, fields) == Names(value) \subseteq fields

\* An object of scanJSONValue: known fields only, each at most once.
scanFields(value, fields) == Names(value) \subseteq fields /\ ~Repeats(value)

\* scanJSONValue for a key entry, and for the document.  A scalar passes
\* everywhere; an object or an array passes where the schema has one.
scanEntry(value) ==
  \/ Scalar(value)
  \/ /\ value.t = "obj" /\ scanFields(value, KeyFields)
     /\ \A i \in DOMAIN value.f : Scalar(value.f[i][2])
scanKeys(value) ==
  \/ Scalar(value)
  \/ value.t = "arr" /\ \A i \in DOMAIN value.e : scanEntry(value.e[i])
scanJSONValue(value) ==
  \/ Scalar(value)
  \/ /\ value.t = "obj" /\ scanFields(value, schema)
     /\ \A i \in DOMAIN value.f :
          IF value.f[i][1] = "keys" THEN scanKeys(value.f[i][2]) ELSE Scalar(value.f[i][2])

\* strictJSON up to the first trailing-value check: one value, nothing after.
Scannable(d) == Malformed \notin {d[i] : i \in DOMAIN d} /\ Len(d) = 1 /\ scanJSONValue(d[1])

Scan ==
  /\ ringPc = "scan"
  /\ ringPc' = IF Scannable(doc) THEN "decode" ELSE "refused"
  /\ UNCHANGED <<schema, document, wire>>

\* encoding/json: a field is found by name, in any letters, and the last one
\* counts; a missing one, or null, is the zero value.
Fold(name) == IF name = "VERSION" THEN "version" ELSE name
Last(value, name) ==
  LET found == {i \in DOMAIN value.f : Fold(value.f[i][1]) = name}
  IN IF found = {} THEN Null
     ELSE value.f[CHOOSE i \in found : \A j \in found : j <= i][2]
Object(value) == IF value.t = "obj" THEN value ELSE [t |-> "obj", f |-> <<>>]
Text(value)   == IF value = Null THEN Empty ELSE value.s
Number(value) == IF value = Null THEN 0 ELSE value.n

\* The types Decode insists on: null fits everywhere, a number only a number
\* that the field's type holds.
Fits(value, t) == value = Null \/ value.t = t
FitsInt(value) == value = Null \/ (value.t = "num" /\ value.n \in (-MaxInt64 - 1) .. MaxInt64)
FitsEntry(value) == value = Null \/ (value.t = "obj" /\ \A n \in KeyFields : Fits(Last(value, n), "str"))
FitsDocument(value) ==
  LET keys == Last(value, "keys")
  IN /\ \A n \in schema \cap {"version", "expected_epoch"} : FitsInt(Last(value, n))
     /\ Fits(Last(value, "active_key_id"), "str")
     /\ keys = Null \/ (keys.t = "arr" /\ \A i \in DOMAIN keys.e : FitsEntry(keys.e[i]))

\* decoder.Decode into the wire struct.
Decodable(value) == (value = Null \/ value.t = "obj") /\ FitsDocument(Object(value))
DecodedEntry(value) ==
  [id |-> Text(Last(Object(value), "key_id")), key |-> Text(Last(Object(value), "key"))]
Decoded(value) ==
  LET keys == Last(Object(value), "keys")
  IN [version |-> Number(Last(Object(value), "version")),
      expectedEpoch |-> Number(Last(Object(value), "expected_epoch")),
      active |-> Text(Last(Object(value), "active_key_id")),
      keys |-> IF keys = Null THEN <<>> ELSE [i \in DOMAIN keys.e |-> DecodedEntry(keys.e[i])]]

Decode ==
  /\ ringPc = "decode"
  /\ IF Decodable(doc[1]) THEN ringPc' = "validate" /\ wire' = Decoded(doc[1])
     ELSE ringPc' = "refused" /\ UNCHANGED wire
  /\ UNCHANGED <<schema, document>>

\* ReadKeyRing and ReadProviderKeyRing after strictJSON; the empty string is
\* no key, no identifier.
Valid(ring) ==
  /\ "expected_epoch" \in schema => ring.expectedEpoch >= 1
  /\ ring.active # Empty
  /\ \A i \in DOMAIN ring.keys : Empty \notin {ring.keys[i].id, ring.keys[i].key}
  /\ validateRing(ring)

ValidateRing ==
  /\ ringPc = "validate"
  /\ ringPc' = IF Valid(wire) THEN "accepted" ELSE "refused"
  /\ UNCHANGED <<schema, document, wire>>

Decided == ringPc \in {"accepted", "refused"} /\ UNCHANGED <<fileVars, ringVars>>

RingNext == BytesRead \/ Scan \/ Decode \/ ValidateRing

ReadNext ==
  \/ FileNext /\ UNCHANGED ringVars
  \/ RingNext /\ UNCHANGED fileVars
  \/ Decided

ReadSpec == ReadInit /\ [][ReadNext]_<<fileVars, ringVars>>

(* Properties *)

\* The reference: one object with exactly the schema's fields, a list of
\* entries with exactly an identifier and a key each, neither of them empty or
\* malformed, version 1, a positive 64-bit epoch, distinct identifiers, the active one
\* among them.
Get(value, name) == value.f[CHOOSE i \in DOMAIN value.f : value.f[i][1] = name][2]
ExactObject(value, names) == value.t = "obj" /\ Names(value) = names /\ Len(value.f) = Cardinality(names)
WellFormedRing(d) ==
  /\ Len(d) = 1 /\ d[1] # Malformed
  /\ ExactObject(d[1], schema)
  /\ Get(d[1], "version") = [t |-> "num", n |-> 1]
  /\ "expected_epoch" \in schema =>
       Get(d[1], "expected_epoch").t = "num" /\ Get(d[1], "expected_epoch").n \in 1 .. MaxInt64
  /\ LET keys == Get(d[1], "keys") IN
       /\ keys.t = "arr"
       /\ \A i \in DOMAIN keys.e :
            /\ ExactObject(keys.e[i], KeyFields)
            /\ \A n \in KeyFields : Get(keys.e[i], n).t = "str" /\ Get(keys.e[i], n).s \notin {Empty, Malformed}
            /\ \A j \in 1 .. (i - 1) : Get(keys.e[i], "key_id") # Get(keys.e[j], "key_id")
       /\ \E i \in DOMAIN keys.e : Get(keys.e[i], "key_id") = Get(d[1], "active_key_id")

\* Two parsers with different rules look at each document.  What they accept
\* together is exactly the well-formed rings (secret.go:105-152, 283-361):
\* nothing is taken for a zero value, nothing is read from a repeated or
\* misspelt field, and the ring is that of the file whose mode was checked.
OnlyWellFormedRings ==
  ringPc \in {"accepted", "refused"} =>
    (ringPc = "accepted" <=> result # None /\ WellFormedRing(document[linkInfo.inode]))
=============================================================================
