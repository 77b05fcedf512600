---------------------------- MODULE MC_JsonScan ----------------------------
(* A key ring is read while files are renamed over its path: two regular   *)
(* files, a link to one of them and a directory.  Either the texts of the  *)
(* files vary, or the document, around a ring of one or two keys.          *)
EXTENDS JsonScan

CONSTANTS f, g, l, d
MCInodes == {f, g, l, d}
MCKinds == [i \in MCInodes |-> IF i = l THEN g ELSE IF i = d THEN "directory" ELSE "regular"]
MCContents == UNION {[1 .. n -> {"x", "n", "r"}] : n \in 0 .. 2} \cup
              {<<"x", "r", "n">>, <<"x", "n", "n">>, <<"x", "x", "x">>, <<"x", "x", "n">>,
               <<"s", "x">>, <<"x", "s">>, <<"x", "s", "x">>, <<"x", "u">>, <<"x", "x", "x", "n">>}

Str(x) == [t |-> "str", s |-> x]
Num(x) == [t |-> "num", n |-> x]
Obj(fields) == [t |-> "obj", f |-> fields]
Arr(elements) == [t |-> "arr", e |-> elements]

MCScalars == {Str("k1"), Str("k2"), Str(Empty), Str(Malformed), Null}
MCEntries ==
  {Obj(<<<<"key_id", a>>, <<"key", b>>>>) : a \in MCScalars, b \in {Str("k1"), Str(Malformed), Null}}
  \cup {Obj(<<<<"key_id", Str("k1")>>>>), Null, Arr(<<>>),
        Obj(<<<<"key", Str("k1")>>, <<"key_id", Str("k2")>>, <<"key_id", Str("k1")>>>>),
        Obj(<<<<"key_id", Str("k1")>>, <<"key", Arr(<<>>)>>>>)}
MCKeys == {Null, Obj(<<>>)} \cup {Arr(s) : s \in UNION {[1 .. n -> MCEntries] : n \in 0 .. 2}}

MCVersions == {Num(1), Num(MaxInt64), Num(MaxInt64 + 1), Str("k1"), Null}
MCTop ==
  {Obj(<<<<"version", x>>, <<"active_key_id", a>>, <<"keys", k>>>>) :
     x \in MCVersions, a \in MCScalars, k \in MCKeys}
MCGood == Arr(<<Obj(<<<<"key_id", Str("k1")>>, <<"key", Str("k1")>>>>)>>)
MCRingFields == <<<<"version", Num(1)>>, <<"active_key_id", Str("k1")>>, <<"keys", MCGood>>>>
\* A field added, doubled, misspelt or left out.
MCVariants ==
  {Obj(MCRingFields \o <<extra>>) :
     extra \in {"version", "VERSION", "other", "keys", "expected_epoch"} \X
       {Num(0), Num(1), Num(MaxInt64), Num(MaxInt64 + 1), Num(-MaxInt64 - 2), Null, MCGood}}
  \cup {Obj(SubSeq(MCRingFields, 1, 2)), Obj(<<>>), Obj(Tail(MCRingFields)), Null, Str("k1"), MCGood}
MCDocuments ==
  {<<x>> : x \in MCTop \cup MCVariants}
  \cup {<<Obj(MCRingFields), y>> : y \in {Null, Malformed, Obj(MCRingFields)}}
  \cup {<<Malformed>>, <<>>}

MCSchemas == {RingFields, RingFields \cup {"expected_epoch"}}

\* The file f holds a ring and the others a document that is none.
MCTextsVary ==
  /\ schema = RingFields
  /\ document = [i \in Inodes |-> IF i = f THEN <<Obj(MCRingFields)>> ELSE <<Malformed>>]
  /\ \E a \in Contents, b \in {<<"x">>, <<"x", "r">>, <<"x", "r", "n">>} : content = [i \in Inodes |-> IF i = f THEN a ELSE IF i = g THEN b ELSE <<>>]
  /\ \E s \in SUBSET {f, g} : private = {l, d} \cup s
  /\ ReadInit

\* The file f is left alone.
MCDocumentsVary ==
  /\ schema \in Schemas
  /\ \E x \in Documents : document = [i \in Inodes |-> x]
  /\ content = [i \in Inodes |-> <<"x", "n">>]
  /\ private = Inodes
  /\ path = f
  /\ changes = MaxChanges
  /\ pc = "lstat"
  /\ linkInfo = [inode |-> None, private |-> FALSE]
  /\ file = None
  /\ result = None
  /\ ringPc = "read"
  /\ wire = Null

MCSpec == (MCTextsVary \/ MCDocumentsVary) /\ [][ReadNext]_<<fileVars, ringVars>>
=============================================================================
