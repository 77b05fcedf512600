--------------------------- MODULE Config_proofs ---------------------------
(***************************************************************************)
(* What is proved of the configuration: that a secret file is read as it   *)
(* was checked (SecretFile), that two JSON parsers together accept exactly *)
(* the well-formed key rings (JsonScan), and what the preflight's verdict  *)
(* says about the containers (Preflight).                                  *)
(***************************************************************************)
EXTENDS JsonScan, Preflight, SequenceTheorems, FiniteSetTheorems, TLAPS

(***************************************************************************)
(* Cutting the line ending                                                 *)
(***************************************************************************)

\* SubSeqProperties for a part of a sequence.
LEMMA Part ==
  ASSUME NEW S, NEW s \in Seq(S), NEW m \in 1 .. Len(s), NEW n \in 0 .. Len(s)
  PROVE  /\ SubSeq(s, m, n) \in Seq(S)
         /\ Len(SubSeq(s, m, n)) = IF m <= n THEN n - m + 1 ELSE 0
         /\ \A i \in 1 .. n - m + 1 : SubSeq(s, m, n)[i] = s[m + i - 1]
<1>1. m \in Int /\ n \in Int /\ \A i \in m .. n : s[i] \in S
  BY LenProperties
<1> QED BY <1>1, SubSeqProperties

LEMMA Prefix ==
  ASSUME NEW S, NEW s \in Seq(S), NEW n \in 0 .. Len(s)
  PROVE  /\ SubSeq(s, 1, n) \in Seq(S)
         /\ Len(SubSeq(s, 1, n)) = n
         /\ \A i \in 1 .. n : SubSeq(s, 1, n)[i] = s[i]
<1>0. Len(s) \in Nat
  BY LenProperties
<1>1. 1 \in Int /\ n \in Int /\ \A i \in 1 .. n : s[i] \in S
  BY LenProperties
<1>2. /\ SubSeq(s, 1, n) \in Seq(S)
      /\ Len(SubSeq(s, 1, n)) = IF 1 <= n THEN n - 1 + 1 ELSE 0
      /\ \A i \in 1 .. n - 1 + 1 : SubSeq(s, 1, n)[i] = s[1 + i - 1]
  BY <1>1, SubSeqProperties
<1>3. ASSUME NEW i \in 1 .. n PROVE SubSeq(s, 1, n)[i] = s[i]
  <2>1. i \in 1 .. n - 1 + 1 /\ 1 + i - 1 = i
    BY <1>0
  <2> QED BY <2>1, <1>2
<1> QED BY <1>0, <1>2, <1>3

\* The two characters of a carriage return and a line feed.
LEMMA ReturnFeed ==
  ASSUME NEW t \in Seq(Characters)
  PROVE  t = <<"r", "n">> <=> Len(t) = 2 /\ t[1] = "r" /\ t[2] = "n"
<1>1. <<"r", "n">> \in Seq(Characters) /\ Len(<<"r", "n">>) = 2
  BY DEF Characters
<1>2. ASSUME Len(t) = 2, t[1] = "r", t[2] = "n" PROVE t = <<"r", "n">>
  <2>1. \A i \in 1 .. Len(t) : t[i] = <<"r", "n">>[i]
    BY <1>2
  <2> QED BY <2>1, <1>1, <1>2, SeqEqual
<1> QED BY <1>2

\* What CutLineEnd removes is one line ending or nothing.
LEMMA CutLineEndSuffix ==
  ASSUME NEW b \in Seq(Characters)
  PROVE  /\ CutLineEnd(b) \in Seq(Characters)
         /\ Len(CutLineEnd(b)) <= Len(b)
         /\ \E e \in LineEnds : CutLineEnd(b) \o e = b
<1> DEFINE n == Len(b)
<1>0. n \in Nat /\ \A i \in 1 .. n : b[i] \in Characters
  BY LenProperties
<1>1. CASE n >= 2 /\ SubSeq(b, n - 1, n) = <<"r", "n">>
  <2> DEFINE s == SubSeq(b, 1, n - 2)
  <2>1. CutLineEnd(b) = s
    BY <1>1 DEF CutLineEnd
  <2>2. s \in Seq(Characters) /\ Len(s) = n - 2 /\ \A i \in 1 .. (n - 2) : s[i] = b[i]
    <3>1. n - 2 \in 0 .. Len(b)
      BY <1>0, <1>1
    <3> QED BY <3>1, Prefix
  <2>3. b[n - 1] = "r" /\ b[n] = "n"
    <3>1. SubSeq(b, n - 1, n)[1] = b[n - 1] /\ SubSeq(b, n - 1, n)[2] = b[n]
      BY <1>0, <1>1, Part
    <3>2. SubSeq(b, n - 1, n) \in Seq(Characters)
      BY <1>0, <1>1, Part
    <3>3. SubSeq(b, n - 1, n)[1] = "r" /\ SubSeq(b, n - 1, n)[2] = "n"
      BY <1>1, <3>2, ReturnFeed
    <3> QED BY <3>1, <3>3
  <2>4. s \o <<"r", "n">> = b
    BY <1>0, <1>1, <2>2, <2>3, SeqEqual DEF Characters
  <2> HIDE DEF s, n
  <2> QED BY <2>1, <2>2, <2>4, <1>0 DEF LineEnds, n
<1>2. CASE ~(n >= 2 /\ SubSeq(b, n - 1, n) = <<"r", "n">>) /\ n >= 1 /\ b[n] = "n"
  <2> DEFINE s == SubSeq(b, 1, n - 1)
  <2>1. CutLineEnd(b) = s
    BY <1>2 DEF CutLineEnd
  <2>2. s \in Seq(Characters) /\ Len(s) = n - 1 /\ \A i \in 1 .. (n - 1) : s[i] = b[i]
    <3>1. n - 1 \in 0 .. Len(b)
      BY <1>0, <1>2
    <3> QED BY <3>1, Prefix
  <2>3. s \o <<"n">> = b
    BY <1>0, <1>2, <2>2, SeqEqual DEF Characters
  <2> HIDE DEF s, n
  <2> QED BY <2>1, <2>2, <2>3, <1>0 DEF LineEnds, n
<1>3. CASE ~(n >= 2 /\ SubSeq(b, n - 1, n) = <<"r", "n">>) /\ ~(n >= 1 /\ b[n] = "n")
  <2>1. CutLineEnd(b) = b
    BY <1>3 DEF CutLineEnd
  <2>2. b \o <<>> = b
    BY ConcatEmptySeq
  <2> QED BY <2>1, <2>2, <1>0 DEF LineEnds
<1> QED BY <1>1, <1>2, <1>3

\* A secret of printable characters survives the cut, whatever line ending
\* follows it.
LEMMA CutLineEndBody ==
  ASSUME NEW n \in Nat \ {0}, NEW e \in LineEnds
  PROVE  CutLineEnd([i \in 1 .. n |-> "x"] \o e) = [i \in 1 .. n |-> "x"]
<1> DEFINE x == [i \in 1 .. n |-> "x"]
<1>0. x \in Seq(Characters) /\ Len(x) = n /\ \A i \in 1 .. n : x[i] = "x"
  BY DEF Characters
<1> HIDE DEF x
<1>1. CASE e = <<>>
  <2>1. x \o e = x
    BY <1>0, <1>1
  <2>2. ~(n >= 2 /\ SubSeq(x, n - 1, n) = <<"r", "n">>)
    <3> SUFFICES ASSUME n >= 2, SubSeq(x, n - 1, n) = <<"r", "n">> PROVE FALSE
      OBVIOUS
    <3>1. SubSeq(x, n - 1, n)[2] = x[n]
      BY <1>0, Part
    <3>2. SubSeq(x, n - 1, n) \in Seq(Characters)
      BY <1>0, Part
    <3>3. SubSeq(x, n - 1, n)[2] = "n"
      BY <3>2, ReturnFeed
    <3>4. x[n] = "x"
      BY <1>0
    <3> QED BY <3>1, <3>3, <3>4
  <2>3. x[n] # "n"
    BY <1>0
  <2> QED BY <2>1, <2>2, <2>3, <1>0 DEF CutLineEnd, x
<1>2. CASE e = <<"n">>
  <2> DEFINE b == x \o e
  <2>1. b \in Seq(Characters) /\ Len(b) = n + 1 /\ b[n + 1] = "n" /\ \A i \in 1 .. n : b[i] = "x"
    BY <1>0, <1>2 DEF Characters
  <2> HIDE DEF b
  <2>2. ~(SubSeq(b, n, n + 1) = <<"r", "n">>)
    <3> SUFFICES ASSUME SubSeq(b, n, n + 1) = <<"r", "n">> PROVE FALSE
      OBVIOUS
    <3>1. SubSeq(b, n, n + 1)[1] = b[n]
      BY <2>1, Part
    <3>2. SubSeq(b, n, n + 1) \in Seq(Characters)
      BY <2>1, Part
    <3>3. SubSeq(b, n, n + 1)[1] = "r"
      BY <3>2, ReturnFeed
    <3>4. b[n] = "x"
      BY <2>1
    <3> QED BY <3>1, <3>3, <3>4
  <2>3. CutLineEnd(b) = SubSeq(b, 1, n)
    BY <2>1, <2>2 DEF CutLineEnd
  <2>4. SubSeq(b, 1, n) = x
    <3>1. SubSeq(b, 1, n) \in Seq(Characters) /\ Len(SubSeq(b, 1, n)) = n
      BY <2>1, Part
    <3>2. \A i \in 1 .. n : SubSeq(b, 1, n)[i] = x[i]
      BY <2>1, <1>0, Part
    <3> QED BY <3>1, <3>2, <1>0, SeqEqual
  <2> QED BY <2>3, <2>4 DEF b, x
<1>3. CASE e = <<"r", "n">>
  <2> DEFINE b == x \o e
  <2>1. b \in Seq(Characters) /\ Len(b) = n + 2 /\ b[n + 1] = "r" /\ b[n + 2] = "n" /\ \A i \in 1 .. n : b[i] = "x"
    BY <1>0, <1>3 DEF Characters
  <2> HIDE DEF b
  <2>2. SubSeq(b, n + 1, n + 2) = <<"r", "n">>
    <3>1. SubSeq(b, n + 1, n + 2) \in Seq(Characters) /\ Len(SubSeq(b, n + 1, n + 2)) = 2
      BY <2>1, Part
    <3>2. SubSeq(b, n + 1, n + 2)[1] = "r" /\ SubSeq(b, n + 1, n + 2)[2] = "n"
      BY <2>1, Part
    <3> QED BY <3>1, <3>2, ReturnFeed
  <2>3. CutLineEnd(b) = SubSeq(b, 1, n)
    BY <2>1, <2>2 DEF CutLineEnd
  <2>4. SubSeq(b, 1, n) = x
    <3>1. SubSeq(b, 1, n) \in Seq(Characters) /\ Len(SubSeq(b, 1, n)) = n
      BY <2>1, Part
    <3>2. \A i \in 1 .. n : SubSeq(b, 1, n)[i] = x[i]
      BY <2>1, <1>0, Part
    <3> QED BY <3>1, <3>2, <1>0, SeqEqual
  <2> QED BY <2>3, <2>4 DEF b, x
<1> QED BY <1>1, <1>2, <1>3 DEF LineEnds

(***************************************************************************)
(* SecretFile: the file that is read is the file that was checked          *)
(***************************************************************************)

\* What readSecretBytes asks of the bytes it read.
Readable(b) ==
  /\ Len(b) <= maximumBytes
  /\ \A i \in DOMAIN b : b[i] # "u"
  /\ CutLineEnd(b) # <<>>
  /\ CutLineEnd(b)[1] \notin Space /\ CutLineEnd(b)[Len(CutLineEnd(b))] \notin Space

FileTypeOK ==
  /\ path \in Inodes \cup {None}
  /\ private \in SUBSET Inodes
  /\ content \in [Inodes -> Contents]
  /\ changes \in Nat
  /\ pc \in {"lstat", "open", "stat", "read", "done"}
  /\ file \in Inodes \cup {None}
  /\ result \in Seq(Characters) \cup {None}

\* The inode of linkInfo was a regular file of a private mode at the path.
Checked ==
  /\ linkInfo.inode \in Inodes
  /\ linkInfo.private = TRUE
  /\ Kinds[linkInfo.inode] = "regular"

CheckedInv ==
  /\ pc \in {"open", "stat", "read"} => result = None /\ Checked
  /\ pc = "lstat" => result = None
  /\ pc = "stat" => file \in Inodes
  /\ pc = "read" => file = linkInfo.inode

ResultInv ==
  result # None =>
    /\ pc = "done" /\ Checked
    /\ file = linkInfo.inode
    /\ Readable(content[file])
    /\ result = CutLineEnd(content[file])

\* As long as nothing changes, every step looks at the same file.
UndisturbedInv ==
  changes = 0 =>
    /\ pc \in {"open", "stat", "read"} => linkInfo.inode = path
    /\ pc \in {"stat", "read"} => file = path
    /\ pc = "done" /\ path \in private /\ Kinds[path] = "regular" /\ Readable(content[path]) =>
         result = CutLineEnd(content[path])

FileInv == FileTypeOK /\ CheckedInv /\ ResultInv /\ UndisturbedInv

LEMMA FileInit_Inv ==
  FileInit => FileInv
<1> SUFFICES ASSUME FileInit PROVE FileInv
  OBVIOUS
<1> USE KindsAssumption
<1>1. FileTypeOK
  BY DEF FileInit, FileTypeOK
<1>2. CheckedInv /\ ResultInv /\ UndisturbedInv
  BY DEF FileInit, CheckedInv, ResultInv, UndisturbedInv
<1> QED BY <1>1, <1>2 DEF FileInv

LEMMA Lstat_Inv ==
  FileInv /\ Lstat => FileInv'
<1> SUFFICES ASSUME FileInv, Lstat PROVE FileInv'
  OBVIOUS
<1> USE DEF FileInv, fsVars
<1>0. /\ pc = "lstat" /\ result = None
      /\ linkInfo' = [inode |-> path, private |-> path \in private]
      /\ path' = path /\ private' = private /\ content' = content /\ changes' = changes
  BY DEF Lstat, CheckedInv
<1>1. CASE path # None /\ Kinds[path] = "regular" /\ path \in private
  <2>1. pc' = "open" /\ file' = file /\ result' = result
    BY <1>1 DEF Lstat
  <2>2. Checked'
    BY <1>0, <1>1 DEF Checked, FileTypeOK
  <2>3. FileTypeOK'
    BY <1>0, <2>1 DEF FileTypeOK
  <2>4. linkInfo'.inode = path
    BY <1>0
  <2>5. CheckedInv' /\ ResultInv'
    BY <1>0, <2>1, <2>2 DEF CheckedInv, ResultInv
  <2>6. UndisturbedInv'
    BY <1>0, <2>1, <2>4 DEF UndisturbedInv
  <2> QED BY <2>3, <2>5, <2>6
<1>2. CASE ~(path # None /\ Kinds[path] = "regular" /\ path \in private)
  <2>1. pc' = "done" /\ file' = None /\ result' = None
    BY <1>2 DEF Lstat, Refuse
  <2>2. FileTypeOK'
    BY <1>0, <2>1 DEF FileTypeOK
  <2>3. CheckedInv' /\ ResultInv'
    BY <1>0, <2>1 DEF CheckedInv, ResultInv
  <2>4. ~(path \in private /\ Kinds[path] = "regular")
    BY <1>2, KindsAssumption DEF FileTypeOK
  <2>5. UndisturbedInv'
    BY <1>0, <2>1, <2>4 DEF UndisturbedInv
  <2> QED BY <2>2, <2>3, <2>5
<1> QED BY <1>1, <1>2

LEMMA Open_Inv ==
  FileInv /\ Open => FileInv'
<1> SUFFICES ASSUME FileInv, Open PROVE FileInv'
  OBVIOUS
<1> USE DEF FileInv, fsVars
<1>0. /\ pc = "open" /\ result = None /\ Checked
      /\ linkInfo' = linkInfo
      /\ path' = path /\ private' = private /\ content' = content /\ changes' = changes
  BY DEF Open, CheckedInv
<1>1. Checked'
  BY <1>0 DEF Checked
<1>2. CASE path = None
  <2>1. pc' = "done" /\ file' = None /\ result' = None
    BY <1>2 DEF Open, Refuse
  <2>2. FileTypeOK' /\ CheckedInv' /\ ResultInv'
    BY <1>0, <2>1 DEF FileTypeOK, CheckedInv, ResultInv
  <2>3. path \notin private
    BY <1>2, KindsAssumption DEF FileTypeOK
  <2>4. UndisturbedInv'
    BY <1>0, <2>1, <2>3 DEF UndisturbedInv
  <2> QED BY <2>2, <2>4
<1>3. CASE path # None
  <2>0. path \in Inodes
    BY <1>3 DEF FileTypeOK
  <2>1. pc' = "stat" /\ result' = result /\ file' = IF Symlink(path) THEN Kinds[path] ELSE path
    BY <1>3 DEF Open
  <2>2. file' \in Inodes
    BY <2>0, <2>1 DEF Symlink
  <2>3. FileTypeOK'
    BY <1>0, <2>1, <2>2 DEF FileTypeOK
  <2>4. CheckedInv' /\ ResultInv'
    BY <1>0, <1>1, <2>1, <2>2 DEF CheckedInv, ResultInv
  <2>5. changes = 0 => linkInfo.inode = path /\ file' = path
    <3>1. changes = 0 => linkInfo.inode = path
      BY <1>0 DEF UndisturbedInv
    <3>2. changes = 0 => ~Symlink(path)
      BY <3>1, <1>0, KindsAssumption DEF Checked, Symlink
    <3> QED BY <3>1, <3>2, <2>1
  <2>6. UndisturbedInv'
    BY <1>0, <2>1, <2>5 DEF UndisturbedInv
  <2> QED BY <2>3, <2>4, <2>6
<1> QED BY <1>2, <1>3

LEMMA Stat_Inv ==
  FileInv /\ Stat => FileInv'
<1> SUFFICES ASSUME FileInv, Stat PROVE FileInv'
  OBVIOUS
<1> USE DEF FileInv, fsVars
<1>0. /\ pc = "stat" /\ result = None /\ Checked /\ file \in Inodes
      /\ linkInfo' = linkInfo
      /\ path' = path /\ private' = private /\ content' = content /\ changes' = changes
  BY DEF Stat, CheckedInv
<1>1. Checked'
  BY <1>0 DEF Checked
<1>2. CASE file = linkInfo.inode
  <2>1. pc' = "read" /\ file' = file /\ result' = result
    BY <1>2 DEF Stat
  <2>2. FileTypeOK' /\ CheckedInv' /\ ResultInv'
    BY <1>0, <1>1, <1>2, <2>1 DEF FileTypeOK, CheckedInv, ResultInv
  <2>3. UndisturbedInv'
    BY <1>0, <2>1 DEF UndisturbedInv
  <2> QED BY <2>2, <2>3
<1>3. CASE file # linkInfo.inode
  <2>1. pc' = "done" /\ file' = None /\ result' = None
    BY <1>3 DEF Stat, Refuse
  <2>2. FileTypeOK' /\ CheckedInv' /\ ResultInv'
    BY <1>0, <2>1 DEF FileTypeOK, CheckedInv, ResultInv
  <2>3. changes # 0
    BY <1>0, <1>3 DEF UndisturbedInv
  <2>4. UndisturbedInv'
    BY <1>0, <2>3 DEF UndisturbedInv
  <2> QED BY <2>2, <2>4
<1> QED BY <1>2, <1>3

LEMMA Read_Inv ==
  FileInv /\ Read => FileInv'
<1> SUFFICES ASSUME FileInv, Read PROVE FileInv'
  OBVIOUS
<1> USE DEF FileInv, fsVars
<1>0. /\ pc = "read" /\ pc' = "done" /\ Checked /\ file = linkInfo.inode
      /\ linkInfo' = linkInfo /\ file' = file
      /\ path' = path /\ private' = private /\ content' = content /\ changes' = changes
  BY DEF Read, CheckedInv
<1>1. Checked' /\ file \in Inodes /\ Kinds[file] = "regular"
  BY <1>0 DEF Checked
<1>2. content[file] \in Seq(Characters)
  BY <1>1, KindsAssumption DEF FileTypeOK
<1>3. result' = IF Readable(content[file]) THEN CutLineEnd(content[file]) ELSE None
  BY <1>1 DEF Read, Readable
<1>4. CutLineEnd(content[file]) \in Seq(Characters)
  BY <1>2, CutLineEndSuffix
<1>5. FileTypeOK'
  BY <1>0, <1>3, <1>4 DEF FileTypeOK
<1>6. CheckedInv' /\ ResultInv'
  BY <1>0, <1>1, <1>3 DEF CheckedInv, ResultInv
<1>7. UndisturbedInv'
  BY <1>0, <1>3 DEF UndisturbedInv
<1> QED BY <1>5, <1>6, <1>7

LEMMA Change_Inv ==
  FileInv /\ Change => FileInv'
<1> SUFFICES ASSUME FileInv, Change PROVE FileInv'
  OBVIOUS
<1> USE DEF FileInv
<1>0. /\ pc # "done" /\ changes' = changes + 1 /\ content' = content
      /\ pc' = pc /\ linkInfo' = linkInfo /\ file' = file /\ result' = result
  BY DEF Change, Rename, Chmod
<1>1. path' \in Inodes \cup {None} /\ private' \in SUBSET Inodes
  BY DEF Change, Rename, Chmod, FileTypeOK
<1>2. FileTypeOK'
  BY <1>0, <1>1 DEF FileTypeOK
<1>3. CheckedInv' /\ ResultInv'
  BY <1>0 DEF CheckedInv, ResultInv, Checked
<1>4. changes' # 0
  BY <1>0 DEF FileTypeOK
<1>5. UndisturbedInv'
  BY <1>4 DEF UndisturbedInv
<1> QED BY <1>2, <1>3, <1>5

\* Reading the file, and everything that may happen to it, keeps FileInv.
LEMMA FileInductive ==
  FileInv /\ (FileNext \/ UNCHANGED fileVars) => FileInv'
<1>1. FileInv /\ UNCHANGED fileVars => FileInv'
  BY DEF FileInv, fileVars, FileTypeOK, CheckedInv, ResultInv, UndisturbedInv, Checked
<1> QED BY <1>1, Lstat_Inv, Open_Inv, Stat_Inv, Read_Inv, Change_Inv DEF FileNext

LEMMA FileInv_ReadWhatWasChecked ==
  FileInv => ReadWhatWasChecked
<1> SUFFICES ASSUME FileInv, result # None PROVE ReadWhatWasChecked
  BY DEF ReadWhatWasChecked
<1>1. /\ linkInfo.private = TRUE
      /\ Kinds[linkInfo.inode] = "regular"
      /\ result = CutLineEnd(content[linkInfo.inode])
  BY DEF FileInv, ResultInv, Checked
<1> QED BY <1>1 DEF ReadWhatWasChecked

\* A file of printable characters and a line ending is readable.
LEMMA PlainIsReadable ==
  ASSUME NEW e \in LineEnds, NEW n \in 1 .. (maximumBytes - Len(e))
  PROVE  /\ Readable([i \in 1 .. n |-> "x"] \o e)
         /\ CutLineEnd([i \in 1 .. n |-> "x"] \o e) = [i \in 1 .. n |-> "x"]
<1> DEFINE x == [i \in 1 .. n |-> "x"]
<1>0. Len(e) \in Nat /\ e \in Seq(Characters) /\ \A i \in 1 .. Len(e) : e[i] # "u"
  <2>1. CASE e = <<>>
    BY <2>1
  <2>2. CASE e = <<"n">>
    BY <2>2 DEF Characters
  <2>3. CASE e = <<"r", "n">>
    BY <2>3 DEF Characters
  <2> QED BY <2>1, <2>2, <2>3 DEF LineEnds
<1>1. maximumBytes \in Nat /\ n \in Nat \ {0} /\ n + Len(e) <= maximumBytes
  BY <1>0, KindsAssumption
<1>2. x \in Seq(Characters) /\ Len(x) = n /\ \A i \in 1 .. n : x[i] = "x"
  BY <1>1 DEF Characters
<1>3. CutLineEnd(x \o e) = x
  BY <1>1, CutLineEndBody
<1> HIDE DEF x
<1>4. x \o e \in Seq(Characters) /\ Len(x \o e) = n + Len(e)
  BY <1>0, <1>2, ConcatProperties
<1>5. \A i \in DOMAIN (x \o e) : (x \o e)[i] # "u"
  <2> SUFFICES ASSUME NEW i \in DOMAIN (x \o e) PROVE (x \o e)[i] # "u"
    OBVIOUS
  <2>1. i \in 1 .. (Len(x) + Len(e))
    BY <1>2, <1>4, LenProperties
  <2>2. (x \o e)[i] = IF i <= Len(x) THEN x[i] ELSE e[i - Len(x)]
    BY <2>1, <1>0, <1>2, ConcatProperties
  <2> QED BY <2>1, <2>2, <1>0, <1>1, <1>2
<1>6. x # <<>> /\ x[1] \notin Space /\ x[Len(x)] \notin Space
  BY <1>1, <1>2 DEF Space
<1>7. Readable(x \o e)
  BY <1>1, <1>3, <1>4, <1>5, <1>6 DEF Readable
<1> QED BY <1>3, <1>7 DEF x

LEMMA FileInv_ReturnsTheSecret ==
  FileInv => ReturnsTheSecret
<1> SUFFICES ASSUME FileInv PROVE ReturnsTheSecret
  OBVIOUS
<1>1. ASSUME result # None
      PROVE  /\ \E e \in LineEnds : result \o e = content[file]
             /\ Len(result) \in 1 .. maximumBytes
             /\ {result[1], result[Len(result)]} \cap Space = {}
  <2> DEFINE b == content[file]
  <2>1. file \in Inodes /\ Readable(b) /\ result = CutLineEnd(b)
    BY <1>1 DEF FileInv, ResultInv, Checked
  <2>2. b \in Seq(Characters)
    BY <2>1, KindsAssumption DEF FileInv, FileTypeOK
  <2> HIDE DEF b
  <2>3. result \in Seq(Characters) /\ Len(result) <= Len(b) /\ \E e \in LineEnds : result \o e = b
    BY <2>1, <2>2, CutLineEndSuffix
  <2>4. Len(result) \in Nat \ {0}
    BY <2>1, <2>3, EmptySeq DEF Readable
  <2>5. Len(result) \in 1 .. maximumBytes
    BY <2>1, <2>2, <2>3, <2>4, LenProperties, KindsAssumption DEF Readable
  <2>6. result[1] \notin Space /\ result[Len(result)] \notin Space
    BY <2>1 DEF Readable
  <2> QED BY <2>3, <2>5, <2>6 DEF b
<1>2. ASSUME pc = "done", changes = 0, path \in private, Kinds[path] = "regular",
             NEW e \in LineEnds, NEW n \in 1 .. (maximumBytes - Len(e)),
             content[path] = [i \in 1 .. n |-> "x"] \o e
      PROVE  result = [i \in 1 .. n |-> "x"]
  <2>1. /\ Readable(content[path])
        /\ CutLineEnd(content[path]) = [i \in 1 .. n |-> "x"]
    BY <1>2, PlainIsReadable
  <2> QED BY <1>2, <2>1 DEF FileInv, UndisturbedInv
<1> QED BY <1>1, <1>2 DEF ReturnsTheSecret

(***************************************************************************)
(* JsonScan: the fields of an object                                       *)
(***************************************************************************)

\* Counting the fields of an object is the same as looking for a repeated one.
LEMMA CountedFields ==
  ASSUME NEW v, IsSeq(v.f)
  PROVE  Len(v.f) = Cardinality(Names(v)) <=> ~Repeats(v)
<1> DEFINE n == Len(v.f)
           g == [i \in 1 .. n |-> v.f[i][1]]
<1>1. n \in Nat /\ DOMAIN v.f = 1 .. n
  BY DEF IsSeq
<1>2. Names(v) = {v.f[i][1] : i \in 1 .. n}
  BY <1>1 DEF Names
<1>3. g \in Surjection(1 .. n, Names(v))
  BY <1>2 DEF Surjection
<1>4. IsFiniteSet(1 .. n) /\ Cardinality(1 .. n) = n
  BY <1>1, FS_Interval
<1>5. Cardinality(Names(v)) = Cardinality(1 .. n) <=> g \in Injection(1 .. n, Names(v))
  BY <1>3, <1>4, FS_Surjection
<1>6. g \in Injection(1 .. n, Names(v)) <=> ~Repeats(v)
  <2>1. g \in [1 .. n -> Names(v)] /\ \A i \in 1 .. n : g[i] = v.f[i][1]
    BY <1>2
  <2>2. Repeats(v) <=> \E i, j \in 1 .. n : i # j /\ g[i] = g[j]
    BY <1>1, <2>1 DEF Repeats
  <2> HIDE DEF g, n
  <2> QED BY <2>1, <2>2 DEF Injection, IsInjective
<1> QED BY <1>4, <1>5, <1>6

\* In an object without a repeated field, Get finds each field by its name.
LEMMA GetField ==
  ASSUME NEW v, ~Repeats(v), NEW i \in DOMAIN v.f
  PROVE  Get(v, v.f[i][1]) = v.f[i][2]
<1> DEFINE j == CHOOSE k \in DOMAIN v.f : v.f[k][1] = v.f[i][1]
<1>1. j \in DOMAIN v.f /\ v.f[j][1] = v.f[i][1]
  OBVIOUS
<1>2. j = i
  BY <1>1 DEF Repeats
<1> QED BY <1>2 DEF Get

\* The decoder finds the same field, or the zero value where there is none.
LEMMA LastField ==
  ASSUME NEW v, IsSeq(v.f), ~Repeats(v), "VERSION" \notin Names(v), NEW name
  PROVE  Last(v, name) = IF name \in Names(v) THEN Get(v, name) ELSE Null
<1> DEFINE found == {i \in DOMAIN v.f : Fold(v.f[i][1]) = name}
<1>1. found = {i \in DOMAIN v.f : v.f[i][1] = name}
  BY DEF Names, Fold
<1>2. CASE name \in Names(v)
  <2>1. PICK i \in DOMAIN v.f : v.f[i][1] = name
    BY <1>2 DEF Names
  <2>2. found = {i}
    BY <1>1, <2>1 DEF Repeats
  <2>3. i \in Nat
    BY <2>1 DEF IsSeq
  <2>4. (CHOOSE k \in found : \A j \in found : j <= k) = i
    BY <2>2, <2>3
  <2>5. Last(v, name) = v.f[i][2]
    BY <2>2, <2>4 DEF Last
  <2> QED BY <1>2, <2>1, <2>5, GetField
<1>3. CASE name \notin Names(v)
  <2>1. found = {}
    BY <1>1, <1>3 DEF Names
  <2> QED BY <1>3, <2>1 DEF Last
<1> QED BY <1>2, <1>3

\* A field that Get finds is one of the object's values.
LEMMA GetChild ==
  ASSUME NEW v, v.t = "obj", NEW name \in Names(v)
  PROVE  Get(v, name) \in Children(v)
<1> DEFINE j == CHOOSE k \in DOMAIN v.f : v.f[k][1] = name
<1>1. \E k \in DOMAIN v.f : v.f[k][1] = name
  BY DEF Names
<1>2. j \in DOMAIN v.f
  BY <1>1
<1>3. Get(v, name) = v.f[j][2]
  BY DEF Get
<1> HIDE DEF j
<1> QED BY <1>2, <1>3 DEF Children

\* Nothing is found in null, which the decoder takes for an empty object.
LEMMA LastOfNull ==
  ASSUME NEW name
  PROVE  Last(Object(Null), name) = Null
<1>1. Object(Null) = [t |-> "obj", f |-> <<>>]
  BY DEF Object, Null
<1>2. {i \in DOMAIN Object(Null).f : Fold(Object(Null).f[i][1]) = name} = {}
  BY <1>1
<1> QED BY <1>2 DEF Last

\* What the two parsers make of a scalar field that must be a string.
LEMMA TextField ==
  ASSUME NEW x, Shaped(x), Fits(x, "str")
  PROVE  /\ x # Null <=> x.t = "str"
         /\ x = Null => Text(x) = Empty
         /\ x # Null => Text(x) = x.s /\ x = [t |-> "str", s |-> x.s]
BY DEF Fits, Shaped, Text, Null

LEMMA NumberField ==
  ASSUME NEW x, Shaped(x), FitsInt(x)
  PROVE  /\ x # Null <=> x.t = "num"
         /\ x = Null => Number(x) = 0
         /\ x # Null => Number(x) = x.n /\ x.n \in Int /\ x.n <= MaxInt64 /\ x = [t |-> "num", n |-> x.n]
BY MaxInt64Assumption DEF FitsInt, Shaped, Number, Null

(***************************************************************************)
(* JsonScan: one entry of the key ring                                     *)
(***************************************************************************)

GoodEntry(x) ==
  /\ ExactObject(x, KeyFields)
  /\ \A n \in KeyFields : Get(x, n).t = "str" /\ Get(x, n).s \notin {Empty, Malformed}

\* scanEntry, FitsEntry and the validation together.
TakenEntry(x) ==
  /\ scanEntry(x) /\ FitsEntry(x)
  /\ {Empty, Malformed} \cap {DecodedEntry(x).id, DecodedEntry(x).key} = {}

LEMMA ShapedObject ==
  ASSUME NEW x, Shaped(x), x.t = "obj"
  PROVE  IsSeq(x.f) /\ x # Null /\ Object(x) = x
BY DEF Shaped, Null, Object

LEMMA TakenEntryIsGood ==
  ASSUME NEW x, Shaped(x), \A y \in Children(x) : Shaped(y), TakenEntry(x)
  PROVE  GoodEntry(x) /\ DecodedEntry(x).id = Get(x, "key_id").s
<1>1. /\ DecodedEntry(x).id = Text(Last(Object(x), "key_id"))
      /\ DecodedEntry(x).key = Text(Last(Object(x), "key"))
  BY DEF DecodedEntry
<1>2. \A n \in KeyFields : Text(Last(Object(x), n)) \notin {Empty, Malformed}
  BY <1>1 DEF KeyFields, TakenEntry
<1>3. Text(Null) = Empty
  BY DEF Text
<1>4. x # Null
  BY <1>2, <1>3, LastOfNull DEF KeyFields
<1>5. x.t = "obj" /\ \A n \in KeyFields : Fits(Last(x, n), "str")
  BY <1>4 DEF TakenEntry, FitsEntry
<1>6. IsSeq(x.f) /\ Object(x) = x
  BY <1>5, ShapedObject
<1>7. Names(x) \subseteq KeyFields /\ ~Repeats(x)
  BY <1>5 DEF TakenEntry, scanEntry, Scalar, scanFields
<1>8. "VERSION" \notin Names(x)
  BY <1>7 DEF KeyFields
<1>9. ASSUME NEW n \in KeyFields
      PROVE  /\ n \in Names(x) /\ Get(x, n).t = "str" /\ Get(x, n).s \notin {Empty, Malformed}
             /\ Text(Last(x, n)) = Get(x, n).s
  <2>1. Last(x, n) # Null
    BY <1>2, <1>3, <1>6
  <2>2. n \in Names(x) /\ Last(x, n) = Get(x, n)
    BY <2>1, <1>6, <1>7, <1>8, LastField
  <2>3. Shaped(Get(x, n))
    BY <2>2, <1>5, GetChild
  <2>4. Fits(Get(x, n), "str")
    BY <2>2, <1>5
  <2>5. Get(x, n).t = "str" /\ Text(Get(x, n)) = Get(x, n).s
    BY <2>1, <2>2, <2>3, <2>4, TextField
  <2>6. Text(Last(x, n)) \notin {Empty, Malformed}
    BY <1>2, <1>6
  <2> QED BY <2>2, <2>5, <2>6
<1>10. Names(x) = KeyFields
  BY <1>7, <1>9
<1>11. Len(x.f) = Cardinality(KeyFields)
  BY <1>6, <1>7, <1>10, CountedFields
<1>12. GoodEntry(x)
  BY <1>5, <1>9, <1>10, <1>11 DEF GoodEntry, ExactObject
<1>13. DecodedEntry(x).id = Get(x, "key_id").s
  BY <1>1, <1>6, <1>9 DEF KeyFields
<1> QED BY <1>12, <1>13

LEMMA GoodEntryIsTaken ==
  ASSUME NEW x, Shaped(x), \A y \in Children(x) : Shaped(y), GoodEntry(x)
  PROVE  TakenEntry(x) /\ DecodedEntry(x).id = Get(x, "key_id").s
<1>1. x.t = "obj" /\ Names(x) = KeyFields /\ Len(x.f) = Cardinality(Names(x))
  BY DEF GoodEntry, ExactObject
<1>2. IsSeq(x.f) /\ Object(x) = x
  BY <1>1, ShapedObject
<1>3. ~Repeats(x)
  BY <1>1, <1>2, CountedFields
<1>4. "VERSION" \notin Names(x)
  BY <1>1 DEF KeyFields
<1>5. ASSUME NEW n \in KeyFields
      PROVE  /\ Last(x, n) = Get(x, n) /\ Get(x, n).t = "str" /\ Fits(Last(x, n), "str")
             /\ Text(Last(x, n)) = Get(x, n).s /\ Get(x, n).s \notin {Empty, Malformed}
  <2>1. Last(x, n) = Get(x, n)
    BY <1>1, <1>2, <1>3, <1>4, LastField
  <2>2. Get(x, n).t = "str" /\ Get(x, n).s \notin {Empty, Malformed}
    BY DEF GoodEntry
  <2>3. Shaped(Get(x, n))
    BY <1>1, GetChild
  <2>4. Fits(Get(x, n), "str")
    BY <2>2 DEF Fits
  <2>5. Text(Get(x, n)) = Get(x, n).s
    BY <2>2, <2>3, <2>4, TextField
  <2> QED BY <2>1, <2>2, <2>4, <2>5
<1>6. ASSUME NEW i \in DOMAIN x.f PROVE Scalar(x.f[i][2])
  <2>1. x.f[i][1] \in KeyFields
    BY <1>1 DEF Names
  <2>2. x.f[i][2] = Get(x, x.f[i][1])
    BY <1>3, GetField
  <2> QED BY <2>1, <2>2, <1>5 DEF Scalar
<1>7. scanEntry(x)
  BY <1>1, <1>3, <1>6 DEF scanEntry, scanFields
<1>8. FitsEntry(x)
  BY <1>1, <1>5 DEF FitsEntry
<1>9. /\ DecodedEntry(x).id = Get(x, "key_id").s
      /\ DecodedEntry(x).key = Get(x, "key").s
  BY <1>2, <1>5 DEF DecodedEntry, KeyFields
<1>10. \A n \in KeyFields : Get(x, n).s \notin {Empty, Malformed}
  BY <1>5
<1> QED BY <1>7, <1>8, <1>9, <1>10 DEF TakenEntry, KeyFields

(***************************************************************************)
(* JsonScan: the document                                                  *)
(***************************************************************************)

LEMMA SchemaFields ==
  ASSUME schema \in Schemas
  PROVE  /\ RingFields \subseteq schema
         /\ schema \subseteq RingFields \cup {"expected_epoch"}
         /\ "VERSION" \notin schema
BY SchemasAssumption DEF RingFields

LEMMA DocumentShape ==
  ASSUME NEW d \in Documents, Len(d) = 1, d[1] # Malformed
  PROVE  /\ DOMAIN d = {1}
         /\ Shaped(d[1])
         /\ \A x \in Children(d[1]) : Shaped(x) /\ \A y \in Children(x) : Shaped(y) /\ \A z \in Children(y) : Shaped(z)
<1>1. DOMAIN d = {1}
  <2>1. DOMAIN d = 1 .. 1
    BY DocumentsAssumption DEF IsSeq
  <2> QED BY <2>1
<1> QED BY <1>1, DocumentsAssumption

\* Accepted by the scanner, by the decoder and by the reader's validation.
Taken(d) == Scannable(d) /\ Decodable(d[1]) /\ Valid(Decoded(d[1]))

\* Nothing that the parsers take together is ill-formed.
LEMMA TakenIsWellFormed ==
  ASSUME schema \in Schemas, NEW d \in Documents, Taken(d)
  PROVE  WellFormedRing(d)
<1> DEFINE v == d[1]
           ring == Decoded(v)
<1>1. Len(d) = 1 /\ Malformed \notin {d[i] : i \in DOMAIN d} /\ scanJSONValue(v) /\ Decodable(v) /\ Valid(ring)
  BY DEF Taken, Scannable
<1>2. v # Malformed
  <2>1. DOMAIN d = 1 .. 1
    BY <1>1, DocumentsAssumption DEF IsSeq
  <2> QED BY <1>1, <2>1
<1>3. /\ Shaped(v)
      /\ \A x \in Children(v) : Shaped(x) /\ \A y \in Children(x) : Shaped(y) /\ \A z \in Children(y) : Shaped(z)
  BY <1>1, <1>2, DocumentShape
<1> DEFINE keys == Last(Object(v), "keys")
<1>4. /\ ring.version = Number(Last(Object(v), "version"))
      /\ ring.expectedEpoch = Number(Last(Object(v), "expected_epoch"))
      /\ ring.active = Text(Last(Object(v), "active_key_id"))
      /\ ring.keys = IF keys = Null THEN <<>> ELSE [i \in DOMAIN keys.e |-> DecodedEntry(keys.e[i])]
  BY DEF Decoded
<1>5. /\ ring.version = 1
      /\ "expected_epoch" \in schema => ring.expectedEpoch >= 1
      /\ ring.active \notin {Empty, Malformed}
      /\ Len(ring.keys) > 0
      /\ \A i \in DOMAIN ring.keys : {Empty, Malformed} \cap {ring.keys[i].id, ring.keys[i].key} = {}
      /\ \A i \in DOMAIN ring.keys : \A j \in 1 .. (i - 1) : ring.keys[j].id # ring.keys[i].id
      /\ \E i \in DOMAIN ring.keys : ring.keys[i].id = ring.active
  BY <1>1 DEF Valid, validateRing
<1> HIDE DEF ring
<1>6. Number(Null) = 0 /\ Text(Null) = Empty
  BY DEF Number, Text
<1>7. v # Null
  BY <1>4, <1>5, <1>6, LastOfNull
<1>8. v.t = "obj" /\ FitsDocument(Object(v))
  BY <1>1, <1>7 DEF Decodable
<1>9. IsSeq(v.f) /\ Object(v) = v
  BY <1>3, <1>8, ShapedObject
<1>10. /\ Names(v) \subseteq schema /\ ~Repeats(v)
       /\ \A i \in DOMAIN v.f : IF v.f[i][1] = "keys" THEN scanKeys(v.f[i][2]) ELSE Scalar(v.f[i][2])
  BY <1>1, <1>8 DEF scanJSONValue, Scalar, scanFields
<1>11. ASSUME NEW n, Last(v, n) # Null
       PROVE  n \in Names(v) /\ Last(v, n) = Get(v, n) /\ Get(v, n) \in Children(v) /\ Shaped(Get(v, n))
  <2>1. n \in Names(v) /\ Last(v, n) = Get(v, n)
    BY <1>9, <1>10, <1>11, SchemaFields, LastField
  <2> QED BY <2>1, <1>3, <1>8, GetChild
<1>12. /\ \A n \in schema \cap {"version", "expected_epoch"} : FitsInt(Last(v, n))
       /\ Fits(Last(v, "active_key_id"), "str")
       /\ keys = Null \/ (keys.t = "arr" /\ \A i \in DOMAIN keys.e : FitsEntry(keys.e[i]))
  BY <1>8, <1>9 DEF FitsDocument
<1>13. "version" \in Names(v) /\ Get(v, "version") = [t |-> "num", n |-> 1]
  <2>1. Last(v, "version") # Null /\ Number(Last(v, "version")) = 1
    BY <1>4, <1>5, <1>6, <1>9
  <2>2. FitsInt(Last(v, "version"))
    BY <1>12, SchemaFields DEF RingFields
  <2> QED BY <2>1, <2>2, <1>11, NumberField
<1>14. "expected_epoch" \in schema =>
         "expected_epoch" \in Names(v) /\ Get(v, "expected_epoch").t = "num" /\ Get(v, "expected_epoch").n \in 1 .. MaxInt64
  <2> SUFFICES ASSUME "expected_epoch" \in schema
               PROVE  "expected_epoch" \in Names(v) /\ Get(v, "expected_epoch").t = "num" /\ Get(v, "expected_epoch").n \in 1 .. MaxInt64
    OBVIOUS
  <2>1. Last(v, "expected_epoch") # Null /\ Number(Last(v, "expected_epoch")) >= 1
    BY <1>4, <1>5, <1>6, <1>9
  <2>2. FitsInt(Last(v, "expected_epoch"))
    BY <1>12
  <2> QED BY <2>1, <2>2, <1>11, NumberField, MaxInt64Assumption
<1>15. /\ "active_key_id" \in Names(v)
       /\ Get(v, "active_key_id") = [t |-> "str", s |-> ring.active]
  <2>1. Last(v, "active_key_id") # Null /\ Text(Last(v, "active_key_id")) = ring.active
    BY <1>4, <1>5, <1>6, <1>9
  <2> QED BY <2>1, <1>11, <1>12, TextField
<1>16. keys # Null
  <2> SUFFICES ASSUME keys = Null PROVE FALSE
    OBVIOUS
  <2>1. ring.keys = <<>>
    BY <1>4
  <2>2. Len(ring.keys) = 0
    BY <2>1
  <2> QED BY <2>2, <1>5
<1>17. /\ "keys" \in Names(v) /\ keys = Get(v, "keys") /\ Shaped(keys) /\ keys \in Children(v)
       /\ keys.t = "arr" /\ \A i \in DOMAIN keys.e : FitsEntry(keys.e[i])
  BY <1>9, <1>11, <1>12, <1>16
<1>18. scanKeys(keys)
  <2>1. PICK i \in DOMAIN v.f : v.f[i][1] = "keys"
    BY <1>17 DEF Names
  <2>2. v.f[i][2] = keys
    BY <2>1, <1>10, <1>17, GetField
  <2> QED BY <2>1, <2>2, <1>10
<1>19. ring.keys = [i \in DOMAIN keys.e |-> DecodedEntry(keys.e[i])]
  BY <1>4, <1>16
<1> HIDE DEF keys, v
<1>20. DOMAIN ring.keys = DOMAIN keys.e /\ \A i \in DOMAIN keys.e : ring.keys[i] = DecodedEntry(keys.e[i])
  BY <1>19
<1>21. ASSUME NEW i \in DOMAIN keys.e
       PROVE  /\ GoodEntry(keys.e[i])
              /\ Get(keys.e[i], "key_id").s = ring.keys[i].id
              /\ Get(keys.e[i], "key_id") = [t |-> "str", s |-> ring.keys[i].id]
  <2>1. scanEntry(keys.e[i]) /\ FitsEntry(keys.e[i])
    BY <1>17, <1>18 DEF scanKeys, Scalar
  <2>2. keys.e[i] \in Children(keys)
    BY <1>17 DEF Children
  <2>3. Shaped(keys.e[i]) /\ \A z \in Children(keys.e[i]) : Shaped(z)
    BY <2>2, <1>3, <1>17
  <2>4. TakenEntry(keys.e[i])
    BY <2>1, <1>5, <1>20 DEF TakenEntry
  <2>5. GoodEntry(keys.e[i]) /\ ring.keys[i].id = Get(keys.e[i], "key_id").s
    BY <2>3, <2>4, <1>20, TakenEntryIsGood
  <2>6. keys.e[i].t = "obj" /\ "key_id" \in Names(keys.e[i]) /\ Get(keys.e[i], "key_id").t = "str"
    BY <2>5 DEF GoodEntry, ExactObject, KeyFields
  <2>7. Shaped(Get(keys.e[i], "key_id"))
    BY <2>3, <2>6, GetChild
  <2>8. Get(keys.e[i], "key_id") = [t |-> "str", s |-> Get(keys.e[i], "key_id").s]
    BY <2>6, <2>7 DEF Shaped, Null
  <2> QED BY <2>5, <2>8
<1>22. ASSUME NEW i \in DOMAIN keys.e, NEW j \in 1 .. (i - 1)
       PROVE  Get(keys.e[i], "key_id") # Get(keys.e[j], "key_id")
  <2>1. DOMAIN keys.e = 1 .. Len(keys.e) /\ Len(keys.e) \in Nat
    BY <1>17 DEF Shaped, IsSeq, Null
  <2>2. j \in DOMAIN keys.e
    BY <2>1
  <2>3. ring.keys[j].id # ring.keys[i].id
    BY <1>5, <1>20
  <2>4. Get(keys.e[i], "key_id").s = ring.keys[i].id /\ Get(keys.e[j], "key_id").s = ring.keys[j].id
    BY <2>2, <1>21
  <2> QED BY <2>3, <2>4
<1>23. \E i \in DOMAIN keys.e : Get(keys.e[i], "key_id") = Get(v, "active_key_id")
  BY <1>5, <1>15, <1>20, <1>21
<1>24. Names(v) = schema
  BY <1>10, <1>13, <1>14, <1>15, <1>17, SchemaFields DEF RingFields
<1>25. ExactObject(v, schema)
  BY <1>8, <1>9, <1>10, <1>24, CountedFields DEF ExactObject
<1>26. \A i \in DOMAIN keys.e :
         /\ ExactObject(keys.e[i], KeyFields)
         /\ \A n \in KeyFields : Get(keys.e[i], n).t = "str" /\ Get(keys.e[i], n).s \notin {Empty, Malformed}
  BY <1>21 DEF GoodEntry
<1>27. keys = Get(v, "keys") /\ keys.t = "arr"
  BY <1>17
<1> QED BY <1>1, <1>2, <1>13, <1>14, <1>22, <1>23, <1>25, <1>26, <1>27 DEF WellFormedRing, v

\* And every well-formed ring is taken.
LEMMA WellFormedIsTaken ==
  ASSUME schema \in Schemas, NEW d \in Documents, WellFormedRing(d)
  PROVE  Taken(d)
<1> DEFINE v == d[1]
           keys == Get(v, "keys")
<1>1. /\ Len(d) = 1 /\ v # Malformed
      /\ ExactObject(v, schema)
      /\ Get(v, "version") = [t |-> "num", n |-> 1]
      /\ "expected_epoch" \in schema => Get(v, "expected_epoch").t = "num" /\ Get(v, "expected_epoch").n \in 1 .. MaxInt64
      /\ keys.t = "arr"
      /\ \A i \in DOMAIN keys.e : GoodEntry(keys.e[i])
      /\ \A i \in DOMAIN keys.e : \A j \in 1 .. (i - 1) : Get(keys.e[i], "key_id") # Get(keys.e[j], "key_id")
      /\ \E i \in DOMAIN keys.e : Get(keys.e[i], "key_id") = Get(v, "active_key_id")
  BY DEF WellFormedRing, GoodEntry
<1>2. /\ DOMAIN d = {1} /\ Shaped(v)
      /\ \A x \in Children(v) : Shaped(x) /\ \A y \in Children(x) : Shaped(y) /\ \A z \in Children(y) : Shaped(z)
  BY <1>1, DocumentShape
<1>3. Malformed \notin {d[i] : i \in DOMAIN d}
  BY <1>1, <1>2
<1> HIDE DEF v
<1>4. v.t = "obj" /\ Names(v) = schema /\ Len(v.f) = Cardinality(Names(v))
  BY <1>1 DEF ExactObject
<1>5. IsSeq(v.f) /\ Object(v) = v
  BY <1>2, <1>4, ShapedObject
<1>6. ~Repeats(v)
  BY <1>4, <1>5, CountedFields
<1>7. ASSUME NEW n \in schema
      PROVE  Last(v, n) = Get(v, n) /\ Get(v, n) \in Children(v) /\ Shaped(Get(v, n))
  <2>1. Last(v, n) = Get(v, n)
    BY <1>4, <1>5, <1>6, SchemaFields, LastField
  <2> QED BY <2>1, <1>2, <1>4, GetChild
<1>8. "version" \in schema /\ "active_key_id" \in schema /\ "keys" \in schema
  BY SchemaFields DEF RingFields
<1>9. keys = Last(v, "keys") /\ keys \in Children(v) /\ Shaped(keys) /\ keys # Null
  BY <1>1, <1>7, <1>8 DEF Null
<1> HIDE DEF keys
<1>10. ASSUME NEW i \in DOMAIN keys.e
       PROVE  /\ TakenEntry(keys.e[i])
              /\ Get(keys.e[i], "key_id") = [t |-> "str", s |-> DecodedEntry(keys.e[i]).id]
  <2>1. keys.e[i] \in Children(keys)
    BY <1>1 DEF Children
  <2>2. Shaped(keys.e[i]) /\ \A z \in Children(keys.e[i]) : Shaped(z)
    BY <2>1, <1>2, <1>9
  <2>3. GoodEntry(keys.e[i])
    BY <1>1
  <2>4. TakenEntry(keys.e[i]) /\ DecodedEntry(keys.e[i]).id = Get(keys.e[i], "key_id").s
    BY <2>2, <2>3, GoodEntryIsTaken
  <2>5. keys.e[i].t = "obj" /\ "key_id" \in Names(keys.e[i]) /\ Get(keys.e[i], "key_id").t = "str"
    BY <2>3 DEF GoodEntry, ExactObject, KeyFields
  <2>6. Shaped(Get(keys.e[i], "key_id"))
    BY <2>2, <2>5, GetChild
  <2>7. Get(keys.e[i], "key_id") = [t |-> "str", s |-> Get(keys.e[i], "key_id").s]
    BY <2>5, <2>6 DEF Shaped, Null
  <2> QED BY <2>4, <2>7
<1>11. PICK a \in DOMAIN keys.e : Get(keys.e[a], "key_id") = Get(v, "active_key_id")
  BY <1>1
<1>12. Get(v, "active_key_id") = [t |-> "str", s |-> DecodedEntry(keys.e[a]).id]
  BY <1>10, <1>11
<1>13. scanKeys(keys)
  BY <1>1, <1>10 DEF scanKeys, TakenEntry
<1>14. ASSUME NEW i \in DOMAIN v.f
       PROVE  IF v.f[i][1] = "keys" THEN scanKeys(v.f[i][2]) ELSE Scalar(v.f[i][2])
  <2>1. v.f[i][2] = Get(v, v.f[i][1]) /\ v.f[i][1] \in schema
    BY <1>4, <1>6, GetField DEF Names
  <2>2. CASE v.f[i][1] = "keys"
    BY <2>1, <2>2, <1>13 DEF keys
  <2>3. CASE v.f[i][1] = "version"
    BY <2>1, <2>3, <1>1 DEF Scalar
  <2>4. CASE v.f[i][1] = "active_key_id"
    BY <2>1, <2>4, <1>12 DEF Scalar
  <2>5. CASE v.f[i][1] = "expected_epoch"
    BY <2>1, <2>5, <1>1 DEF Scalar
  <2> QED BY <2>1, <2>2, <2>3, <2>4, <2>5, SchemaFields DEF RingFields
<1>15. scanJSONValue(v)
  BY <1>4, <1>6, <1>14 DEF scanJSONValue, scanFields
<1>16. Scannable(d)
  BY <1>1, <1>3, <1>15 DEF Scannable, v
<1>17. \A n \in schema \cap {"version", "expected_epoch"} : FitsInt(Last(v, n))
  BY <1>1, <1>7, MaxInt64Assumption DEF FitsInt
<1>18. Fits(Last(v, "active_key_id"), "str")
  BY <1>7, <1>8, <1>12 DEF Fits
<1>19. \A i \in DOMAIN keys.e : FitsEntry(keys.e[i])
  BY <1>10 DEF TakenEntry
<1>20. Decodable(v)
  BY <1>1, <1>4, <1>5, <1>9, <1>17, <1>18, <1>19 DEF Decodable, FitsDocument
<1> DEFINE ring == Decoded(v)
<1>21. /\ ring.version = Number(Last(v, "version"))
       /\ ring.expectedEpoch = Number(Last(v, "expected_epoch"))
       /\ ring.active = Text(Last(v, "active_key_id"))
       /\ ring.keys = [i \in DOMAIN keys.e |-> DecodedEntry(keys.e[i])]
  BY <1>5, <1>9 DEF Decoded
<1> HIDE DEF ring
<1>22. ring.version = 1
  BY <1>1, <1>7, <1>8, <1>21 DEF Number, Null
<1>23. "expected_epoch" \in schema => ring.expectedEpoch >= 1
  BY <1>1, <1>7, <1>17, <1>21, NumberField, MaxInt64Assumption DEF Null
<1>24. ring.active = DecodedEntry(keys.e[a]).id
  BY <1>7, <1>8, <1>12, <1>21 DEF Text, Null
<1>25. DOMAIN ring.keys = DOMAIN keys.e /\ \A i \in DOMAIN keys.e : ring.keys[i] = DecodedEntry(keys.e[i])
  BY <1>21
<1>26. Len(keys.e) \in Nat /\ DOMAIN keys.e = 1 .. Len(keys.e)
  BY <1>1, <1>9 DEF Shaped, IsSeq, Null
<1>27. Len(ring.keys) > 0
  <2>1. Len(ring.keys) = Len(keys.e)
    BY <1>21, <1>26
  <2> QED BY <2>1, <1>26
<1>28. \A i \in DOMAIN ring.keys : {Empty, Malformed} \cap {ring.keys[i].id, ring.keys[i].key} = {}
  BY <1>10, <1>25 DEF TakenEntry
<1>29. ASSUME NEW i \in DOMAIN ring.keys, NEW j \in 1 .. (i - 1)
       PROVE  ring.keys[j].id # ring.keys[i].id
  <2>1. i \in DOMAIN keys.e /\ j \in DOMAIN keys.e
    BY <1>25, <1>26
  <2>2. Get(keys.e[i], "key_id") # Get(keys.e[j], "key_id")
    BY <2>1, <1>1
  <2> QED BY <2>1, <2>2, <1>10, <1>25
<1>30. ring.active \notin {Empty, Malformed} /\ \E i \in DOMAIN ring.keys : ring.keys[i].id = ring.active
  BY <1>24, <1>25, <1>28
<1>31. validateRing(ring)
  BY <1>22, <1>27, <1>28, <1>29, <1>30 DEF validateRing
<1>32. Valid(ring)
  BY <1>23, <1>28, <1>30, <1>31 DEF Valid
<1> QED BY <1>16, <1>20, <1>32 DEF Taken, v, ring

(***************************************************************************)
(* JsonScan: the reader                                                    *)
(***************************************************************************)

RingTypeOK ==
  /\ schema \in Schemas
  /\ document \in [Inodes -> Documents]
  /\ ringPc \in {"read", "scan", "decode", "validate", "accepted", "refused"}
  /\ ringPc # "read" => pc = "done"

\* What the reader has found out of the document so far.
StageInv ==
  /\ ringPc \in {"scan", "decode", "validate", "accepted"} => result # None
  /\ ringPc \in {"decode", "validate"} => Scannable(doc)
  /\ ringPc = "validate" => Decodable(doc[1]) /\ wire = Decoded(doc[1])
  /\ ringPc = "accepted" => Taken(doc)
  /\ ringPc = "refused" => result = None \/ ~Taken(doc)

RingInv == FileInv /\ RingTypeOK /\ StageInv

LEMMA ReadInit_Inv ==
  ReadInit => RingInv
<1> SUFFICES ASSUME ReadInit PROVE RingInv
  OBVIOUS
<1>1. FileInv
  BY FileInit_Inv DEF ReadInit
<1>2. RingTypeOK /\ StageInv
  BY DEF ReadInit, RingTypeOK, StageInv
<1> QED BY <1>1, <1>2 DEF RingInv

\* The reader begins when the file is read, and nothing happens to it after.
LEMMA FileNext_Ring ==
  ASSUME RingInv, FileNext, UNCHANGED ringVars
  PROVE  RingInv'
<1>1. FileInv'
  BY FileInductive DEF RingInv
<1>2. pc # "done"
  BY DEF FileNext, Lstat, Open, Stat, Read, Change
<1>3. ringPc = "read" /\ ringPc' = ringPc /\ schema' = schema /\ document' = document
  BY <1>2 DEF RingInv, RingTypeOK, ringVars
<1>4. RingTypeOK' /\ StageInv'
  BY <1>3 DEF RingInv, RingTypeOK, StageInv
<1> QED BY <1>1, <1>4 DEF RingInv

\* What is said of a document does not change with the reader's place.
LEMMA SameDocument ==
  ASSUME schema' = schema, document' = document, file' = file
  PROVE  /\ doc' = doc
         /\ Scannable(doc)' <=> Scannable(doc)
         /\ Decodable(doc[1])' <=> Decodable(doc[1])
         /\ Decoded(doc[1])' = Decoded(doc[1])
         /\ Taken(doc)' <=> Taken(doc)
<1>1. doc' = doc
  BY DEF doc
<1>2. Scannable(doc)' <=> Scannable(doc)
  BY <1>1 DEF Scannable, scanJSONValue
<1>3. Decodable(doc[1])' <=> Decodable(doc[1])
  BY <1>1 DEF Decodable, FitsDocument
<1>4. Decoded(doc[1])' = Decoded(doc[1])
  BY <1>1 DEF Decoded
<1>5. Valid(Decoded(doc[1]))' <=> Valid(Decoded(doc[1]))
  BY <1>4 DEF Valid
<1> QED BY <1>1, <1>2, <1>3, <1>4, <1>5 DEF Taken

LEMMA RingNext_Ring ==
  ASSUME RingInv, RingNext, UNCHANGED fileVars
  PROVE  RingInv'
<1>1. FileInv'
  BY FileInductive DEF RingInv
<1>2. schema' = schema /\ document' = document
  BY DEF RingNext, BytesRead, Scan, Decode, ValidateRing
<1>3. file' = file /\ pc' = pc /\ result' = result
  BY DEF fileVars
<1>4. /\ Scannable(doc)' <=> Scannable(doc)
      /\ Decodable(doc[1])' <=> Decodable(doc[1])
      /\ Decoded(doc[1])' = Decoded(doc[1])
      /\ Taken(doc)' <=> Taken(doc)
  BY <1>2, <1>3, SameDocument
<1> USE DEF RingInv, RingTypeOK
<1>5. CASE BytesRead
  <2>1. pc = "done" /\ ringPc' = (IF result = None THEN "refused" ELSE "scan")
    BY <1>5 DEF BytesRead
  <2>2. RingTypeOK'
    BY <2>1, <1>2, <1>3
  <2>3. StageInv'
    BY <2>1, <1>3 DEF StageInv
  <2> QED BY <1>1, <2>2, <2>3
<1>6. CASE Scan
  <2>1. ringPc = "scan" /\ ringPc' = (IF Scannable(doc) THEN "decode" ELSE "refused")
    BY <1>6 DEF Scan
  <2>2. RingTypeOK'
    BY <2>1, <1>2, <1>3
  <2>3. ~Scannable(doc) => ~Taken(doc)
    BY DEF Taken
  <2>4. StageInv'
    BY <2>1, <2>3, <1>3, <1>4 DEF StageInv
  <2> QED BY <1>1, <2>2, <2>4
<1>7. CASE Decode
  <2>1. /\ ringPc = "decode"
        /\ Decodable(doc[1]) => ringPc' = "validate" /\ wire' = Decoded(doc[1])
        /\ ~Decodable(doc[1]) => ringPc' = "refused"
    BY <1>7 DEF Decode
  <2>2. RingTypeOK'
    BY <2>1, <1>2, <1>3
  <2>3. ~Decodable(doc[1]) => ~Taken(doc)
    BY DEF Taken
  <2>4. StageInv'
    BY <2>1, <2>3, <1>3, <1>4 DEF StageInv
  <2> QED BY <1>1, <2>2, <2>4
<1>8. CASE ValidateRing
  <2>1. ringPc = "validate" /\ ringPc' = (IF Valid(wire) THEN "accepted" ELSE "refused")
    BY <1>8 DEF ValidateRing
  <2>2. RingTypeOK'
    BY <2>1, <1>2, <1>3
  <2>3. Scannable(doc) /\ Decodable(doc[1]) /\ wire = Decoded(doc[1]) /\ result # None
    BY <2>1 DEF StageInv
  <2>4. Valid(wire) <=> Taken(doc)
    BY <2>3 DEF Taken
  <2>5. StageInv'
    BY <2>1, <2>3, <2>4, <1>3, <1>4 DEF StageInv
  <2> QED BY <1>1, <2>2, <2>5
<1> QED BY <1>5, <1>6, <1>7, <1>8 DEF RingNext

LEMMA UnchangedRing ==
  ASSUME RingInv, UNCHANGED <<fileVars, ringVars>>
  PROVE  RingInv'
<1>1. FileInv'
  BY FileInductive DEF RingInv
<1>2. /\ schema' = schema /\ document' = document /\ ringPc' = ringPc /\ wire' = wire
      /\ file' = file /\ pc' = pc /\ result' = result
  BY DEF fileVars, ringVars
<1>3. RingTypeOK'
  BY <1>2 DEF RingInv, RingTypeOK
<1>4. StageInv'
  BY <1>2, SameDocument DEF RingInv, StageInv
<1> QED BY <1>1, <1>3, <1>4 DEF RingInv

\* A secret or a key ring is read from the file that was checked, and only
\* after it was found well formed so far: the inductive invariant of the reader.
THEOREM ReaderInvariance == ReadSpec => []RingInv
<1>1. RingInv /\ [ReadNext]_<<fileVars, ringVars>> => RingInv'
  BY FileNext_Ring, RingNext_Ring, UnchangedRing DEF ReadNext, Decided
<1> QED BY <1>1, ReadInit_Inv, PTL DEF ReadSpec

\* Bytes are only ever returned of the regular, private file that Lstat saw at
\* the path, whatever is renamed, removed or re-moded during the read, and
\* however often.
THEOREM FileIsReadAsChecked == ReadSpec => []ReadWhatWasChecked
<1>1. RingInv => ReadWhatWasChecked
  BY FileInv_ReadWhatWasChecked DEF RingInv
<1> QED BY <1>1, ReaderInvariance, PTL

\* For every limit and every content: what is returned is the file without one
\* line ending, trimmed of nothing else, within the limit; and a secret in a
\* file left alone is returned.
THEOREM SecretIsReturned == ReadSpec => []ReturnsTheSecret
<1>1. RingInv => ReturnsTheSecret
  BY FileInv_ReturnsTheSecret DEF RingInv
<1> QED BY <1>1, ReaderInvariance, PTL

LEMMA RingInv_OnlyWellFormedRings ==
  RingInv => OnlyWellFormedRings
<1> SUFFICES ASSUME RingInv, ringPc \in {"accepted", "refused"}
             PROVE  ringPc = "accepted" <=> result # None /\ WellFormedRing(document[linkInfo.inode])
  BY DEF OnlyWellFormedRings
<1>1. schema \in Schemas
  BY DEF RingInv, RingTypeOK
<1>2. CASE result = None
  BY <1>2 DEF RingInv, StageInv
<1>3. CASE result # None
  <2>1. file = linkInfo.inode /\ file \in Inodes
    BY <1>3 DEF RingInv, FileInv, ResultInv, Checked
  <2>2. doc = document[linkInfo.inode] /\ doc \in Documents
    BY <2>1 DEF doc, RingInv, RingTypeOK
  <2>3. Taken(doc) <=> WellFormedRing(doc)
    BY <1>1, <2>2, TakenIsWellFormed, WellFormedIsTaken
  <2>4. ringPc = "accepted" <=> Taken(doc)
    BY <1>3 DEF RingInv, StageInv
  <2> QED BY <1>3, <2>2, <2>3, <2>4
<1> QED BY <1>2, <1>3

\* For every document, of any number of keys: the scanner, the decoder with
\* its own rules, and the validation accept together exactly the well-formed
\* rings, of the file whose mode was checked.
THEOREM ExactlyWellFormedRings == ReadSpec => []OnlyWellFormedRings
<1> QED BY RingInv_OnlyWellFormedRings, ReaderInvariance, PTL

(***************************************************************************)
(* Preflight: the verdict and what came of it                              *)
(***************************************************************************)

\* A strict setting that compose reads as something else is in the file, and
\* its text is not in the setting's syntax.
RereadInv == \A n \in (DOMAIN reread \cap DOMAIN Default) \ FreeText : n \in DOMAIN env /\ Foreign(n, env[n])

\* A container is judged once, after the verdict; nothing is edited then.
DeploymentInv ==
  /\ RereadInv
  /\ profile \in {"core", "cloudflare"}
  /\ status \in [Components -> {"absent", "running", "refused"}]
  /\ verdict # "accepted" => \A c \in Components : status[c] = "absent"
  /\ verdict = "accepted" => Accepted
  /\ \A c \in Components : status[c] = "running" => Starts(c)
  /\ \A c \in Components : status[c] = "refused" => ~Starts(c)

LEMMA SameInputs ==
  ASSUME env' = env, reread' = reread, shell' = shell, secrets' = secrets, profile' = profile
  PROVE  /\ Accepted' <=> Accepted
         /\ RereadInv' <=> RereadInv
         /\ \A c \in Components : Starts(c)' <=> Starts(c)
<1>1. PreflightFiles' = PreflightFiles
  BY DEF PreflightFiles
<1>2. Accepted' <=> Accepted
  BY <1>1 DEF Accepted
<1>3. \A name : interpolate(name)' = interpolate(name)
  BY DEF interpolate
<1>4. \A c : ComposeEnv(c)' = ComposeEnv(c)
  BY <1>3 DEF ComposeEnv
<1>5. \A c : Mounted(c)' = Mounted(c)
  BY DEF Mounted
<1>6. \A c \in Components : Starts(c)' <=> Starts(c)
  <2> SUFFICES ASSUME NEW c \in Components PROVE Starts(c)' <=> Starts(c)
    OBVIOUS
  <2>1. /\ interpolate("POSTGRES_DB")' = interpolate("POSTGRES_DB")
        /\ interpolate("DATABASE_NAME")' = interpolate("DATABASE_NAME")
        /\ interpolate("DATABASE_PORT")' = interpolate("DATABASE_PORT")
        /\ interpolate("TLS_MODE")' = interpolate("TLS_MODE")
        /\ interpolate("ACME_DNS_PROVIDER")' = interpolate("ACME_DNS_PROVIDER")
        /\ interpolate("ACME_EMAIL")' = interpolate("ACME_EMAIL")
        /\ interpolate("PUBLIC_API_HOST")' = interpolate("PUBLIC_API_HOST")
        /\ interpolate("ADMIN_HOST")' = interpolate("ADMIN_HOST")
    BY DEF interpolate
  <2> QED BY <2>1, <1>4, <1>5 DEF Starts, validate_host
<1>7. RereadInv' <=> RereadInv
  BY DEF RereadInv
<1> QED BY <1>2, <1>6, <1>7

LEMMA Deployment_Init ==
  Init => DeploymentInv
BY DEF Init, DeploymentInv, RereadInv

\* A line that is written over leaves nothing of what compose read in it.
LEMMA Edit_Reread ==
  ASSUME RereadInv, Edit
  PROVE  RereadInv'
<1>1. CASE reread' = reread /\ env' = env
  BY <1>1 DEF RereadInv
<1>2. CASE \E e \in Edits : /\ env' = Merge(e.raw, env)
                           /\ reread' = Merge(e.read, [n \in DOMAIN reread \ DOMAIN e.raw |-> reread[n]])
  <2>1. PICK e \in Edits : /\ env' = Merge(e.raw, env)
                          /\ reread' = Merge(e.read, [n \in DOMAIN reread \ DOMAIN e.raw |-> reread[n]])
    BY <1>2
  <2>2. DOMAIN env' = DOMAIN e.raw \cup DOMAIN env
    BY <2>1 DEF Merge
  <2>3. DOMAIN reread' = DOMAIN e.read \cup (DOMAIN reread \ DOMAIN e.raw)
    BY <2>1 DEF Merge
  <2>4. \A n \in DOMAIN env' : env'[n] = IF n \in DOMAIN e.raw THEN e.raw[n] ELSE env[n]
    BY <2>1, <2>2 DEF Merge
  <2>5. /\ DOMAIN e.read \subseteq DOMAIN e.raw
        /\ \A n \in (DOMAIN e.read \cap DOMAIN Default) \ FreeText : Foreign(n, e.raw[n])
    BY EditsAssumption
  <2> SUFFICES ASSUME NEW n \in (DOMAIN reread' \cap DOMAIN Default) \ FreeText
               PROVE  n \in DOMAIN env' /\ Foreign(n, env'[n])
    BY DEF RereadInv
  <2>6. CASE n \in DOMAIN e.read
    BY <2>2, <2>4, <2>5, <2>6
  <2>7. CASE n \in DOMAIN reread \ DOMAIN e.raw
    <3>1. n \in DOMAIN env /\ Foreign(n, env[n])
      BY <2>7 DEF RereadInv
    <3> QED BY <2>2, <2>4, <2>7, <3>1
  <2> QED BY <2>3, <2>6, <2>7
<1> QED BY <1>1, <1>2 DEF Edit

LEMMA Deployment_Next ==
  ASSUME DeploymentInv, [Next]_vars
  PROVE  DeploymentInv'
<1> USE DEF DeploymentInv
<1>1. CASE Edit
  <2>1. verdict = "none" /\ verdict' = verdict /\ status' = status /\ profile' = profile
    BY <1>1 DEF Edit
  <2>2. RereadInv'
    BY <1>1, Edit_Reread
  <2> QED BY <2>1, <2>2
<1>2. CASE Validate
  <2>1. /\ verdict = "none" /\ verdict' = IF Accepted THEN "accepted" ELSE "refused"
        /\ env' = env /\ reread' = reread /\ shell' = shell /\ secrets' = secrets /\ profile' = profile /\ status' = status
    BY <1>2 DEF Validate
  <2>2. (Accepted' <=> Accepted) /\ (RereadInv' <=> RereadInv)
    BY <2>1, SameInputs
  <2> QED BY <2>1, <2>2
<1>3. CASE Up
  <2>1. /\ verdict = "accepted" /\ verdict' = verdict
        /\ status' = [c \in Components |-> IF Starts(c) THEN "running" ELSE "refused"]
        /\ env' = env /\ reread' = reread /\ shell' = shell /\ secrets' = secrets /\ profile' = profile
    BY <1>3 DEF Up
  <2>2. (Accepted' <=> Accepted) /\ (RereadInv' <=> RereadInv) /\ \A c \in Components : Starts(c)' <=> Starts(c)
    BY <2>1, SameInputs
  <2>3. \A c \in Components : status'[c] = IF Starts(c) THEN "running" ELSE "refused"
    BY <2>1
  <2>4. status' \in [Components -> {"absent", "running", "refused"}]
    BY <2>1
  <2> QED BY <2>1, <2>2, <2>3, <2>4
<1>4. CASE Settled \/ UNCHANGED vars
  <2>1. verdict' = verdict /\ status' = status /\ env' = env /\ reread' = reread /\ shell' = shell /\ secrets' = secrets /\ profile' = profile
    BY <1>4 DEF Settled, vars
  <2>2. (Accepted' <=> Accepted) /\ (RereadInv' <=> RereadInv) /\ \A c \in Components : Starts(c)' <=> Starts(c)
    BY <2>1, SameInputs
  <2> QED BY <2>1, <2>2
<1> QED BY <1>1, <1>2, <1>3, <1>4 DEF Next

\* The verdict is that of the files the containers are then given, and every
\* container's state is what its own checks say of them.
THEOREM DeploymentInvariance == Spec => []DeploymentInv
<1> QED BY Deployment_Init, Deployment_Next, PTL DEF Spec

(***************************************************************************)
(* Settings: one setting                                                   *)
(***************************************************************************)

LEMMA InRange ==
  ASSUME NEW v, NEW n, NEW x, NEW a \in Int, NEW b \in Int
  PROVE  inRange(v, n, x, a, b) <=>
           /\ value(v, n, x) \notin {Empty, Malformed}
           /\ value(v, n, x) \in Int /\ a <= value(v, n, x) /\ value(v, n, x) <= b
BY DEF inRange

LEMMA DurationUnits ==
  Millisecond \in Nat /\ Second \in Nat /\ Minute \in Nat /\ Hour \in Nat /\ Day \in Nat
BY DEF Millisecond, Second, Minute, Hour, Day

\* The parsed readiness policy is one that ReadinessPolicy.validate takes.
LEMMA ParsedPolicy ==
  ASSUME NEW v, parseDependencyReadiness(v)
  PROVE  LET r == readinessPolicy(v)
         IN /\ r.probeInterval > 0
            /\ 0 < r.probeTimeout /\ r.probeTimeout < r.startupTimeout
            /\ 0 < r.retryMinimum /\ r.retryMinimum <= r.retryMaximum
<1>1. /\ inRange(v, "DEPENDENCY_PROBE_TIMEOUT", 3 * Second, 100, Minute)
      /\ inRange(v, "DEPENDENCY_PROBE_INTERVAL", 5 * Second, Second, Minute)
      /\ inRange(v, "DEPENDENCY_RETRY_MIN_DELAY", 100, 10, Minute)
      /\ value(v, "DEPENDENCY_PROBE_TIMEOUT", 3 * Second) < value(v, "DEPENDENCY_STARTUP_TIMEOUT", 60 * Second)
      /\ value(v, "DEPENDENCY_RETRY_MIN_DELAY", 100) <= value(v, "DEPENDENCY_RETRY_MAX_DELAY", 2 * Second)
  BY DEF parseDependencyReadiness
<1>2. Second > 0 /\ Second \in Int /\ Minute \in Int
  BY DEF Second, Minute
<1>3. /\ value(v, "DEPENDENCY_PROBE_TIMEOUT", 3 * Second) \in Int /\ 100 <= value(v, "DEPENDENCY_PROBE_TIMEOUT", 3 * Second)
      /\ value(v, "DEPENDENCY_PROBE_INTERVAL", 5 * Second) \in Int /\ Second <= value(v, "DEPENDENCY_PROBE_INTERVAL", 5 * Second)
      /\ value(v, "DEPENDENCY_RETRY_MIN_DELAY", 100) \in Int /\ 10 <= value(v, "DEPENDENCY_RETRY_MIN_DELAY", 100)
  BY <1>1, <1>2, InRange
<1> QED BY <1>1, <1>2, <1>3 DEF readinessPolicy

LEMMA ParsedService ==
  ASSUME NEW p \in Services, NEW v, NEW files, Parse(p, v, files)
  PROVE  parseDependencyReadiness(v)
BY DEF Services, Parse, ParseGateway, ParseControlPlane, ParseWorker

LEMMA StartsService ==
  ASSUME NEW p \in Services
  PROVE  Starts(p) <=> Parse(p, ComposeEnv(p), Mounted(p))
BY DEF Services, Starts

\* Whatever the environment: a service that runs has a readiness policy that
\* dependency.Run does not reject.
THEOREM RunningPoliciesAreValid == Spec => []PoliciesAreValid
<1>1. DeploymentInv => PoliciesAreValid
  <2> SUFFICES ASSUME DeploymentInv, NEW p \in Services, status[p] = "running"
               PROVE  LET r == readinessPolicy(ComposeEnv(p))
                      IN /\ r.probeInterval > 0
                         /\ 0 < r.probeTimeout /\ r.probeTimeout < r.startupTimeout
                         /\ 0 < r.retryMinimum /\ r.retryMinimum <= r.retryMaximum
    BY DEF PoliciesAreValid
  <2>1. Starts(p)
    BY DEF DeploymentInv, Components
  <2>2. parseDependencyReadiness(ComposeEnv(p))
    BY <2>1, StartsService, ParsedService
  <2> QED BY <2>2, ParsedPolicy
<1> QED BY <1>1, DeploymentInvariance, PTL

(***************************************************************************)
(* Settings: a parser looks at the settings of its process and no others   *)
(***************************************************************************)

\* Two environments that read alike at the names of a set.
Alike(v, w, names) == \A n \in names : \A x : value(v, n, x) = value(w, n, x)

LEMMA AlikeReads ==
  ASSUME NEW v, NEW w, NEW names, Alike(v, w, names), NEW n \in names, NEW x
  PROVE  /\ value(v, n, x) = value(w, n, x)
         /\ \A a, b : inRange(v, n, x, a, b) <=> inRange(w, n, x, a, b)
         /\ boolean(v, n, x) <=> boolean(w, n, x)
         /\ clean(v, n, x) <=> clean(w, n, x)
         /\ requiredText(v, n) <=> requiredText(w, n)
         /\ requiredPath(v, n, x) = requiredPath(w, n, x)
<1>1. \A y : value(v, n, y) = value(w, n, y)
  BY DEF Alike
<1> QED BY <1>1 DEF inRange, boolean, clean, requiredText, requiredPath

LEMMA AlikeSubset ==
  ASSUME NEW v, NEW w, NEW names, Alike(v, w, names), NEW fewer, fewer \subseteq names
  PROVE  Alike(v, w, fewer)
BY DEF Alike

LoggingNames == {"LOG_LEVEL", "LOG_FORMAT"}
TelemetryNames == {"METRICS_ENABLED", "OTEL_ENABLED", "OTEL_EXPORTER_OTLP_ENDPOINT"}
HTTPNames == {"HTTP_BIND_ADDRESS", "HTTP_PORT", "SHUTDOWN_GRACE_PERIOD"}
ReleaseNames == {"NEXUSRELAY_ENV", "NEXUSRELAY_VERSION"}
CommonNames == ReleaseNames \cup HTTPNames \cup LoggingNames \cup TelemetryNames

LEMMA AlikeCommon ==
  ASSUME NEW v, NEW w, Alike(v, w, CommonNames)
  PROVE  parseServiceCommon(v) <=> parseServiceCommon(w)
<1> USE DEF CommonNames, ReleaseNames, HTTPNames, LoggingNames, TelemetryNames
<1>1. validateEnvironment(v) <=> validateEnvironment(w)
  BY AlikeReads DEF validateEnvironment
<1>2. clean(v, "NEXUSRELAY_VERSION", "dev") <=> clean(w, "NEXUSRELAY_VERSION", "dev")
  BY AlikeReads
<1>3. parseHTTP(v) <=> parseHTTP(w)
  BY AlikeReads DEF parseHTTP
<1>4. parseLogging(v) <=> parseLogging(w)
  BY AlikeReads DEF parseLogging
<1>5. parseObservability(v) <=> parseObservability(w)
  <2>1. value(v, "OTEL_EXPORTER_OTLP_ENDPOINT", Empty) = value(w, "OTEL_EXPORTER_OTLP_ENDPOINT", Empty)
    BY AlikeReads
  <2>0. /\ \A x : value(v, "OTEL_ENABLED", x) = value(w, "OTEL_ENABLED", x)
        /\ \A x : value(v, "METRICS_ENABLED", x) = value(w, "METRICS_ENABLED", x)
    BY DEF Alike
  <2>2. value(v, "OTEL_ENABLED", FALSE) = value(w, "OTEL_ENABLED", FALSE)
    BY <2>0, Zenon
  <2>3. boolean(v, "METRICS_ENABLED", TRUE) <=> boolean(w, "METRICS_ENABLED", TRUE)
    BY <2>0, Zenon DEF boolean
  <2>4. boolean(v, "OTEL_ENABLED", FALSE) <=> boolean(w, "OTEL_ENABLED", FALSE)
    BY <2>0, Zenon DEF boolean
  <2> QED BY <1>4, <2>1, <2>2, <2>3, <2>4 DEF parseObservability
<1> QED BY <1>1, <1>2, <1>3, <1>5 DEF parseServiceCommon

LEMMA AlikeSSLMode ==
  ASSUME NEW v, NEW w, Alike(v, w, {"NEXUSRELAY_ENV", "DATABASE_SSLMODE"})
  PROVE  parseDatabaseSSLMode(v) <=> parseDatabaseSSLMode(w)
BY AlikeReads DEF parseDatabaseSSLMode, isProductionGrade

\* The database settings of a process.
SharedDatabaseNames ==
  {"NEXUSRELAY_ENV", "DATABASE_NAME", "DATABASE_HOST", "DATABASE_PORT", "DATABASE_SSLMODE",
   "DATABASE_STATEMENT_TIMEOUT", "DATABASE_TRANSACTION_TIMEOUT"}
OwnDatabaseNames(s) == {s.userSetting, s.passwordSetting, s.minSetting, s.maxSetting}

LEMMA AlikeDatabase ==
  ASSUME NEW v, NEW w, NEW files, NEW s, Alike(v, w, SharedDatabaseNames \cup OwnDatabaseNames(s))
  PROVE  parseDatabase(v, files, s) <=> parseDatabase(w, files, s)
<1> DEFINE names == SharedDatabaseNames \cup OwnDatabaseNames(s)
<1>1. parseDatabaseSSLMode(v) <=> parseDatabaseSSLMode(w)
  <2>1. {"NEXUSRELAY_ENV", "DATABASE_SSLMODE"} \subseteq names
    BY DEF SharedDatabaseNames
  <2>2. Alike(v, w, {"NEXUSRELAY_ENV", "DATABASE_SSLMODE"})
    BY <2>1, AlikeSubset
  <2> QED BY <2>2, AlikeSSLMode
<1>2. /\ clean(v, "DATABASE_NAME", "nexusrelay") <=> clean(w, "DATABASE_NAME", "nexusrelay")
      /\ clean(v, "DATABASE_HOST", "postgres") <=> clean(w, "DATABASE_HOST", "postgres")
      /\ inRange(v, "DATABASE_PORT", 5432, 1, MaxPort) <=> inRange(w, "DATABASE_PORT", 5432, 1, MaxPort)
      /\ inRange(v, "DATABASE_STATEMENT_TIMEOUT", 30 * Second, Millisecond, 30 * Minute)
           <=> inRange(w, "DATABASE_STATEMENT_TIMEOUT", 30 * Second, Millisecond, 30 * Minute)
      /\ inRange(v, "DATABASE_TRANSACTION_TIMEOUT", 30 * Second, Millisecond, 30 * Minute)
           <=> inRange(w, "DATABASE_TRANSACTION_TIMEOUT", 30 * Second, Millisecond, 30 * Minute)
  <2>1. {"DATABASE_NAME", "DATABASE_HOST", "DATABASE_PORT", "DATABASE_STATEMENT_TIMEOUT",
         "DATABASE_TRANSACTION_TIMEOUT"} \subseteq names
    BY DEF SharedDatabaseNames
  <2>2. clean(v, "DATABASE_NAME", "nexusrelay") <=> clean(w, "DATABASE_NAME", "nexusrelay")
    BY <2>1, AlikeReads
  <2>3. clean(v, "DATABASE_HOST", "postgres") <=> clean(w, "DATABASE_HOST", "postgres")
    BY <2>1, AlikeReads
  <2>4. inRange(v, "DATABASE_PORT", 5432, 1, MaxPort) <=> inRange(w, "DATABASE_PORT", 5432, 1, MaxPort)
    BY <2>1, AlikeReads
  <2>5. inRange(v, "DATABASE_STATEMENT_TIMEOUT", 30 * Second, Millisecond, 30 * Minute)
          <=> inRange(w, "DATABASE_STATEMENT_TIMEOUT", 30 * Second, Millisecond, 30 * Minute)
    BY <2>1, AlikeReads
  <2>6. inRange(v, "DATABASE_TRANSACTION_TIMEOUT", 30 * Second, Millisecond, 30 * Minute)
          <=> inRange(w, "DATABASE_TRANSACTION_TIMEOUT", 30 * Second, Millisecond, 30 * Minute)
    BY <2>1, AlikeReads
  <2> QED BY <2>2, <2>3, <2>4, <2>5, <2>6
<1>3. /\ value(v, s.userSetting, s.user) = value(w, s.userSetting, s.user)
      /\ inRange(v, s.minSetting, 2, 0, 10000) <=> inRange(w, s.minSetting, 2, 0, 10000)
      /\ inRange(v, s.maxSetting, s.defaultMax, 1, 10000) <=> inRange(w, s.maxSetting, s.defaultMax, 1, 10000)
      /\ value(v, s.minSetting, 2) = value(w, s.minSetting, 2)
      /\ value(v, s.maxSetting, s.defaultMax) = value(w, s.maxSetting, s.defaultMax)
      /\ requiredPath(v, s.passwordSetting, s.password) = requiredPath(w, s.passwordSetting, s.password)
  BY AlikeReads DEF OwnDatabaseNames
<1> QED BY <1>1, <1>2, <1>3 DEF parseDatabase

LEMMA AlikeRedis ==
  ASSUME NEW v, NEW w, NEW files, NEW maxSetting, NEW defaultMax,
         Alike(v, w, {"REDIS_URL_FILE", maxSetting})
  PROVE  parseRedis(v, files, maxSetting, defaultMax) <=> parseRedis(w, files, maxSetting, defaultMax)
<1>1. requiredPath(v, "REDIS_URL_FILE", "redis_url") = requiredPath(w, "REDIS_URL_FILE", "redis_url")
  BY AlikeReads
<1>2. inRange(v, maxSetting, defaultMax, 1, 10000) <=> inRange(w, maxSetting, defaultMax, 1, 10000)
  BY AlikeReads
<1> QED BY <1>1, <1>2 DEF parseRedis

ReadinessNames ==
  {"DEPENDENCY_STARTUP_TIMEOUT", "DEPENDENCY_PROBE_TIMEOUT", "DEPENDENCY_PROBE_INTERVAL",
   "DEPENDENCY_RETRY_MIN_DELAY", "DEPENDENCY_RETRY_MAX_DELAY"}

LEMMA AlikeReadiness ==
  ASSUME NEW v, NEW w, Alike(v, w, ReadinessNames)
  PROVE  parseDependencyReadiness(v) <=> parseDependencyReadiness(w)
BY AlikeReads DEF parseDependencyReadiness, ReadinessNames

PublicNames == {"NEXUSRELAY_ENV", "PUBLIC_API_BASE_URL", "TRUSTED_PROXY_CIDRS"}
AdminNames == {"NEXUSRELAY_ENV", "ADMIN_BASE_URL", "ADMIN_ORIGINS"}

LEMMA AlikePublic ==
  ASSUME NEW v, NEW w, Alike(v, w, PublicNames)
  PROVE  /\ parsePublicAPIURL(v) <=> parsePublicAPIURL(w)
         /\ parseGatewayEndpoints(v) <=> parseGatewayEndpoints(w)
<1>1. /\ value(v, "PUBLIC_API_BASE_URL", LocalPublicURL) = value(w, "PUBLIC_API_BASE_URL", LocalPublicURL)
      /\ value(v, "TRUSTED_PROXY_CIDRS", Empty) = value(w, "TRUSTED_PROXY_CIDRS", Empty)
      /\ isProductionGrade(v) <=> isProductionGrade(w)
  BY AlikeReads DEF PublicNames, isProductionGrade
<1>2. parsePublicAPIURL(v) <=> parsePublicAPIURL(w)
  BY <1>1 DEF parsePublicAPIURL
<1> QED BY <1>1, <1>2 DEF parseGatewayEndpoints

LEMMA AlikeAdmin ==
  ASSUME NEW v, NEW w, Alike(v, w, AdminNames)
  PROVE  parseAdminURLs(v) <=> parseAdminURLs(w)
<1>1. /\ value(v, "ADMIN_BASE_URL", LocalAdminURL) = value(w, "ADMIN_BASE_URL", LocalAdminURL)
      /\ value(v, "ADMIN_ORIGINS", <<LocalAdminURL>>) = value(w, "ADMIN_ORIGINS", <<LocalAdminURL>>)
      /\ isProductionGrade(v) <=> isProductionGrade(w)
  BY AlikeReads DEF AdminNames, isProductionGrade
<1>2. validateAdminOrigins(v) <=> validateAdminOrigins(w)
  BY <1>1 DEF validateAdminOrigins
<1> QED BY <1>1, <1>2 DEF parseAdminURLs

PasswordNames ==
  {"PASSWORD_ARGON2_MEMORY_KIB", "PASSWORD_ARGON2_ITERATIONS", "PASSWORD_ARGON2_PARALLELISM"}
SessionNames ==
  {"SESSION_IDLE_TTL", "SESSION_ABSOLUTE_TTL", "SESSION_LAST_SEEN_WRITE_INTERVAL",
   "SESSION_COOKIE_NAME", "SESSION_SECRET_FILE", "CSRF_SECRET_RING_FILE"} \cup PasswordNames

LEMMA AlikePassword ==
  ASSUME NEW v, NEW w, Alike(v, w, PasswordNames)
  PROVE  parsePasswordPolicy(v) <=> parsePasswordPolicy(w)
BY AlikeReads DEF parsePasswordPolicy, PasswordNames

LEMMA AlikeSession ==
  ASSUME NEW v, NEW w, NEW files, Alike(v, w, SessionNames)
  PROVE  /\ parseSessionPolicy(v, files) <=> parseSessionPolicy(w, files)
         /\ CookieName(v) = CookieName(w)
<1>1. parsePasswordPolicy(v) <=> parsePasswordPolicy(w)
  BY AlikeSubset, AlikePassword DEF SessionNames
<1>2. CookieName(v) = CookieName(w)
  BY AlikeReads DEF CookieName, SessionNames
<1>3. /\ requiredPath(v, "SESSION_SECRET_FILE", "session_secret") = requiredPath(w, "SESSION_SECRET_FILE", "session_secret")
      /\ requiredPath(v, "CSRF_SECRET_RING_FILE", "csrf_secret_ring") = requiredPath(w, "CSRF_SECRET_RING_FILE", "csrf_secret_ring")
  BY AlikeReads DEF SessionNames
<1>4. \A x, a, b : /\ value(v, "SESSION_IDLE_TTL", x) = value(w, "SESSION_IDLE_TTL", x)
                   /\ value(v, "SESSION_ABSOLUTE_TTL", x) = value(w, "SESSION_ABSOLUTE_TTL", x)
                   /\ inRange(v, "SESSION_IDLE_TTL", x, a, b) <=> inRange(w, "SESSION_IDLE_TTL", x, a, b)
                   /\ inRange(v, "SESSION_ABSOLUTE_TTL", x, a, b) <=> inRange(w, "SESSION_ABSOLUTE_TTL", x, a, b)
                   /\ inRange(v, "SESSION_LAST_SEEN_WRITE_INTERVAL", x, a, b)
                        <=> inRange(w, "SESSION_LAST_SEEN_WRITE_INTERVAL", x, a, b)
  BY AlikeReads DEF SessionNames
<1> QED BY <1>1, <1>2, <1>3, <1>4 DEF parseSessionPolicy

UpstreamNames ==
  {"REQUEST_BODY_MAX_BYTES", "UPSTREAM_CONNECT_TIMEOUT", "UPSTREAM_FIRST_BYTE_TIMEOUT",
   "UPSTREAM_IDLE_TIMEOUT", "UPSTREAM_TOTAL_TIMEOUT", "MAX_UPSTREAM_ATTEMPTS"}

LEMMA AlikeGatewayPolicy ==
  ASSUME NEW v, NEW w, Alike(v, w, UpstreamNames)
  PROVE  parseGatewayPolicy(v) <=> parseGatewayPolicy(w)
BY AlikeReads DEF parseGatewayPolicy, UpstreamNames

WorkerNames ==
  {"REQUEST_RETENTION_DAYS", "AUDIT_RETENTION_DAYS", "HEALTH_OBSERVATION_RETENTION_DAYS",
   "PROCESSED_OUTBOX_RETENTION_DAYS", "ANALYTICS_TARGET_LAG",
   "STALE_REQUEST_RECONCILIATION_INTERVAL", "WORKER_CONCURRENCY", "OUTBOX_LEASE_DURATION",
   "OUTBOX_RETRY_BASE_DELAY", "OUTBOX_RETRY_MAX_DELAY", "HEALTH_PROBE_INTERVAL",
   "HEALTH_FAST_WINDOW", "HEALTH_STABILIZING_WINDOW", "HEALTH_MIN_SAMPLES",
   "HEALTH_POLICY_VERSION", "RETENTION_BATCH_SIZE", "HEALTH_UNAVAILABLE_ENTRY_THRESHOLD_BPS",
   "HEALTH_UNAVAILABLE_EXIT_THRESHOLD_BPS", "HEALTH_CONSECUTIVE_FAILURES",
   "HEALTH_CONSECUTIVE_SUCCESSES", "UPSTREAM_TOTAL_TIMEOUT"}

LEMMA AlikeWorkerPolicy ==
  ASSUME NEW v, NEW w, Alike(v, w, WorkerNames)
  PROVE  parseWorkerPolicy(v) <=> parseWorkerPolicy(w)
<1>1. /\ inRange(v, "REQUEST_RETENTION_DAYS", 90, 1, 36500) <=> inRange(w, "REQUEST_RETENTION_DAYS", 90, 1, 36500)
      /\ inRange(v, "AUDIT_RETENTION_DAYS", 365, 1, 36500) <=> inRange(w, "AUDIT_RETENTION_DAYS", 365, 1, 36500)
      /\ inRange(v, "HEALTH_OBSERVATION_RETENTION_DAYS", 14, 1, 36500) <=> inRange(w, "HEALTH_OBSERVATION_RETENTION_DAYS", 14, 1, 36500)
      /\ inRange(v, "PROCESSED_OUTBOX_RETENTION_DAYS", 7, 1, 36500) <=> inRange(w, "PROCESSED_OUTBOX_RETENTION_DAYS", 7, 1, 36500)
      /\ inRange(v, "ANALYTICS_TARGET_LAG", 5 * Minute, Second, 24 * Hour) <=> inRange(w, "ANALYTICS_TARGET_LAG", 5 * Minute, Second, 24 * Hour)
      /\ inRange(v, "STALE_REQUEST_RECONCILIATION_INTERVAL", Minute, Second, 24 * Hour) <=> inRange(w, "STALE_REQUEST_RECONCILIATION_INTERVAL", Minute, Second, 24 * Hour)
      /\ inRange(v, "WORKER_CONCURRENCY", 4, 1, 1024) <=> inRange(w, "WORKER_CONCURRENCY", 4, 1, 1024)
      /\ inRange(v, "OUTBOX_LEASE_DURATION", 30 * Second, Second, Hour) <=> inRange(w, "OUTBOX_LEASE_DURATION", 30 * Second, Second, Hour)
  BY AlikeReads, SMTT(30) DEF WorkerNames
<1>2. /\ inRange(v, "OUTBOX_RETRY_BASE_DELAY", Second, Millisecond, Hour) <=> inRange(w, "OUTBOX_RETRY_BASE_DELAY", Second, Millisecond, Hour)
      /\ inRange(v, "OUTBOX_RETRY_MAX_DELAY", 5 * Minute, Millisecond, 24 * Hour) <=> inRange(w, "OUTBOX_RETRY_MAX_DELAY", 5 * Minute, Millisecond, 24 * Hour)
      /\ inRange(v, "HEALTH_PROBE_INTERVAL", Minute, Second, 24 * Hour) <=> inRange(w, "HEALTH_PROBE_INTERVAL", Minute, Second, 24 * Hour)
      /\ inRange(v, "HEALTH_FAST_WINDOW", 5 * Minute, Second, 24 * Hour) <=> inRange(w, "HEALTH_FAST_WINDOW", 5 * Minute, Second, 24 * Hour)
      /\ inRange(v, "HEALTH_STABILIZING_WINDOW", 30 * Minute, Second, 7 * Day) <=> inRange(w, "HEALTH_STABILIZING_WINDOW", 30 * Minute, Second, 7 * Day)
      /\ inRange(v, "HEALTH_MIN_SAMPLES", 20, 1, 1000000) <=> inRange(w, "HEALTH_MIN_SAMPLES", 20, 1, 1000000)
      /\ inRange(v, "HEALTH_POLICY_VERSION", 1, 1, 2147483647) <=> inRange(w, "HEALTH_POLICY_VERSION", 1, 1, 2147483647)
      /\ inRange(v, "HEALTH_UNAVAILABLE_ENTRY_THRESHOLD_BPS", 5000, 0, 10000) <=> inRange(w, "HEALTH_UNAVAILABLE_ENTRY_THRESHOLD_BPS", 5000, 0, 10000)
  BY AlikeReads, SMTT(30) DEF WorkerNames
<1>3. /\ inRange(v, "HEALTH_UNAVAILABLE_EXIT_THRESHOLD_BPS", 9000, 0, 10000) <=> inRange(w, "HEALTH_UNAVAILABLE_EXIT_THRESHOLD_BPS", 9000, 0, 10000)
      /\ inRange(v, "HEALTH_CONSECUTIVE_FAILURES", 3, 1, 1000) <=> inRange(w, "HEALTH_CONSECUTIVE_FAILURES", 3, 1, 1000)
      /\ inRange(v, "HEALTH_CONSECUTIVE_SUCCESSES", 3, 1, 1000) <=> inRange(w, "HEALTH_CONSECUTIVE_SUCCESSES", 3, 1, 1000)
      /\ inRange(v, "RETENTION_BATCH_SIZE", 1000, 1, 100000) <=> inRange(w, "RETENTION_BATCH_SIZE", 1000, 1, 100000)
      /\ inRange(v, "UPSTREAM_TOTAL_TIMEOUT", 10 * Minute, Millisecond, 24 * Hour) <=> inRange(w, "UPSTREAM_TOTAL_TIMEOUT", 10 * Minute, Millisecond, 24 * Hour)
  BY AlikeReads, SMTT(30) DEF WorkerNames
<1>4. /\ value(v, "OUTBOX_RETRY_BASE_DELAY", Second) = value(w, "OUTBOX_RETRY_BASE_DELAY", Second)
      /\ value(v, "OUTBOX_RETRY_MAX_DELAY", 5 * Minute) = value(w, "OUTBOX_RETRY_MAX_DELAY", 5 * Minute)
      /\ value(v, "HEALTH_FAST_WINDOW", 5 * Minute) = value(w, "HEALTH_FAST_WINDOW", 5 * Minute)
      /\ value(v, "HEALTH_STABILIZING_WINDOW", 30 * Minute) = value(w, "HEALTH_STABILIZING_WINDOW", 30 * Minute)
      /\ value(v, "HEALTH_UNAVAILABLE_ENTRY_THRESHOLD_BPS", 5000) = value(w, "HEALTH_UNAVAILABLE_ENTRY_THRESHOLD_BPS", 5000)
      /\ value(v, "HEALTH_UNAVAILABLE_EXIT_THRESHOLD_BPS", 9000) = value(w, "HEALTH_UNAVAILABLE_EXIT_THRESHOLD_BPS", 9000)
  BY AlikeReads, SMTT(30) DEF WorkerNames
<1> QED BY <1>1, <1>2, <1>3, <1>4, SMTT(30) DEF parseWorkerPolicy

AgentNames == {"AGENT_API_KEY_ENV", "OPENCODE_PROVIDER_ID", "OPENCODE_PROVIDER_NAME"}

LEMMA AlikeAgent ==
  ASSUME NEW v, NEW w, Alike(v, w, AgentNames)
  PROVE  parseAgent(v) <=> parseAgent(w)
BY AlikeReads DEF parseAgent, AgentNames

(***************************************************************************)
(* Settings: the inventory lists every setting a parser looks at           *)
(***************************************************************************)

LEMMA InventoryRow ==
  ASSUME NEW p, NEW r \in InventoryRows, p \in r[1]
  PROVE  r[2] \subseteq Consumed(p)
BY DEF Consumed

LEMMA ConsumedByAll ==
  ASSUME NEW p \in Processes
  PROVE  /\ {"NEXUSRELAY_ENV", "NEXUSRELAY_VERSION", "DATABASE_NAME", "DATABASE_SSLMODE"} \subseteq Consumed(p)
         /\ p # "deployment" =>
              {"DATABASE_HOST", "DATABASE_PORT", "DATABASE_STATEMENT_TIMEOUT",
               "DATABASE_TRANSACTION_TIMEOUT", "LOG_LEVEL", "LOG_FORMAT"} \subseteq Consumed(p)
         /\ p # "bootstrap" =>
              {"HTTP_BIND_ADDRESS", "HTTP_PORT", "REDIS_URL_FILE", "SHUTDOWN_GRACE_PERIOD"} \subseteq Consumed(p)
<1>1. <<Processes, {"NEXUSRELAY_ENV", "NEXUSRELAY_VERSION", "DATABASE_NAME", "DATABASE_SSLMODE"}>> \in InventoryRows
  BY DEF InventoryRows
<1>2. <<Processes \ {"deployment"},
        {"DATABASE_HOST", "DATABASE_PORT", "DATABASE_STATEMENT_TIMEOUT",
         "DATABASE_TRANSACTION_TIMEOUT", "LOG_LEVEL", "LOG_FORMAT"}>> \in InventoryRows
  BY DEF InventoryRows
<1>3. <<Processes \ {"bootstrap"},
        {"HTTP_BIND_ADDRESS", "HTTP_PORT", "REDIS_URL_FILE", "SHUTDOWN_GRACE_PERIOD"}>> \in InventoryRows
  BY DEF InventoryRows
<1> QED BY <1>1, <1>2, <1>3, InventoryRow

LEMMA ConsumedByServices ==
  ASSUME NEW p \in Services
  PROVE  /\ CommonNames \subseteq Consumed(p)
         /\ ReadinessNames \cup {"MASTER_KEYRING_FILE", "REDIS_URL_FILE"} \subseteq Consumed(p)
         /\ SharedDatabaseNames \subseteq Consumed(p)
<1>1. <<Services,
        {"DEPENDENCY_STARTUP_TIMEOUT", "DEPENDENCY_PROBE_TIMEOUT", "DEPENDENCY_PROBE_INTERVAL",
         "DEPENDENCY_RETRY_MIN_DELAY", "DEPENDENCY_RETRY_MAX_DELAY", "MASTER_KEYRING_FILE",
         "METRICS_ENABLED", "OTEL_ENABLED", "OTEL_EXPORTER_OTLP_ENDPOINT"}>> \in InventoryRows
  BY DEF InventoryRows
<1>2. {"DEPENDENCY_STARTUP_TIMEOUT", "DEPENDENCY_PROBE_TIMEOUT", "DEPENDENCY_PROBE_INTERVAL",
       "DEPENDENCY_RETRY_MIN_DELAY", "DEPENDENCY_RETRY_MAX_DELAY", "MASTER_KEYRING_FILE",
       "METRICS_ENABLED", "OTEL_ENABLED", "OTEL_EXPORTER_OTLP_ENDPOINT"} \subseteq Consumed(p)
  BY <1>1, InventoryRow
<1>3. p \in Processes /\ p # "deployment" /\ p # "bootstrap"
  BY DEF Services, Processes
<1>4. CommonNames \subseteq Consumed(p)
  BY <1>2, <1>3, ConsumedByAll DEF CommonNames, ReleaseNames, HTTPNames, LoggingNames, TelemetryNames
<1>5. ReadinessNames \cup {"MASTER_KEYRING_FILE", "REDIS_URL_FILE"} \subseteq Consumed(p)
  BY <1>2, <1>3, ConsumedByAll DEF ReadinessNames
<1>6. SharedDatabaseNames \subseteq Consumed(p)
  BY <1>3, ConsumedByAll DEF SharedDatabaseNames
<1> QED BY <1>4, <1>5, <1>6

LEMMA ConsumedByGateway ==
  /\ PublicNames \cup UpstreamNames \subseteq Consumed("gateway")
  /\ OwnDatabaseNames(databaseSettings("gateway")) \subseteq Consumed("gateway")
  /\ {"REDIS_MAX_CONNECTIONS_GATEWAY", "API_KEY_PEPPER_RING_FILE"} \subseteq Consumed("gateway")
<1>1. <<{"gateway", "control-plane", "deployment"}, {"PUBLIC_API_BASE_URL", "TRUSTED_PROXY_CIDRS"}>> \in InventoryRows
  BY DEF InventoryRows
<1>2. <<{"gateway", "deployment"}, {"DATABASE_GATEWAY_USER", "DATABASE_GATEWAY_PASSWORD_FILE"}>> \in InventoryRows
  BY DEF InventoryRows
<1>3. <<{"gateway", "control-plane"}, {"API_KEY_PEPPER_RING_FILE"}>> \in InventoryRows
  BY DEF InventoryRows
<1>4. <<{"gateway"},
        {"DATABASE_MIN_CONNECTIONS_GATEWAY", "DATABASE_MAX_CONNECTIONS_GATEWAY",
         "REDIS_MAX_CONNECTIONS_GATEWAY", "REQUEST_BODY_MAX_BYTES", "UPSTREAM_CONNECT_TIMEOUT",
         "UPSTREAM_FIRST_BYTE_TIMEOUT", "UPSTREAM_IDLE_TIMEOUT", "MAX_UPSTREAM_ATTEMPTS"}>> \in InventoryRows
  BY DEF InventoryRows
<1>5. <<{"gateway", "worker"}, {"UPSTREAM_TOTAL_TIMEOUT"}>> \in InventoryRows
  BY DEF InventoryRows
<1>6. /\ {"PUBLIC_API_BASE_URL", "TRUSTED_PROXY_CIDRS"} \subseteq Consumed("gateway")
      /\ {"DATABASE_GATEWAY_USER", "DATABASE_GATEWAY_PASSWORD_FILE"} \subseteq Consumed("gateway")
      /\ {"API_KEY_PEPPER_RING_FILE", "UPSTREAM_TOTAL_TIMEOUT"} \subseteq Consumed("gateway")
  BY <1>1, <1>2, <1>3, <1>5, InventoryRow
<1>7. {"DATABASE_MIN_CONNECTIONS_GATEWAY", "DATABASE_MAX_CONNECTIONS_GATEWAY",
       "REDIS_MAX_CONNECTIONS_GATEWAY", "REQUEST_BODY_MAX_BYTES", "UPSTREAM_CONNECT_TIMEOUT",
       "UPSTREAM_FIRST_BYTE_TIMEOUT", "UPSTREAM_IDLE_TIMEOUT", "MAX_UPSTREAM_ATTEMPTS"} \subseteq Consumed("gateway")
  BY <1>4, InventoryRow
<1>8. "NEXUSRELAY_ENV" \in Consumed("gateway")
  BY ConsumedByAll DEF Processes, Services
<1>9. OwnDatabaseNames(databaseSettings("gateway")) =
        {"DATABASE_GATEWAY_USER", "DATABASE_GATEWAY_PASSWORD_FILE",
         "DATABASE_MIN_CONNECTIONS_GATEWAY", "DATABASE_MAX_CONNECTIONS_GATEWAY"}
  BY DEF OwnDatabaseNames, databaseSettings
<1>10. PublicNames \cup UpstreamNames \subseteq Consumed("gateway")
  BY <1>6, <1>7, <1>8 DEF PublicNames, UpstreamNames
<1> QED BY <1>6, <1>7, <1>9, <1>10

LEMMA ConsumedByWorker ==
  /\ WorkerNames \subseteq Consumed("worker")
  /\ OwnDatabaseNames(databaseSettings("worker")) \subseteq Consumed("worker")
  /\ "REDIS_MAX_CONNECTIONS_WORKER" \in Consumed("worker")
<1> DEFINE own ==
      {"DATABASE_MIN_CONNECTIONS_WORKER", "DATABASE_MAX_CONNECTIONS_WORKER",
       "REDIS_MAX_CONNECTIONS_WORKER", "REQUEST_RETENTION_DAYS", "AUDIT_RETENTION_DAYS",
       "HEALTH_OBSERVATION_RETENTION_DAYS", "PROCESSED_OUTBOX_RETENTION_DAYS",
       "ANALYTICS_TARGET_LAG", "STALE_REQUEST_RECONCILIATION_INTERVAL", "WORKER_CONCURRENCY",
       "OUTBOX_LEASE_DURATION", "OUTBOX_RETRY_BASE_DELAY", "OUTBOX_RETRY_MAX_DELAY",
       "HEALTH_PROBE_INTERVAL", "HEALTH_FAST_WINDOW", "HEALTH_STABILIZING_WINDOW",
       "HEALTH_MIN_SAMPLES", "HEALTH_POLICY_VERSION", "RETENTION_BATCH_SIZE",
       "HEALTH_UNAVAILABLE_ENTRY_THRESHOLD_BPS", "HEALTH_UNAVAILABLE_EXIT_THRESHOLD_BPS",
       "HEALTH_CONSECUTIVE_FAILURES", "HEALTH_CONSECUTIVE_SUCCESSES"}
<1>1. <<{"worker"}, own>> \in InventoryRows
  BY DEF InventoryRows
<1>2. <<{"worker", "deployment"}, {"DATABASE_WORKER_USER", "DATABASE_WORKER_PASSWORD_FILE"}>> \in InventoryRows
  BY DEF InventoryRows
<1>3. <<{"gateway", "worker"}, {"UPSTREAM_TOTAL_TIMEOUT"}>> \in InventoryRows
  BY DEF InventoryRows
<1>4. own \subseteq Consumed("worker")
  <2> HIDE DEF own
  <2> QED BY <1>1, InventoryRow
<1>5. {"DATABASE_WORKER_USER", "DATABASE_WORKER_PASSWORD_FILE", "UPSTREAM_TOTAL_TIMEOUT"} \subseteq Consumed("worker")
  BY <1>2, <1>3, InventoryRow
<1>6. WorkerNames \subseteq own \cup {"UPSTREAM_TOTAL_TIMEOUT"}
  BY DEF WorkerNames
<1>7. OwnDatabaseNames(databaseSettings("worker")) =
        {"DATABASE_WORKER_USER", "DATABASE_WORKER_PASSWORD_FILE",
         "DATABASE_MIN_CONNECTIONS_WORKER", "DATABASE_MAX_CONNECTIONS_WORKER"}
  BY DEF OwnDatabaseNames, databaseSettings
<1>8. {"DATABASE_MIN_CONNECTIONS_WORKER", "DATABASE_MAX_CONNECTIONS_WORKER", "REDIS_MAX_CONNECTIONS_WORKER"} \subseteq own
  OBVIOUS
<1> HIDE DEF own
<1> QED BY <1>4, <1>5, <1>6, <1>7, <1>8

LEMMA ConsumedByControlPlane ==
  /\ PublicNames \cup AdminNames \cup SessionNames \cup AgentNames \subseteq Consumed("control-plane")
  /\ OwnDatabaseNames(databaseSettings("control-plane")) \subseteq Consumed("control-plane")
  /\ {"REDIS_MAX_CONNECTIONS_CONTROL_PLANE", "API_KEY_PEPPER_RING_FILE"} \subseteq Consumed("control-plane")
<1>1. <<{"gateway", "control-plane", "deployment"}, {"PUBLIC_API_BASE_URL", "TRUSTED_PROXY_CIDRS"}>> \in InventoryRows
  BY DEF InventoryRows
<1>2. <<{"control-plane", "deployment"}, {"ADMIN_BASE_URL", "ADMIN_ORIGINS"}>> \in InventoryRows
  BY DEF InventoryRows
<1>3. <<{"gateway", "control-plane"}, {"API_KEY_PEPPER_RING_FILE"}>> \in InventoryRows
  BY DEF InventoryRows
<1>4. <<{"control-plane", "bootstrap", "deployment"},
        {"DATABASE_CONTROL_PLANE_USER", "DATABASE_CONTROL_PLANE_PASSWORD_FILE"}>> \in InventoryRows
  BY DEF InventoryRows
<1>5. <<{"control-plane", "bootstrap"},
        {"DATABASE_MIN_CONNECTIONS_CONTROL_PLANE", "DATABASE_MAX_CONNECTIONS_CONTROL_PLANE",
         "PASSWORD_ARGON2_MEMORY_KIB", "PASSWORD_ARGON2_ITERATIONS", "PASSWORD_ARGON2_PARALLELISM"}>> \in InventoryRows
  BY DEF InventoryRows
<1>6. <<{"control-plane"},
        {"REDIS_MAX_CONNECTIONS_CONTROL_PLANE", "SESSION_SECRET_FILE", "CSRF_SECRET_RING_FILE",
         "SESSION_COOKIE_NAME", "SESSION_IDLE_TTL", "SESSION_ABSOLUTE_TTL",
         "SESSION_LAST_SEEN_WRITE_INTERVAL", "AGENT_API_KEY_ENV", "OPENCODE_PROVIDER_ID",
         "OPENCODE_PROVIDER_NAME"}>> \in InventoryRows
  BY DEF InventoryRows
<1>7. /\ {"PUBLIC_API_BASE_URL", "TRUSTED_PROXY_CIDRS"} \subseteq Consumed("control-plane")
      /\ {"ADMIN_BASE_URL", "ADMIN_ORIGINS"} \subseteq Consumed("control-plane")
      /\ "API_KEY_PEPPER_RING_FILE" \in Consumed("control-plane")
      /\ {"DATABASE_CONTROL_PLANE_USER", "DATABASE_CONTROL_PLANE_PASSWORD_FILE"} \subseteq Consumed("control-plane")
  BY <1>1, <1>2, <1>3, <1>4, InventoryRow
<1>8. {"DATABASE_MIN_CONNECTIONS_CONTROL_PLANE", "DATABASE_MAX_CONNECTIONS_CONTROL_PLANE",
       "PASSWORD_ARGON2_MEMORY_KIB", "PASSWORD_ARGON2_ITERATIONS", "PASSWORD_ARGON2_PARALLELISM"} \subseteq Consumed("control-plane")
  BY <1>5, InventoryRow
<1>9. {"REDIS_MAX_CONNECTIONS_CONTROL_PLANE", "SESSION_SECRET_FILE", "CSRF_SECRET_RING_FILE",
       "SESSION_COOKIE_NAME", "SESSION_IDLE_TTL", "SESSION_ABSOLUTE_TTL",
       "SESSION_LAST_SEEN_WRITE_INTERVAL", "AGENT_API_KEY_ENV", "OPENCODE_PROVIDER_ID",
       "OPENCODE_PROVIDER_NAME"} \subseteq Consumed("control-plane")
  BY <1>6, InventoryRow
<1>10. "NEXUSRELAY_ENV" \in Consumed("control-plane")
  BY ConsumedByAll DEF Processes, Services
<1>11. OwnDatabaseNames(databaseSettings("control-plane")) =
         {"DATABASE_CONTROL_PLANE_USER", "DATABASE_CONTROL_PLANE_PASSWORD_FILE",
          "DATABASE_MIN_CONNECTIONS_CONTROL_PLANE", "DATABASE_MAX_CONNECTIONS_CONTROL_PLANE"}
  BY DEF OwnDatabaseNames, databaseSettings
<1>12. PublicNames \cup AdminNames \subseteq Consumed("control-plane")
  BY <1>7, <1>10 DEF PublicNames, AdminNames
<1>13. SessionNames \cup AgentNames \subseteq Consumed("control-plane")
  BY <1>8, <1>9 DEF SessionNames, PasswordNames, AgentNames
<1> QED BY <1>7, <1>8, <1>9, <1>11, <1>12, <1>13

LEMMA ConsumedByBootstrap ==
  /\ PasswordNames \cup BootstrapOnly \subseteq Consumed("bootstrap")
  /\ ReleaseNames \cup LoggingNames \cup SharedDatabaseNames \subseteq Consumed("bootstrap")
  /\ OwnDatabaseNames(databaseSettings("bootstrap")) \subseteq Consumed("bootstrap")
<1>1. <<{"bootstrap"}, BootstrapOnly>> \in InventoryRows
  BY DEF InventoryRows
<1>2. <<{"control-plane", "bootstrap", "deployment"},
        {"DATABASE_CONTROL_PLANE_USER", "DATABASE_CONTROL_PLANE_PASSWORD_FILE"}>> \in InventoryRows
  BY DEF InventoryRows
<1>3. <<{"control-plane", "bootstrap"},
        {"DATABASE_MIN_CONNECTIONS_CONTROL_PLANE", "DATABASE_MAX_CONNECTIONS_CONTROL_PLANE",
         "PASSWORD_ARGON2_MEMORY_KIB", "PASSWORD_ARGON2_ITERATIONS", "PASSWORD_ARGON2_PARALLELISM"}>> \in InventoryRows
  BY DEF InventoryRows
<1>4. /\ BootstrapOnly \subseteq Consumed("bootstrap")
      /\ {"DATABASE_CONTROL_PLANE_USER", "DATABASE_CONTROL_PLANE_PASSWORD_FILE"} \subseteq Consumed("bootstrap")
      /\ {"DATABASE_MIN_CONNECTIONS_CONTROL_PLANE", "DATABASE_MAX_CONNECTIONS_CONTROL_PLANE",
          "PASSWORD_ARGON2_MEMORY_KIB", "PASSWORD_ARGON2_ITERATIONS", "PASSWORD_ARGON2_PARALLELISM"} \subseteq Consumed("bootstrap")
  BY <1>1, <1>2, <1>3, InventoryRow
<1>5. ReleaseNames \cup LoggingNames \cup SharedDatabaseNames \subseteq Consumed("bootstrap")
  BY ConsumedByAll DEF Processes, ReleaseNames, LoggingNames, SharedDatabaseNames
<1>6. OwnDatabaseNames(databaseSettings("bootstrap")) =
        {"DATABASE_CONTROL_PLANE_USER", "DATABASE_CONTROL_PLANE_PASSWORD_FILE",
         "DATABASE_MIN_CONNECTIONS_CONTROL_PLANE", "DATABASE_MAX_CONNECTIONS_CONTROL_PLANE"}
  BY DEF OwnDatabaseNames, databaseSettings
<1> QED BY <1>4, <1>5, <1>6 DEF PasswordNames

\* The settings of the deployment alone, and the ones it shares.
DeploymentOnly ==
  {"PUBLIC_API_HOST", "ADMIN_HOST", "ADMIN_EXPOSURE_MODE", "HTTPS_PORT", "TLS_MODE",
   "TLS_CERT_FILE", "TLS_KEY_FILE", "ACME_EMAIL", "ACME_DNS_PROVIDER",
   "ACME_DNS_API_TOKEN_FILE", "POSTGRES_DB", "POSTGRES_USER", "POSTGRES_PASSWORD_FILE",
   "DATABASE_MIGRATION_USER", "DATABASE_MIGRATION_PASSWORD_FILE", "REDIS_PASSWORD_FILE",
   "ENABLE_CLOUDFLARE_TUNNEL", "CLOUDFLARE_TUNNEL_ID",
   "CLOUDFLARE_TUNNEL_CREDENTIALS_FILE", "ENABLE_TAILSCALE_PRIVATE_ADMIN"}
AccountNames == {u[1] : u \in DatabaseUsers} \cup {s[1] : s \in DatabasePasswords}
DeploymentShared ==
  ReleaseNames \cup HTTPNames \cup PublicNames \cup AdminNames
    \cup {"DATABASE_NAME", "DATABASE_SSLMODE", "REDIS_URL_FILE"}

LEMMA ConsumedByDeployment ==
  /\ DeploymentOnly \subseteq Consumed("deployment")
  /\ AccountNames \subseteq Consumed("deployment")
  /\ DeploymentShared \subseteq Consumed("deployment")
<1>1. <<{"deployment"}, DeploymentOnly>> \in InventoryRows
  BY DEF InventoryRows, DeploymentOnly
<1>2. <<{"gateway", "deployment"}, {"DATABASE_GATEWAY_USER", "DATABASE_GATEWAY_PASSWORD_FILE"}>> \in InventoryRows
  BY DEF InventoryRows
<1>3. <<{"worker", "deployment"}, {"DATABASE_WORKER_USER", "DATABASE_WORKER_PASSWORD_FILE"}>> \in InventoryRows
  BY DEF InventoryRows
<1>4. <<{"control-plane", "bootstrap", "deployment"},
        {"DATABASE_CONTROL_PLANE_USER", "DATABASE_CONTROL_PLANE_PASSWORD_FILE"}>> \in InventoryRows
  BY DEF InventoryRows
<1>5. <<{"gateway", "control-plane", "deployment"}, {"PUBLIC_API_BASE_URL", "TRUSTED_PROXY_CIDRS"}>> \in InventoryRows
  BY DEF InventoryRows
<1>6. <<{"control-plane", "deployment"}, {"ADMIN_BASE_URL", "ADMIN_ORIGINS"}>> \in InventoryRows
  BY DEF InventoryRows
<1>7. DeploymentOnly \subseteq Consumed("deployment")
  BY <1>1, InventoryRow
<1>8. /\ {"DATABASE_GATEWAY_USER", "DATABASE_GATEWAY_PASSWORD_FILE"} \subseteq Consumed("deployment")
      /\ {"DATABASE_WORKER_USER", "DATABASE_WORKER_PASSWORD_FILE"} \subseteq Consumed("deployment")
      /\ {"DATABASE_CONTROL_PLANE_USER", "DATABASE_CONTROL_PLANE_PASSWORD_FILE"} \subseteq Consumed("deployment")
      /\ {"PUBLIC_API_BASE_URL", "TRUSTED_PROXY_CIDRS"} \subseteq Consumed("deployment")
      /\ {"ADMIN_BASE_URL", "ADMIN_ORIGINS"} \subseteq Consumed("deployment")
  BY <1>2, <1>3, <1>4, <1>5, <1>6, InventoryRow
<1>9. {"POSTGRES_USER", "POSTGRES_PASSWORD_FILE", "DATABASE_MIGRATION_USER",
       "DATABASE_MIGRATION_PASSWORD_FILE"} \subseteq Consumed("deployment")
  BY <1>7 DEF DeploymentOnly
<1>10. AccountNames \subseteq Consumed("deployment")
  <2>1. AccountNames \subseteq
          {"POSTGRES_USER", "DATABASE_MIGRATION_USER", "DATABASE_GATEWAY_USER",
           "DATABASE_CONTROL_PLANE_USER", "DATABASE_WORKER_USER", "POSTGRES_PASSWORD_FILE",
           "DATABASE_MIGRATION_PASSWORD_FILE", "DATABASE_GATEWAY_PASSWORD_FILE",
           "DATABASE_CONTROL_PLANE_PASSWORD_FILE", "DATABASE_WORKER_PASSWORD_FILE"}
    BY DEF AccountNames, DatabaseUsers, DatabasePasswords
  <2> QED BY <2>1, <1>8, <1>9
<1>11. {"NEXUSRELAY_ENV", "NEXUSRELAY_VERSION", "DATABASE_NAME", "DATABASE_SSLMODE", "HTTP_BIND_ADDRESS",
        "HTTP_PORT", "REDIS_URL_FILE", "SHUTDOWN_GRACE_PERIOD"} \subseteq Consumed("deployment")
  BY ConsumedByAll DEF Processes
<1>12. DeploymentShared \subseteq Consumed("deployment")
  BY <1>8, <1>11 DEF DeploymentShared, ReleaseNames, HTTPNames, PublicNames, AdminNames
<1> QED BY <1>7, <1>10, <1>12

\* The parser of a service decides by the settings the inventory lists for it.
LEMMA AlikeService ==
  ASSUME NEW p \in Services, NEW v, NEW w, NEW files, Alike(v, w, Consumed(p)),
         preflight(v, p) <=> preflight(w, p)
  PROVE  Parse(p, v, files) <=> Parse(p, w, files)
<1>1. parseServiceCommon(v) <=> parseServiceCommon(w)
  BY ConsumedByServices, AlikeSubset, AlikeCommon
<1>2. parseDependencyReadiness(v) <=> parseDependencyReadiness(w)
  <2>1. ReadinessNames \subseteq Consumed(p)
    BY ConsumedByServices
  <2> QED BY <2>1, AlikeSubset, AlikeReadiness
<1>3. requiredPath(v, "MASTER_KEYRING_FILE", "provider_master_keyring")
        = requiredPath(w, "MASTER_KEYRING_FILE", "provider_master_keyring")
  BY ConsumedByServices, AlikeReads
<1>4. ASSUME NEW s, OwnDatabaseNames(s) \subseteq Consumed(p)
      PROVE  parseDatabase(v, files, s) <=> parseDatabase(w, files, s)
  <2>1. SharedDatabaseNames \cup OwnDatabaseNames(s) \subseteq Consumed(p)
    BY <1>4, ConsumedByServices
  <2>2. Alike(v, w, SharedDatabaseNames \cup OwnDatabaseNames(s))
    BY <2>1, AlikeSubset
  <2> QED BY <2>2, AlikeDatabase
<1>5. ASSUME NEW n \in Consumed(p), NEW x
      PROVE  parseRedis(v, files, n, x) <=> parseRedis(w, files, n, x)
  <2>1. {"REDIS_URL_FILE", n} \subseteq Consumed(p)
    BY ConsumedByServices
  <2>2. Alike(v, w, {"REDIS_URL_FILE", n})
    BY <2>1, AlikeSubset
  <2> QED BY <2>2, AlikeRedis
<1>6. CASE p = "gateway"
  <2>1. parseGatewayEndpoints(v) <=> parseGatewayEndpoints(w)
    <3>1. PublicNames \subseteq Consumed(p)
      BY <1>6, ConsumedByGateway
    <3> QED BY <3>1, AlikeSubset, AlikePublic
  <2>2. parseGatewayPolicy(v) <=> parseGatewayPolicy(w)
    <3>1. UpstreamNames \subseteq Consumed(p)
      BY <1>6, ConsumedByGateway
    <3> QED BY <3>1, AlikeSubset, AlikeGatewayPolicy
  <2>3. parseDatabase(v, files, databaseSettings("gateway")) <=> parseDatabase(w, files, databaseSettings("gateway"))
    BY <1>4, <1>6, ConsumedByGateway
  <2>4. parseRedis(v, files, "REDIS_MAX_CONNECTIONS_GATEWAY", 50) <=> parseRedis(w, files, "REDIS_MAX_CONNECTIONS_GATEWAY", 50)
    BY <1>5, <1>6, ConsumedByGateway
  <2>5. requiredPath(v, "API_KEY_PEPPER_RING_FILE", "api_key_pepper_ring")
          = requiredPath(w, "API_KEY_PEPPER_RING_FILE", "api_key_pepper_ring")
    BY <1>6, ConsumedByGateway, AlikeReads
  <2>6. ParseGateway(v, files) <=> ParseGateway(w, files)
    BY <1>1, <1>2, <1>3, <1>6, <2>1, <2>2, <2>3, <2>4, <2>5 DEF ParseGateway
  <2> QED BY <1>6, <2>6 DEF Parse
<1>7. CASE p = "worker"
  <2>1. parseWorkerPolicy(v) <=> parseWorkerPolicy(w)
    BY <1>7, ConsumedByWorker, AlikeSubset, AlikeWorkerPolicy
  <2>2. parseDatabase(v, files, databaseSettings("worker")) <=> parseDatabase(w, files, databaseSettings("worker"))
    BY <1>4, <1>7, ConsumedByWorker
  <2>3. parseRedis(v, files, "REDIS_MAX_CONNECTIONS_WORKER", 20) <=> parseRedis(w, files, "REDIS_MAX_CONNECTIONS_WORKER", 20)
    BY <1>5, <1>7, ConsumedByWorker
  <2>4. ParseWorker(v, files) <=> ParseWorker(w, files)
    BY <1>1, <1>2, <1>3, <1>7, <2>1, <2>2, <2>3 DEF ParseWorker
  <2> QED BY <1>7, <2>4 DEF Parse
<1>8. CASE p = "control-plane"
  <2>1. PublicNames \subseteq Consumed(p) /\ AdminNames \subseteq Consumed(p)
        /\ SessionNames \subseteq Consumed(p) /\ AgentNames \subseteq Consumed(p)
    BY <1>8, ConsumedByControlPlane
  <2>3. parsePublicAPIURL(v) <=> parsePublicAPIURL(w)
    BY <2>1, AlikeSubset, AlikePublic
  <2>4. parseAdminURLs(v) <=> parseAdminURLs(w)
    BY <2>1, AlikeSubset, AlikeAdmin
  <2>5. value(v, "TRUSTED_PROXY_CIDRS", Empty) = value(w, "TRUSTED_PROXY_CIDRS", Empty)
    BY <2>1, AlikeReads DEF PublicNames
  <2>6. parseControlPlaneEndpoints(v) <=> parseControlPlaneEndpoints(w)
    BY <2>3, <2>4, <2>5 DEF parseControlPlaneEndpoints
  <2>7. (parseSessionPolicy(v, files) <=> parseSessionPolicy(w, files)) /\ CookieName(v) = CookieName(w)
    BY <2>1, AlikeSubset, AlikeSession
  <2>8. parseAgent(v) <=> parseAgent(w)
    BY <2>1, AlikeSubset, AlikeAgent
  <2>9. isProductionGrade(v) <=> isProductionGrade(w)
    BY <2>1, AlikeReads DEF PublicNames, isProductionGrade
  <2>10. parseDatabase(v, files, databaseSettings("control-plane")) <=> parseDatabase(w, files, databaseSettings("control-plane"))
    BY <1>4, <1>8, ConsumedByControlPlane
  <2>11. parseRedis(v, files, "REDIS_MAX_CONNECTIONS_CONTROL_PLANE", 20)
           <=> parseRedis(w, files, "REDIS_MAX_CONNECTIONS_CONTROL_PLANE", 20)
    BY <1>5, <1>8, ConsumedByControlPlane
  <2>12. requiredPath(v, "API_KEY_PEPPER_RING_FILE", "api_key_pepper_ring")
           = requiredPath(w, "API_KEY_PEPPER_RING_FILE", "api_key_pepper_ring")
    BY <1>8, ConsumedByControlPlane, AlikeReads
  <2>13. ParseControlPlane(v, files) <=> ParseControlPlane(w, files)
    BY <1>1, <1>2, <1>3, <1>8, <2>6, <2>7, <2>8, <2>9, <2>10, <2>11, <2>12 DEF ParseControlPlane
  <2> QED BY <1>8, <2>13 DEF Parse
<1> QED BY <1>6, <1>7, <1>8 DEF Services

LEMMA AlikeBootstrap ==
  ASSUME NEW v, NEW w, NEW files, Alike(v, w, Consumed("bootstrap")),
         preflight(v, "bootstrap") <=> preflight(w, "bootstrap")
  PROVE  ParseBootstrap(v, files) <=> ParseBootstrap(w, files)
<1> DEFINE names == Consumed("bootstrap")
<1>1. validateEnvironment(v) <=> validateEnvironment(w)
  BY ConsumedByBootstrap, AlikeReads DEF validateEnvironment, ReleaseNames
<1>2. clean(v, "NEXUSRELAY_VERSION", "dev") <=> clean(w, "NEXUSRELAY_VERSION", "dev")
  BY ConsumedByBootstrap, AlikeReads DEF ReleaseNames
<1>3. parseLogging(v) <=> parseLogging(w)
  BY ConsumedByBootstrap, AlikeReads DEF parseLogging, LoggingNames
<1>4. parseDatabase(v, files, databaseSettings("bootstrap")) <=> parseDatabase(w, files, databaseSettings("bootstrap"))
  <2>1. SharedDatabaseNames \cup OwnDatabaseNames(databaseSettings("bootstrap")) \subseteq names
    BY ConsumedByBootstrap
  <2>2. Alike(v, w, SharedDatabaseNames \cup OwnDatabaseNames(databaseSettings("bootstrap")))
    BY <2>1, AlikeSubset
  <2> QED BY <2>2, AlikeDatabase
<1>5. parsePasswordPolicy(v) <=> parsePasswordPolicy(w)
  <2>1. PasswordNames \subseteq names
    BY ConsumedByBootstrap
  <2> QED BY <2>1, AlikeSubset, AlikePassword
<1>6. BootstrapOnly \subseteq names
  BY ConsumedByBootstrap
<1>7. \A n \in BootstrapOnly : requiredText(v, n) <=> requiredText(w, n)
  BY <1>6, AlikeReads
<1>8. requiredPath(v, "BOOTSTRAP_PASSWORD_FILE", "bootstrap_password")
        = requiredPath(w, "BOOTSTRAP_PASSWORD_FILE", "bootstrap_password")
  BY <1>6, AlikeReads DEF BootstrapOnly
<1> QED BY <1>1, <1>2, <1>3, <1>4, <1>5, <1>7, <1>8 DEF ParseBootstrap

LEMMA AlikeEndpoints ==
  ASSUME NEW v, NEW w, Alike(v, w, Consumed("deployment"))
  PROVE  parseEndpoints(v) <=> parseEndpoints(w)
<1>1. PublicNames \subseteq Consumed("deployment") /\ AdminNames \subseteq Consumed("deployment")
  BY ConsumedByDeployment DEF DeploymentShared
<1>2. parsePublicAPIURL(v) <=> parsePublicAPIURL(w)
  BY <1>1, AlikeSubset, AlikePublic
<1>3. parseAdminURLs(v) <=> parseAdminURLs(w)
  BY <1>1, AlikeSubset, AlikeAdmin
<1>4. /\ value(v, "PUBLIC_API_BASE_URL", LocalPublicURL) = value(w, "PUBLIC_API_BASE_URL", LocalPublicURL)
      /\ value(v, "TRUSTED_PROXY_CIDRS", Empty) = value(w, "TRUSTED_PROXY_CIDRS", Empty)
      /\ value(v, "ADMIN_BASE_URL", LocalAdminURL) = value(w, "ADMIN_BASE_URL", LocalAdminURL)
  BY <1>1, AlikeReads DEF PublicNames, AdminNames
<1>5. /\ value(v, "PUBLIC_API_HOST", Localhost) = value(w, "PUBLIC_API_HOST", Localhost)
      /\ value(v, "ADMIN_HOST", Localhost) = value(w, "ADMIN_HOST", Localhost)
      /\ value(v, "ADMIN_EXPOSURE_MODE", "local") = value(w, "ADMIN_EXPOSURE_MODE", "local")
  BY ConsumedByDeployment, AlikeReads DEF DeploymentOnly
<1> QED BY <1>2, <1>3, <1>4, <1>5 DEF parseEndpoints

LEMMA AlikeTLS ==
  ASSUME NEW v, NEW w, NEW files, Alike(v, w, Consumed("deployment"))
  PROVE  parseTLS(v, files) <=> parseTLS(w, files)
<1>1. /\ value(v, "TLS_MODE", "disabled") = value(w, "TLS_MODE", "disabled")
      /\ value(v, "TLS_CERT_FILE", Empty) = value(w, "TLS_CERT_FILE", Empty)
      /\ value(v, "TLS_KEY_FILE", Empty) = value(w, "TLS_KEY_FILE", Empty)
      /\ clean(v, "ACME_EMAIL", Empty) <=> clean(w, "ACME_EMAIL", Empty)
      /\ clean(v, "ACME_DNS_PROVIDER", Empty) <=> clean(w, "ACME_DNS_PROVIDER", Empty)
      /\ requiredPath(v, "ACME_DNS_API_TOKEN_FILE", "acme_dns_api_token")
           = requiredPath(w, "ACME_DNS_API_TOKEN_FILE", "acme_dns_api_token")
  BY ConsumedByDeployment, AlikeReads DEF DeploymentOnly
<1> QED BY <1>1 DEF parseTLS

LEMMA AlikeInventory ==
  ASSUME NEW v, NEW w, NEW files, Alike(v, w, Consumed("deployment"))
  PROVE  parseDatabaseInventory(v, files) <=> parseDatabaseInventory(w, files)
<1>1. /\ value(v, "POSTGRES_DB", "nexusrelay") = value(w, "POSTGRES_DB", "nexusrelay")
      /\ value(v, "DATABASE_NAME", "nexusrelay") = value(w, "DATABASE_NAME", "nexusrelay")
  BY ConsumedByDeployment, AlikeReads DEF DeploymentOnly, DeploymentShared
<1>2. \A u \in DatabaseUsers : value(v, u[1], u[2]) = value(w, u[1], u[2])
  BY ConsumedByDeployment, AlikeReads DEF AccountNames
<1>3. \A s \in DatabasePasswords : requiredPath(v, s[1], s[2]) = requiredPath(w, s[1], s[2])
  BY ConsumedByDeployment, AlikeReads DEF AccountNames
<1>4. parseDatabaseSSLMode(v) <=> parseDatabaseSSLMode(w)
  <2>1. {"NEXUSRELAY_ENV", "DATABASE_SSLMODE"} \subseteq Consumed("deployment")
    BY ConsumedByDeployment DEF DeploymentShared, ReleaseNames
  <2> QED BY <2>1, AlikeSubset, AlikeSSLMode
<1>5. (\A u \in DatabaseUsers : value(v, u[1], u[2]) = u[2]) <=> (\A u \in DatabaseUsers : value(w, u[1], u[2]) = u[2])
  BY <1>2
<1>6. (\A s \in DatabasePasswords : ReadSimpleSecret(files, requiredPath(v, s[1], s[2])))
        <=> (\A s \in DatabasePasswords : ReadSimpleSecret(files, requiredPath(w, s[1], s[2])))
  BY <1>3
<1>7. (\A s, t \in DatabasePasswords : s # t =>
         /\ requiredPath(v, s[1], s[2]) # requiredPath(v, t[1], t[2])
         /\ files[requiredPath(v, s[1], s[2])] # files[requiredPath(v, t[1], t[2])])
        <=> (\A s, t \in DatabasePasswords : s # t =>
               /\ requiredPath(w, s[1], s[2]) # requiredPath(w, t[1], t[2])
               /\ files[requiredPath(w, s[1], s[2])] # files[requiredPath(w, t[1], t[2])])
  BY <1>3
<1> QED BY <1>1, <1>4, <1>5, <1>6, <1>7 DEF parseDatabaseInventory

LEMMA AlikeRedisDeployment ==
  ASSUME NEW v, NEW w, NEW files, Alike(v, w, Consumed("deployment"))
  PROVE  parseRedisDeployment(v, files) <=> parseRedisDeployment(w, files)
<1>1. /\ requiredPath(v, "REDIS_PASSWORD_FILE", "redis_password") = requiredPath(w, "REDIS_PASSWORD_FILE", "redis_password")
      /\ requiredPath(v, "REDIS_URL_FILE", "redis_url") = requiredPath(w, "REDIS_URL_FILE", "redis_url")
  BY ConsumedByDeployment, AlikeReads DEF DeploymentOnly, DeploymentShared
<1> QED BY <1>1 DEF parseRedisDeployment

LEMMA AlikeCloudflare ==
  ASSUME NEW v, NEW w, NEW files, Alike(v, w, Consumed("deployment"))
  PROVE  /\ parseCloudflare(v, files) <=> parseCloudflare(w, files)
         /\ parseTailscale(v) <=> parseTailscale(w)
<1>1. /\ requiredPath(v, "CLOUDFLARE_TUNNEL_CREDENTIALS_FILE", "cloudflare_tunnel_credentials.json")
           = requiredPath(w, "CLOUDFLARE_TUNNEL_CREDENTIALS_FILE", "cloudflare_tunnel_credentials.json")
      /\ value(v, "PUBLIC_API_BASE_URL", LocalPublicURL) = value(w, "PUBLIC_API_BASE_URL", LocalPublicURL)
      /\ value(v, "TLS_MODE", "disabled") = value(w, "TLS_MODE", "disabled")
      /\ value(v, "ACME_DNS_PROVIDER", Empty) = value(w, "ACME_DNS_PROVIDER", Empty)
      /\ value(v, "ADMIN_HOST", Localhost) = value(w, "ADMIN_HOST", Localhost)
      /\ clean(v, "CLOUDFLARE_TUNNEL_ID", Empty) <=> clean(w, "CLOUDFLARE_TUNNEL_ID", Empty)
      /\ value(v, "CLOUDFLARE_TUNNEL_ID", Empty) = value(w, "CLOUDFLARE_TUNNEL_ID", Empty)
  BY ConsumedByDeployment, AlikeReads DEF DeploymentOnly, DeploymentShared, PublicNames
<1>2. /\ \A x : value(v, "ENABLE_CLOUDFLARE_TUNNEL", x) = value(w, "ENABLE_CLOUDFLARE_TUNNEL", x)
      /\ \A x : value(v, "ENABLE_TAILSCALE_PRIVATE_ADMIN", x) = value(w, "ENABLE_TAILSCALE_PRIVATE_ADMIN", x)
  BY ConsumedByDeployment DEF DeploymentOnly, Alike
<1>3. /\ value(v, "ENABLE_CLOUDFLARE_TUNNEL", FALSE) = value(w, "ENABLE_CLOUDFLARE_TUNNEL", FALSE)
      /\ value(v, "ENABLE_TAILSCALE_PRIVATE_ADMIN", FALSE) = value(w, "ENABLE_TAILSCALE_PRIVATE_ADMIN", FALSE)
  BY <1>2, Zenon
<1>4. boolean(v, "ENABLE_CLOUDFLARE_TUNNEL", FALSE) <=> boolean(w, "ENABLE_CLOUDFLARE_TUNNEL", FALSE)
  BY <1>3 DEF boolean
<1>5. parseCloudflare(v, files) <=> parseCloudflare(w, files)
  BY <1>1, <1>3, <1>4 DEF parseCloudflare
<1>6. parseTailscale(v) <=> parseTailscale(w)
  BY <1>3, Zenon DEF parseTailscale
<1> QED BY <1>5, <1>6

LEMMA AlikeDeployment ==
  ASSUME NEW v, NEW w, NEW files, Alike(v, w, Consumed("deployment")),
         preflight(v, "deployment") <=> preflight(w, "deployment")
  PROVE  ParseDeployment(v, files) <=> ParseDeployment(w, files)
<1>1. validateEnvironment(v) <=> validateEnvironment(w)
  BY ConsumedByDeployment, AlikeReads DEF validateEnvironment, DeploymentShared, ReleaseNames
<1>2. clean(v, "NEXUSRELAY_VERSION", "dev") <=> clean(w, "NEXUSRELAY_VERSION", "dev")
  BY ConsumedByDeployment, AlikeReads DEF DeploymentShared, ReleaseNames
<1>3. parseHTTP(v) <=> parseHTTP(w)
  BY ConsumedByDeployment, AlikeReads DEF parseHTTP, DeploymentShared, HTTPNames
<1>4. inRange(v, "HTTPS_PORT", 8443, 1, MaxPort) <=> inRange(w, "HTTPS_PORT", 8443, 1, MaxPort)
  BY ConsumedByDeployment, AlikeReads DEF DeploymentOnly
<1> QED BY <1>1, <1>2, <1>3, <1>4, AlikeEndpoints, AlikeTLS, AlikeInventory, AlikeRedisDeployment,
           AlikeCloudflare DEF ParseDeployment

LEMMA RefusedNames ==
  Inventory \cap Refused = {}
<1> SUFFICES ASSUME NEW r \in InventoryRows, NEW n \in r[2], n \in Refused PROVE FALSE
  BY DEF Inventory
<1> QED BY DEF InventoryRows, Refused, BootstrapOnly

SecretSettings == {s[1] : s \in deploymentSecretFiles}

LEMMA SecretSettingsNames ==
  SecretSettings =
    {"POSTGRES_PASSWORD_FILE", "DATABASE_MIGRATION_PASSWORD_FILE", "DATABASE_GATEWAY_PASSWORD_FILE",
     "DATABASE_CONTROL_PLANE_PASSWORD_FILE", "DATABASE_WORKER_PASSWORD_FILE", "REDIS_URL_FILE",
     "REDIS_PASSWORD_FILE", "MASTER_KEYRING_FILE", "API_KEY_PEPPER_RING_FILE",
     "SESSION_SECRET_FILE", "CSRF_SECRET_RING_FILE"}
BY DEF SecretSettings, deploymentSecretFiles, DatabasePasswords

LEMMA ResolvedDomain ==
  ASSUME NEW v
  PROVE  DOMAIN ResolveDeploymentSecretRoot(v) = SecretSettings \cup DOMAIN v
BY DEF ResolveDeploymentSecretRoot, Resolve, Merge, SecretSettings

\* What ValuesForProcess lets through reads like the whole.
LEMMA FilteredAlike ==
  ASSUME NEW v, NEW p
  PROVE  Alike(ValuesForProcess(v, p), v, Consumed(p))
BY DEF Alike, ValuesForProcess, value

\* None of the settings that ValuesForProcess drops changes the verdict.
LEMMA FilteredParse ==
  ASSUME NEW p \in Processes, NEW v, NEW files,
         DOMAIN v \cap Refused = {}, p \in Services => DOMAIN v \cap BootstrapOnly = {}
  PROVE  Parse(p, ValuesForProcess(v, p), files) <=> Parse(p, v, files)
<1> DEFINE w == ValuesForProcess(v, p)
<1>1. DOMAIN w \subseteq DOMAIN v
  BY DEF ValuesForProcess
<1>2. preflight(w, p) <=> preflight(v, p)
  <2> HIDE DEF w
  <2> QED BY <1>1 DEF preflight
<1>3. Alike(w, v, Consumed(p))
  BY FilteredAlike
<1> HIDE DEF w
<1>4. CASE p \in Services
  BY <1>2, <1>3, <1>4, AlikeService DEF w
<1>5. CASE p = "bootstrap"
  <2>1. ParseBootstrap(w, files) <=> ParseBootstrap(v, files)
    BY <1>2, <1>3, <1>5, AlikeBootstrap
  <2> QED BY <1>5, <2>1 DEF Parse, w
<1>6. CASE p = "deployment"
  <2>1. ParseDeployment(w, files) <=> ParseDeployment(v, files)
    BY <1>2, <1>3, <1>6, AlikeDeployment
  <2> QED BY <1>6, <2>1 DEF Parse, w
<1> QED BY <1>4, <1>5, <1>6 DEF Processes

\* For every environment file, not only the ones that were enumerated: the
\* inventory lists for each process every setting its parser looks at.
THEOREM FilterDropsNothing == Spec => []FilterIsComplete
<1>1. FilterIsComplete
  <2> SUFFICES ASSUME NEW p \in Processes, DOMAIN env \subseteq Inventory
               PROVE  LET whole == IF p \in Services
                                   THEN [n \in DOMAIN env \ BootstrapOnly |-> env[n]] ELSE env
                          w == ResolveDeploymentSecretRoot(whole)
                      IN Parse(p, ValuesForProcess(w, p), PreflightFiles) <=> Parse(p, w, PreflightFiles)
    BY DEF FilterIsComplete
  <2> DEFINE whole == IF p \in Services THEN [n \in DOMAIN env \ BootstrapOnly |-> env[n]] ELSE env
             w == ResolveDeploymentSecretRoot(whole)
  <2>1. DOMAIN whole \subseteq DOMAIN env /\ (p \in Services => DOMAIN whole \cap BootstrapOnly = {})
    OBVIOUS
  <2> HIDE DEF whole
  <2>2. DOMAIN w = SecretSettings \cup DOMAIN whole
    BY ResolvedDomain
  <2> HIDE DEF w
  <2>3. SecretSettings \cap Refused = {} /\ SecretSettings \cap BootstrapOnly = {}
    BY SecretSettingsNames DEF Refused, BootstrapOnly
  <2>4. DOMAIN w \cap Refused = {}
    BY <2>1, <2>2, <2>3, RefusedNames
  <2>5. p \in Services => DOMAIN w \cap BootstrapOnly = {}
    BY <2>1, <2>2, <2>3
  <2>6. Parse(p, ValuesForProcess(w, p), PreflightFiles) <=> Parse(p, w, PreflightFiles)
    BY <2>4, <2>5, FilteredParse
  <2> QED BY <2>6 DEF w, whole
<1> QED BY <1>1, PTL

(***************************************************************************)
(* Preflight: what was validated is what runs                              *)
(***************************************************************************)

\* A parser that looks at a setting which is present refuses the empty
\* text and a text outside the setting's syntax.
LEMMA PresentIsRead ==
  ASSUME NEW v, NEW n \in DOMAIN v
  PROVE  /\ \A x : value(v, n, x) = v[n]
         /\ \A x, a, b : inRange(v, n, x, a, b) => v[n] \notin {Empty, Malformed}
         /\ \A x : clean(v, n, x) => v[n] \notin {Empty, Malformed}
         /\ \A x, S : value(v, n, x) \in S /\ S \subseteq Texts => v[n] \notin {Empty, Malformed}
<1>1. \A x : value(v, n, x) = v[n]
  BY DEF value
<1>2. \A x, S : value(v, n, x) \in S /\ S \subseteq Texts => v[n] \notin {Empty, Malformed}
  BY <1>1, TextsAssumption
<1>3. \A x, a, b : inRange(v, n, x, a, b) => v[n] \notin {Empty, Malformed}
  BY <1>1 DEF inRange
<1> QED BY <1>1, <1>2, <1>3 DEF clean

LEMMA PresentBoolean ==
  ASSUME NEW v, NEW n \in DOMAIN v
  PROVE  \A x : boolean(v, n, x) => v[n] \notin {Empty, Malformed}
<1>1. \A x : value(v, n, x) = v[n]
  BY DEF value
<1>2. Empty \notin BOOLEAN /\ Malformed \notin BOOLEAN
  BY TextsAssumption, Zenon
<1> QED BY <1>1, <1>2, Zenon DEF boolean

\* The settings that are present and named are not empty, and the strict ones
\* among them are in their syntax.
NonEmpty(v, names) ==
  \A n \in names \cap DOMAIN v : v[n] # Empty /\ (n \notin FreeText => v[n] # Malformed)

LEMMA CommonNonEmpty ==
  ASSUME NEW v, parseServiceCommon(v)
  PROVE  NonEmpty(v, CommonNames \ {"OTEL_EXPORTER_OTLP_ENDPOINT"})
<1> SUFFICES ASSUME NEW n \in CommonNames, n # "OTEL_EXPORTER_OTLP_ENDPOINT", n \in DOMAIN v PROVE v[n] \notin {Empty, Malformed}
  BY DEF NonEmpty
<1>1. CASE n = "NEXUSRELAY_ENV"
  <2>1. value(v, n, "development") \in {"development", "test", "production"}
    BY <1>1 DEF parseServiceCommon, validateEnvironment
  <2> QED BY <2>1, PresentIsRead DEF Texts
<1>2. CASE n \in {"NEXUSRELAY_VERSION", "HTTP_BIND_ADDRESS", "HTTP_PORT", "SHUTDOWN_GRACE_PERIOD"}
  BY <1>2, PresentIsRead DEF parseServiceCommon, parseHTTP
<1>3. CASE n \in LoggingNames
  <2>1. \/ value(v, n, "info") \in {"debug", "info", "warn", "error"}
        \/ value(v, n, "json") \in {"json", "text"}
    BY <1>3 DEF LoggingNames, parseServiceCommon, parseObservability, parseLogging
  <2> QED BY <2>1, PresentIsRead DEF Texts
<1>4. CASE n = "METRICS_ENABLED"
  <2>1. boolean(v, "METRICS_ENABLED", TRUE)
    BY Zenon DEF parseServiceCommon, parseObservability
  <2> QED BY <1>4, <2>1, PresentBoolean, Zenon
<1>5. CASE n = "OTEL_ENABLED"
  <2>1. boolean(v, "OTEL_ENABLED", FALSE)
    BY Zenon DEF parseServiceCommon, parseObservability
  <2> QED BY <1>5, <2>1, PresentBoolean, Zenon
<1> QED BY <1>1, <1>2, <1>3, <1>4, <1>5 DEF CommonNames, ReleaseNames, HTTPNames, LoggingNames, TelemetryNames

LEMMA DatabaseNonEmpty ==
  ASSUME NEW v, NEW files, NEW s, parseDatabase(v, files, s), s.user \in Texts
  PROVE  NonEmpty(v, (SharedDatabaseNames \ {"NEXUSRELAY_ENV"}) \cup {s.userSetting, s.minSetting, s.maxSetting})
<1> SUFFICES ASSUME NEW n \in (SharedDatabaseNames \ {"NEXUSRELAY_ENV"}) \cup {s.userSetting, s.minSetting, s.maxSetting},
                    n \in DOMAIN v
             PROVE  v[n] \notin {Empty, Malformed}
  BY DEF NonEmpty
<1>1. CASE n \in {"DATABASE_NAME", "DATABASE_HOST", "DATABASE_PORT", "DATABASE_STATEMENT_TIMEOUT",
                  "DATABASE_TRANSACTION_TIMEOUT"}
  BY <1>1, PresentIsRead DEF parseDatabase
<1>2. CASE n = "DATABASE_SSLMODE"
  <2>1. value(v, n, "disable") \in {"disable", "require", "verify-ca", "verify-full"}
    BY <1>2 DEF parseDatabase, parseDatabaseSSLMode
  <2> QED BY <2>1, PresentIsRead DEF Texts
<1>3. CASE n = s.userSetting
  <2>1. value(v, n, s.user) \in {s.user}
    BY <1>3 DEF parseDatabase
  <2> QED BY <2>1, PresentIsRead
<1>4. CASE n \in {s.minSetting, s.maxSetting}
  BY <1>4, PresentIsRead DEF parseDatabase
<1> QED BY <1>1, <1>2, <1>3, <1>4 DEF SharedDatabaseNames

LEMMA ReadinessNonEmpty ==
  ASSUME NEW v, parseDependencyReadiness(v)
  PROVE  NonEmpty(v, ReadinessNames)
BY PresentIsRead DEF NonEmpty, ReadinessNames, parseDependencyReadiness

LEMMA PublicNonEmpty ==
  ASSUME NEW v, parsePublicAPIURL(v)
  PROVE  NonEmpty(v, {"PUBLIC_API_BASE_URL"})
BY DEF NonEmpty, parsePublicAPIURL, absoluteURL, value

LEMMA AdminNonEmpty ==
  ASSUME NEW v, parseAdminURLs(v)
  PROVE  NonEmpty(v, {"ADMIN_BASE_URL", "ADMIN_ORIGINS"})
<1>1. /\ value(v, "ADMIN_BASE_URL", LocalAdminURL) # Empty
      /\ value(v, "ADMIN_ORIGINS", <<LocalAdminURL>>) # Empty
  BY DEF parseAdminURLs, originURL, absoluteURL, parseOrigins
<1> QED BY <1>1 DEF NonEmpty, value, FreeText

LEMMA PinnedNames ==
  DOMAIN Pinned = {"HTTP_PORT", "DATABASE_HOST"} \cup SecretSettings
BY DEF Pinned, Merge, SecretSettings

SharedInterpolated ==
  (CommonNames \ {"HTTP_PORT"}) \cup (SharedDatabaseNames \ {"DATABASE_HOST"}) \cup ReadinessNames

LEMMA InterpolatedNames ==
  /\ Interpolated("gateway") =
       SharedInterpolated \cup
       {"PUBLIC_API_BASE_URL", "TRUSTED_PROXY_CIDRS", "DATABASE_GATEWAY_USER",
        "DATABASE_MIN_CONNECTIONS_GATEWAY", "DATABASE_MAX_CONNECTIONS_GATEWAY",
        "REDIS_MAX_CONNECTIONS_GATEWAY"}
  /\ Interpolated("worker") =
       SharedInterpolated \cup
       {"DATABASE_WORKER_USER", "DATABASE_MIN_CONNECTIONS_WORKER", "DATABASE_MAX_CONNECTIONS_WORKER",
        "REDIS_MAX_CONNECTIONS_WORKER"}
  /\ Interpolated("control-plane") =
       SharedInterpolated \cup
       {"PUBLIC_API_BASE_URL", "ADMIN_BASE_URL", "ADMIN_ORIGINS", "TRUSTED_PROXY_CIDRS",
        "DATABASE_CONTROL_PLANE_USER", "DATABASE_MIN_CONNECTIONS_CONTROL_PLANE",
        "DATABASE_MAX_CONNECTIONS_CONTROL_PLANE", "REDIS_MAX_CONNECTIONS_CONTROL_PLANE"}
<1> DEFINE pinned ==
      {"HTTP_PORT", "DATABASE_HOST", "POSTGRES_PASSWORD_FILE", "DATABASE_MIGRATION_PASSWORD_FILE",
       "DATABASE_GATEWAY_PASSWORD_FILE", "DATABASE_CONTROL_PLANE_PASSWORD_FILE",
       "DATABASE_WORKER_PASSWORD_FILE", "REDIS_URL_FILE", "REDIS_PASSWORD_FILE",
       "MASTER_KEYRING_FILE", "API_KEY_PEPPER_RING_FILE", "SESSION_SECRET_FILE", "CSRF_SECRET_RING_FILE"}
<1>1. \A p : Interpolated(p) = (ServicePassed \ pinned) \cup ((Passed(p) \ ServicePassed) \ pinned)
  BY PinnedNames, SecretSettingsNames DEF Interpolated, Passed
<1>2. ServicePassed \ pinned = SharedInterpolated
  BY DEF ServicePassed, SharedInterpolated, CommonNames, ReleaseNames, HTTPNames, LoggingNames, TelemetryNames,
         SharedDatabaseNames, ReadinessNames
<1>3. Interpolated("gateway") = SharedInterpolated \cup
       ({"PUBLIC_API_BASE_URL", "TRUSTED_PROXY_CIDRS", "DATABASE_GATEWAY_USER",
         "DATABASE_GATEWAY_PASSWORD_FILE", "DATABASE_MIN_CONNECTIONS_GATEWAY",
         "DATABASE_MAX_CONNECTIONS_GATEWAY", "REDIS_MAX_CONNECTIONS_GATEWAY",
         "API_KEY_PEPPER_RING_FILE"} \ pinned)
  BY <1>1, <1>2 DEF Passed
<1>4. Interpolated("worker") = SharedInterpolated \cup
       ({"DATABASE_WORKER_USER", "DATABASE_WORKER_PASSWORD_FILE",
         "DATABASE_MIN_CONNECTIONS_WORKER", "DATABASE_MAX_CONNECTIONS_WORKER",
         "REDIS_MAX_CONNECTIONS_WORKER"} \ pinned)
  BY <1>1, <1>2 DEF Passed
<1>5. Interpolated("control-plane") = SharedInterpolated \cup
       ({"PUBLIC_API_BASE_URL", "ADMIN_BASE_URL", "ADMIN_ORIGINS", "TRUSTED_PROXY_CIDRS",
        "DATABASE_CONTROL_PLANE_USER", "DATABASE_CONTROL_PLANE_PASSWORD_FILE",
        "DATABASE_MIN_CONNECTIONS_CONTROL_PLANE", "DATABASE_MAX_CONNECTIONS_CONTROL_PLANE",
        "REDIS_MAX_CONNECTIONS_CONTROL_PLANE", "API_KEY_PEPPER_RING_FILE",
        "SESSION_SECRET_FILE", "CSRF_SECRET_RING_FILE"} \ pinned)
  BY <1>1, <1>2 DEF Passed
<1> QED BY <1>3, <1>4, <1>5

\* The two settings whose empty value means what their absence means.
Optional == {"OTEL_EXPORTER_OTLP_ENDPOINT", "TRUSTED_PROXY_CIDRS"}

\* The parser of a service refuses an empty value of every other setting that
\* compose interpolates.
LEMMA ServiceNonEmpty ==
  ASSUME NEW p \in Services, NEW v, NEW files, Parse(p, v, files)
  PROVE  NonEmpty(v, Interpolated(p) \ Optional)
<1>1. parseServiceCommon(v) /\ parseDependencyReadiness(v)
  BY DEF Services, Parse, ParseGateway, ParseControlPlane, ParseWorker
<1>2. NonEmpty(v, CommonNames \ {"OTEL_EXPORTER_OTLP_ENDPOINT"}) /\ NonEmpty(v, ReadinessNames)
  BY <1>1, CommonNonEmpty, ReadinessNonEmpty
<1>3. CASE p = "gateway"
  <2>1. ParseGateway(v, files)
    BY <1>3 DEF Parse
  <2>2. parseDatabase(v, files, databaseSettings("gateway")) /\ parsePublicAPIURL(v)
        /\ inRange(v, "REDIS_MAX_CONNECTIONS_GATEWAY", 50, 1, 10000)
    BY <2>1 DEF ParseGateway, parseGatewayEndpoints, parseRedis
  <2>3. NonEmpty(v, (SharedDatabaseNames \ {"NEXUSRELAY_ENV"}) \cup
                    {"DATABASE_GATEWAY_USER", "DATABASE_MIN_CONNECTIONS_GATEWAY", "DATABASE_MAX_CONNECTIONS_GATEWAY"})
    <3>1. /\ databaseSettings("gateway").user = "nexusrelay_gateway"
          /\ databaseSettings("gateway").userSetting = "DATABASE_GATEWAY_USER"
          /\ databaseSettings("gateway").minSetting = "DATABASE_MIN_CONNECTIONS_GATEWAY"
          /\ databaseSettings("gateway").maxSetting = "DATABASE_MAX_CONNECTIONS_GATEWAY"
      BY DEF databaseSettings
    <3>2. databaseSettings("gateway").user \in Texts
      BY <3>1 DEF Texts
    <3>3. NonEmpty(v, (SharedDatabaseNames \ {"NEXUSRELAY_ENV"}) \cup
            {databaseSettings("gateway").userSetting, databaseSettings("gateway").minSetting,
             databaseSettings("gateway").maxSetting})
      BY <2>2, <3>2, DatabaseNonEmpty
    <3> QED BY <3>1, <3>3
  <2>4. NonEmpty(v, {"PUBLIC_API_BASE_URL"})
    BY <2>2, PublicNonEmpty
  <2>5. NonEmpty(v, {"REDIS_MAX_CONNECTIONS_GATEWAY"})
    BY <2>2, PresentIsRead DEF NonEmpty
  <2> QED BY <1>2, <1>3, <2>3, <2>4, <2>5, InterpolatedNames DEF NonEmpty, SharedInterpolated, CommonNames, ReleaseNames, Optional
<1>4. CASE p = "worker"
  <2>1. ParseWorker(v, files)
    BY <1>4 DEF Parse
  <2>2. parseDatabase(v, files, databaseSettings("worker"))
        /\ inRange(v, "REDIS_MAX_CONNECTIONS_WORKER", 20, 1, 10000)
    BY <2>1 DEF ParseWorker, parseRedis
  <2>3. NonEmpty(v, (SharedDatabaseNames \ {"NEXUSRELAY_ENV"}) \cup
                    {"DATABASE_WORKER_USER", "DATABASE_MIN_CONNECTIONS_WORKER", "DATABASE_MAX_CONNECTIONS_WORKER"})
    <3>1. /\ databaseSettings("worker").user = "nexusrelay_worker"
          /\ databaseSettings("worker").userSetting = "DATABASE_WORKER_USER"
          /\ databaseSettings("worker").minSetting = "DATABASE_MIN_CONNECTIONS_WORKER"
          /\ databaseSettings("worker").maxSetting = "DATABASE_MAX_CONNECTIONS_WORKER"
      BY DEF databaseSettings
    <3>2. databaseSettings("worker").user \in Texts
      BY <3>1 DEF Texts
    <3>3. NonEmpty(v, (SharedDatabaseNames \ {"NEXUSRELAY_ENV"}) \cup
            {databaseSettings("worker").userSetting, databaseSettings("worker").minSetting,
             databaseSettings("worker").maxSetting})
      BY <2>2, <3>2, DatabaseNonEmpty
    <3> QED BY <3>1, <3>3
  <2>4. NonEmpty(v, {"REDIS_MAX_CONNECTIONS_WORKER"})
    BY <2>2, PresentIsRead DEF NonEmpty
  <2> QED BY <1>2, <1>4, <2>3, <2>4, InterpolatedNames DEF NonEmpty, SharedInterpolated, CommonNames, ReleaseNames, Optional
<1>5. CASE p = "control-plane"
  <2>1. ParseControlPlane(v, files)
    BY <1>5 DEF Parse
  <2>2. parseDatabase(v, files, databaseSettings("control-plane")) /\ parsePublicAPIURL(v) /\ parseAdminURLs(v)
        /\ inRange(v, "REDIS_MAX_CONNECTIONS_CONTROL_PLANE", 20, 1, 10000)
    BY <2>1 DEF ParseControlPlane, parseControlPlaneEndpoints, parseRedis
  <2>3. NonEmpty(v, (SharedDatabaseNames \ {"NEXUSRELAY_ENV"}) \cup
                    {"DATABASE_CONTROL_PLANE_USER", "DATABASE_MIN_CONNECTIONS_CONTROL_PLANE",
                     "DATABASE_MAX_CONNECTIONS_CONTROL_PLANE"})
    <3>1. /\ databaseSettings("control-plane").user = "nexusrelay_control_plane"
          /\ databaseSettings("control-plane").userSetting = "DATABASE_CONTROL_PLANE_USER"
          /\ databaseSettings("control-plane").minSetting = "DATABASE_MIN_CONNECTIONS_CONTROL_PLANE"
          /\ databaseSettings("control-plane").maxSetting = "DATABASE_MAX_CONNECTIONS_CONTROL_PLANE"
      BY DEF databaseSettings
    <3>2. databaseSettings("control-plane").user \in Texts
      BY <3>1 DEF Texts
    <3>3. NonEmpty(v, (SharedDatabaseNames \ {"NEXUSRELAY_ENV"}) \cup
            {databaseSettings("control-plane").userSetting, databaseSettings("control-plane").minSetting,
             databaseSettings("control-plane").maxSetting})
      BY <2>2, <3>2, DatabaseNonEmpty
    <3> QED BY <3>1, <3>3
  <2>4. NonEmpty(v, {"PUBLIC_API_BASE_URL"}) /\ NonEmpty(v, {"ADMIN_BASE_URL", "ADMIN_ORIGINS"})
    BY <2>2, PublicNonEmpty, AdminNonEmpty
  <2>5. NonEmpty(v, {"REDIS_MAX_CONNECTIONS_CONTROL_PLANE"})
    BY <2>2, PresentIsRead DEF NonEmpty
  <2> QED BY <1>2, <1>5, <2>3, <2>4, <2>5, InterpolatedNames DEF NonEmpty, SharedInterpolated, CommonNames, ReleaseNames, Optional
<1> QED BY <1>3, <1>4, <1>5 DEF Services

\* What ValidateComplete is given: the file, with the settings of --core-only
\* written over it, and with the paths of the secrets resolved.
Judged ==
  IF profile = "core" THEN ResolveDeploymentSecretRoot(coreOnly(env))
  ELSE ResolveCloudflareSecretRoot(ResolveDeploymentSecretRoot(env))

Overridden ==
  {"ENABLE_CLOUDFLARE_TUNNEL", "TLS_MODE", "ACME_EMAIL", "ACME_DNS_PROVIDER",
   "ACME_DNS_API_TOKEN_FILE", "CLOUDFLARE_TUNNEL_CREDENTIALS_FILE"}

LEMMA AcceptedJudged ==
  ASSUME Accepted, NEW p \in Processes \ {"bootstrap"}
  PROVE  Parse(p, ValuesForProcess(Judged, p), PreflightFiles)
<1>1. ValidateComplete(Judged, PreflightFiles)
  BY DEF Accepted, Judged
<1> QED BY <1>1 DEF ValidateComplete

LEMMA MergeReads ==
  ASSUME NEW f, NEW g, NEW n, n \notin DOMAIN f
  PROVE  \A x : value(Merge(f, g), n, x) = value(g, n, x)
BY DEF Merge, value

LEMMA CloudflareReads ==
  ASSUME NEW v, NEW n, n \notin {"ACME_DNS_API_TOKEN_FILE", "CLOUDFLARE_TUNNEL_CREDENTIALS_FILE"}
  PROVE  \A x : value(ResolveCloudflareSecretRoot(v), n, x) = value(v, n, x)
<1>1. n \notin {s[1] : s \in cloudflareSecretFiles}
  BY DEF cloudflareSecretFiles
<1> DEFINE f == [m \in {s[1] : s \in cloudflareSecretFiles} |->
                   <<"/cloudflare-secrets", (CHOOSE s \in cloudflareSecretFiles : s[1] = m)[2]>>]
<1>2. n \notin DOMAIN f
  BY <1>1
<1>3. ResolveCloudflareSecretRoot(v) = Merge(f, v)
  BY DEF ResolveCloudflareSecretRoot, Resolve
<1> HIDE DEF f
<1> QED BY <1>2, <1>3, MergeReads

LEMMA ResolvedReads ==
  ASSUME NEW v, NEW n, n \notin SecretSettings
  PROVE  \A x : value(ResolveDeploymentSecretRoot(v), n, x) = value(v, n, x)
BY MergeReads DEF ResolveDeploymentSecretRoot, Resolve, SecretSettings

LEMMA CoreOnlyReads ==
  ASSUME NEW v, NEW n, n \notin Overridden
  PROVE  \A x : value(coreOnly(v), n, x) = value(v, n, x)
<1> DEFINE core == [ENABLE_CLOUDFLARE_TUNNEL |-> FALSE, TLS_MODE |-> "disabled",
                    ACME_EMAIL |-> Empty, ACME_DNS_PROVIDER |-> Empty]
<1>1. n \notin DOMAIN core
  BY DEF Overridden
<1>2. coreOnly(v) = Merge(core, v)
  BY DEF coreOnly
<1> HIDE DEF core
<1> QED BY <1>1, <1>2, MergeReads

\* Apart from these the preflight judges the file as it is.
LEMMA JudgedReads ==
  ASSUME NEW n, n \notin SecretSettings, n \notin Overridden
  PROVE  \A x : value(Judged, n, x) = value(env, n, x)
<1>1. CASE profile = "core"
  BY <1>1, ResolvedReads, CoreOnlyReads DEF Judged
<1>2. CASE profile # "core"
  BY <1>2, ResolvedReads, CloudflareReads DEF Judged, Overridden
<1> QED BY <1>1, <1>2

LEMMA InterpolatedConsumed ==
  ASSUME NEW p \in Services
  PROVE  /\ Interpolated(p) \subseteq Consumed(p)
         /\ Interpolated(p) \cap (SecretSettings \cup Overridden) = {}
<1>1. SharedInterpolated \subseteq Consumed(p)
  BY ConsumedByServices DEF SharedInterpolated
<1>2. Interpolated(p) \subseteq Consumed(p)
  <2>1. CASE p = "gateway"
    <3>1. {"DATABASE_GATEWAY_USER", "DATABASE_MIN_CONNECTIONS_GATEWAY", "DATABASE_MAX_CONNECTIONS_GATEWAY"}
            \subseteq OwnDatabaseNames(databaseSettings("gateway"))
      BY DEF OwnDatabaseNames, databaseSettings
    <3> QED BY <1>1, <2>1, <3>1, InterpolatedNames, ConsumedByGateway DEF PublicNames
  <2>2. CASE p = "worker"
    <3>1. {"DATABASE_WORKER_USER", "DATABASE_MIN_CONNECTIONS_WORKER", "DATABASE_MAX_CONNECTIONS_WORKER"}
            \subseteq OwnDatabaseNames(databaseSettings("worker"))
      BY DEF OwnDatabaseNames, databaseSettings
    <3> QED BY <1>1, <2>2, <3>1, InterpolatedNames, ConsumedByWorker
  <2>3. CASE p = "control-plane"
    <3>1. {"DATABASE_CONTROL_PLANE_USER", "DATABASE_MIN_CONNECTIONS_CONTROL_PLANE",
           "DATABASE_MAX_CONNECTIONS_CONTROL_PLANE"} \subseteq OwnDatabaseNames(databaseSettings("control-plane"))
      BY DEF OwnDatabaseNames, databaseSettings
    <3> QED BY <1>1, <2>3, <3>1, InterpolatedNames, ConsumedByControlPlane DEF PublicNames, AdminNames
  <2> QED BY <2>1, <2>2, <2>3 DEF Services
<1>3. Interpolated(p) \cap SecretSettings = {}
  BY PinnedNames DEF Interpolated
<1>4. Interpolated(p) \cap Overridden = {}
  BY DEF Interpolated, Passed, ServicePassed, Overridden, Services
<1> QED BY <1>2, <1>3, <1>4

LEMMA DefaultOptional ==
  Default["OTEL_EXPORTER_OTLP_ENDPOINT"] = Empty /\ Default["TRUSTED_PROXY_CIDRS"] = Empty
BY DEF Default

\* What the parser of a service is given of such a setting is what the file has.
LEMMA JudgedAsWritten ==
  ASSUME Accepted, NEW p \in Services, NEW n \in Interpolated(p)
  PROVE  /\ \A x : value(ValuesForProcess(Judged, p), n, x) = value(env, n, x)
         /\ n \in DOMAIN env => n \in DOMAIN ValuesForProcess(Judged, p) /\ ValuesForProcess(Judged, p)[n] = env[n]
<1> DEFINE v == ValuesForProcess(Judged, p)
<1>1. n \in Consumed(p) /\ n \notin SecretSettings /\ n \notin Overridden
  BY InterpolatedConsumed
<1>2. \A x : value(v, n, x) = value(Judged, n, x)
  BY <1>1, FilteredAlike DEF Alike
<1>3. \A x : value(Judged, n, x) = value(env, n, x)
  BY <1>1, JudgedReads
<1>4. ASSUME n \in DOMAIN env PROVE n \in DOMAIN v /\ v[n] = env[n]
  <2>1. PICK x : x # env[n]
    <3>1. {env[n]} # env[n] \/ {} # env[n]
      OBVIOUS
    <3> QED BY <3>1
  <2>2. value(v, n, x) = env[n]
    BY <1>2, <1>3, <1>4 DEF value
  <2> QED BY <2>1, <2>2 DEF value
<1> QED BY <1>2, <1>3, <1>4

LEMMA InterpolatedDefault ==
  ASSUME NEW p \in Services
  PROVE  Interpolated(p) \subseteq DOMAIN Default
<1>1. Interpolated(p) \subseteq
        SharedInterpolated \cup
        {"PUBLIC_API_BASE_URL", "ADMIN_BASE_URL", "ADMIN_ORIGINS", "TRUSTED_PROXY_CIDRS",
         "DATABASE_GATEWAY_USER", "DATABASE_MIN_CONNECTIONS_GATEWAY", "DATABASE_MAX_CONNECTIONS_GATEWAY",
         "REDIS_MAX_CONNECTIONS_GATEWAY", "DATABASE_WORKER_USER", "DATABASE_MIN_CONNECTIONS_WORKER",
         "DATABASE_MAX_CONNECTIONS_WORKER", "REDIS_MAX_CONNECTIONS_WORKER", "DATABASE_CONTROL_PLANE_USER",
         "DATABASE_MIN_CONNECTIONS_CONTROL_PLANE", "DATABASE_MAX_CONNECTIONS_CONTROL_PLANE",
         "REDIS_MAX_CONNECTIONS_CONTROL_PLANE"}
  BY InterpolatedNames DEF Services
<1>2. SharedInterpolated \subseteq DOMAIN Default
  BY DEF SharedInterpolated, CommonNames, ReleaseNames, HTTPNames, LoggingNames, TelemetryNames,
         SharedDatabaseNames, ReadinessNames, Default
<1> QED BY <1>1, <1>2 DEF Default

\* A strict setting of an accepted file means to compose what its text says.
LEMMA StrictIsNotReread ==
  ASSUME Accepted, RereadInv, NEW p \in Services, NEW n \in Interpolated(p), n \notin FreeText
  PROVE  n \notin DOMAIN reread
<1> SUFFICES ASSUME n \in DOMAIN reread PROVE FALSE
  OBVIOUS
<1> DEFINE v == ValuesForProcess(Judged, p)
<1>1. n \in DOMAIN env /\ Foreign(n, env[n])
  BY InterpolatedDefault DEF RereadInv
<1>2. n \in DOMAIN v /\ v[n] = env[n]
  BY <1>1, JudgedAsWritten
<1>3. Parse(p, v, PreflightFiles)
  BY AcceptedJudged DEF Services, Processes
<1> HIDE DEF v
<1>4. CASE n = "TRUSTED_PROXY_CIDRS"
  <2>1. p # "worker"
    BY <1>4, InterpolatedNames
       DEF SharedInterpolated, CommonNames, ReleaseNames, HTTPNames, LoggingNames, TelemetryNames,
           SharedDatabaseNames, ReadinessNames
  <2>2. parseCIDRs(value(v, "TRUSTED_PROXY_CIDRS", Empty))
    BY <1>3, <2>1 DEF Services, Parse, ParseGateway, ParseControlPlane, parseGatewayEndpoints, parseControlPlaneEndpoints
  <2>3. value(v, "TRUSTED_PROXY_CIDRS", Empty) = env[n]
    BY <1>2, <1>4 DEF value
  <2> QED BY <1>1, <1>4, <2>2, <2>3 DEF Foreign, parseCIDRs
<1>5. CASE n # "TRUSTED_PROXY_CIDRS"
  <2>1. NonEmpty(v, Interpolated(p) \ Optional)
    BY <1>3, ServiceNonEmpty
  <2>2. n \notin Optional
    BY <1>5 DEF Optional, FreeText
  <2>3. v[n] # Malformed
    BY <1>2, <2>1, <2>2 DEF NonEmpty
  <2> QED BY <1>1, <1>2, <1>5, <2>3 DEF Foreign
<1> QED BY <1>4, <1>5

\* A setting that neither the shell nor dotenv touches.
LEMMA InterpolatedAsWritten ==
  ASSUME NEW n, n \notin DOMAIN shell, n \notin DOMAIN reread
  PROVE  interpolate(n) = IF value(env, n, Empty) = Empty THEN Default[n] ELSE value(env, n, Empty)
<1>1. value(Merge(shell, Merge(reread, env)), n, Empty) = value(env, n, Empty)
  BY MergeReads
<1> QED BY <1>1 DEF interpolate

\* A setting of an accepted file that compose interpolates: the preflight
\* judged its value, and compose passes that value on.
LEMMA JudgedIsPassed ==
  ASSUME Accepted, RereadInv, NEW p \in Services, NEW n \in Interpolated(p), ~Altered(n)
  PROVE  /\ \A x : value(ValuesForProcess(Judged, p), n, x) = value(env, n, x)
         /\ n \in DOMAIN env => interpolate(n) = env[n]
         /\ n \notin DOMAIN env => interpolate(n) = Default[n]
<1> DEFINE v == ValuesForProcess(Judged, p)
<1>1. \A x : value(v, n, x) = value(env, n, x)
  BY JudgedAsWritten
<1>2. n \notin DOMAIN shell /\ n \notin DOMAIN reread
  BY StrictIsNotReread DEF Altered
<1>3. interpolate(n) = IF value(env, n, Empty) = Empty THEN Default[n] ELSE value(env, n, Empty)
  BY <1>2, InterpolatedAsWritten
<1>4. n \notin DOMAIN env => interpolate(n) = Default[n]
  BY <1>3 DEF value
<1>5. ASSUME n \in DOMAIN env PROVE interpolate(n) = env[n]
  <2>1. value(env, n, Empty) = env[n]
    BY <1>5 DEF value
  <2>2. CASE env[n] # Empty
    BY <1>3, <2>1, <2>2
  <2>3. CASE env[n] = Empty
    <3>1. Parse(p, v, PreflightFiles)
      BY AcceptedJudged DEF Services, Processes
    <3>2. NonEmpty(v, Interpolated(p) \ Optional)
      BY <3>1, ServiceNonEmpty
    <3>3. n \in DOMAIN v /\ v[n] = Empty
      BY <1>5, <2>3, JudgedAsWritten
    <3>4. n \in Optional
      BY <3>2, <3>3 DEF NonEmpty
    <3>5. Default[n] = Empty
      BY <3>4, DefaultOptional DEF Optional
    <3> QED BY <1>3, <2>1, <2>3, <3>5
  <2> QED BY <2>2, <2>3
<1> QED BY <1>1, <1>4, <1>5

LEMMA DecidedMeansAccepted ==
  ASSUME DeploymentInv, NEW c \in Components, status[c] # "absent"
  PROVE  Accepted
BY DEF DeploymentInv

\* For every file, every shell and whatever compose's dotenv makes of a quote,
\* a comment or a $: every setting that compose passes on to a running service
\* is the one the preflight judged, unless the shell exports it or it is a free
\* text that dotenv reads as another.
THEOREM JudgedIsWhatRuns == Spec => []ValidatedIsWhatRuns
<1>1. DeploymentInv => ValidatedIsWhatRuns
  <2> SUFFICES ASSUME DeploymentInv, NEW p \in Services, status[p] = "running",
                      NEW n \in DOMAIN env \cap Interpolated(p), ~Altered(n)
               PROVE  ComposeEnv(p)[n] = env[n]
    BY DEF ValidatedIsWhatRuns
  <2>1. Accepted
    BY DecidedMeansAccepted DEF Components
  <2>2. interpolate(n) = env[n]
    BY <2>1, JudgedIsPassed DEF DeploymentInv
  <2>3. ComposeEnv(p)[n] = interpolate(n)
    BY DEF ComposeEnv, Interpolated
  <2> QED BY <2>2, <2>3
<1> QED BY <1>1, DeploymentInvariance, PTL

(***************************************************************************)
(* Preflight: what it accepts, the containers accept                       *)
(***************************************************************************)

\* The defaults of compose.yaml are the fallbacks of the parsers.
LEMMA DefaultTexts ==
  /\ Default["NEXUSRELAY_ENV"] = "development" /\ Default["NEXUSRELAY_VERSION"] = "dev"
  /\ Default["HTTP_BIND_ADDRESS"] = "0.0.0.0"
  /\ Default["LOG_LEVEL"] = "info" /\ Default["LOG_FORMAT"] = "json"
  /\ Default["OTEL_EXPORTER_OTLP_ENDPOINT"] = Empty
  /\ Default["TRUSTED_PROXY_CIDRS"] = Empty
  /\ Default["DATABASE_NAME"] = "nexusrelay" /\ Default["DATABASE_SSLMODE"] = "disable"
  /\ Default["DATABASE_GATEWAY_USER"] = "nexusrelay_gateway"
  /\ Default["DATABASE_WORKER_USER"] = "nexusrelay_worker"
  /\ Default["DATABASE_CONTROL_PLANE_USER"] = "nexusrelay_control_plane"
  /\ Default["POSTGRES_DB"] = "nexusrelay" /\ Default["TLS_MODE"] = "disabled"
  /\ Default["ACME_EMAIL"] = Empty /\ Default["ACME_DNS_PROVIDER"] = Empty
BY DEF Default

LEMMA DefaultURLs ==
  /\ Default["PUBLIC_API_BASE_URL"] = LocalPublicURL /\ Default["ADMIN_BASE_URL"] = LocalAdminURL
  /\ Default["ADMIN_ORIGINS"] = <<LocalAdminURL>>
  /\ Default["PUBLIC_API_HOST"] = Localhost /\ Default["ADMIN_HOST"] = Localhost
BY DEF Default

LEMMA DefaultFlags ==
  /\ Default["METRICS_ENABLED"] \in BOOLEAN
  /\ Default["OTEL_ENABLED"] \in BOOLEAN /\ ~Default["OTEL_ENABLED"]
BY DEF Default

LEMMA DefaultNumbers ==
  /\ Default["DATABASE_PORT"] = 5432
  /\ Default["SHUTDOWN_GRACE_PERIOD"] = 30 * Second
  /\ Default["DATABASE_STATEMENT_TIMEOUT"] = 30 * Second
  /\ Default["DATABASE_TRANSACTION_TIMEOUT"] = 30 * Second
  /\ Default["DATABASE_MIN_CONNECTIONS_GATEWAY"] = 2 /\ Default["DATABASE_MAX_CONNECTIONS_GATEWAY"] = 30
  /\ Default["DATABASE_MIN_CONNECTIONS_CONTROL_PLANE"] = 2 /\ Default["DATABASE_MAX_CONNECTIONS_CONTROL_PLANE"] = 20
  /\ Default["DATABASE_MIN_CONNECTIONS_WORKER"] = 2 /\ Default["DATABASE_MAX_CONNECTIONS_WORKER"] = 10
  /\ Default["REDIS_MAX_CONNECTIONS_GATEWAY"] = 50 /\ Default["REDIS_MAX_CONNECTIONS_CONTROL_PLANE"] = 20
  /\ Default["REDIS_MAX_CONNECTIONS_WORKER"] = 20
  /\ Default["DEPENDENCY_STARTUP_TIMEOUT"] = 60 * Second /\ Default["DEPENDENCY_PROBE_TIMEOUT"] = 3 * Second
  /\ Default["DEPENDENCY_PROBE_INTERVAL"] = 5 * Second /\ Default["DEPENDENCY_RETRY_MIN_DELAY"] = 100
  /\ Default["DEPENDENCY_RETRY_MAX_DELAY"] = 2 * Second
BY DEF Default, Second

\* w holds what v reads, the default where v does not have the setting.
Carried(v, w, names) == \A n \in names : \A x : value(w, n, x) = value(v, n, Default[n])

LEMMA CarriedOrDefault ==
  ASSUME NEW v, NEW w, NEW names, NEW n \in names, Carried(v, w, names)
  PROVE  (\A x : value(w, n, x) = value(v, n, x)) \/ (\A x : value(w, n, x) = Default[n])
<1>1. \A x : value(w, n, x) = value(v, n, Default[n])
  BY DEF Carried
<1>2. CASE n \in DOMAIN v
  BY <1>1, <1>2, Zenon DEF value
<1>3. CASE n \notin DOMAIN v
  BY <1>1, <1>3, Zenon DEF value
<1> QED BY <1>2, <1>3

LEMMA CarriedFlag ==
  ASSUME NEW v, NEW w, NEW names, NEW n \in names, Carried(v, w, names), Default[n] \in BOOLEAN
  PROVE  /\ boolean(v, n, TRUE) => boolean(w, n, TRUE)
         /\ boolean(v, n, FALSE) => boolean(w, n, FALSE)
<1>1. CASE \A x : value(w, n, x) = value(v, n, x)
  BY <1>1, Zenon DEF boolean
<1>2. CASE \A x : value(w, n, x) = Default[n]
  BY <1>2, Zenon DEF boolean
<1> QED BY <1>1, <1>2, CarriedOrDefault

LEMMA CarriedSwitch ==
  ASSUME NEW v, NEW w, NEW names, NEW n \in names, Carried(v, w, names), ~Default[n]
  PROVE  value(w, n, FALSE) => value(v, n, FALSE)
<1>1. CASE \A x : value(w, n, x) = value(v, n, x)
  BY <1>1, Zenon
<1>2. CASE \A x : value(w, n, x) = Default[n]
  BY <1>2, Zenon
<1> QED BY <1>1, <1>2, CarriedOrDefault

LEMMA CarriedReads ==
  ASSUME NEW v, NEW w, NEW n, NEW x, value(w, n, x) = value(v, n, x)
  PROVE  /\ \A a, b : inRange(v, n, x, a, b) => inRange(w, n, x, a, b)
         /\ clean(v, n, x) => clean(w, n, x)
BY DEF inRange, clean

LEMMA CarriedObservability ==
  ASSUME NEW v, NEW w, NEW names, Carried(v, w, names),
         "METRICS_ENABLED" \in names, "OTEL_ENABLED" \in names,
         value(w, "OTEL_EXPORTER_OTLP_ENDPOINT", Empty) = value(v, "OTEL_EXPORTER_OTLP_ENDPOINT", Empty),
         parseLogging(w), parseObservability(v)
  PROVE  parseObservability(w)
<1> DEFINE endpoint == value(v, "OTEL_EXPORTER_OTLP_ENDPOINT", Empty)
<1>1. boolean(v, "METRICS_ENABLED", TRUE) /\ boolean(v, "OTEL_ENABLED", FALSE)
  BY DEF parseObservability
<1>2. value(v, "OTEL_ENABLED", FALSE) => endpoint # Empty
  BY DEF parseObservability
<1>3. endpoint # Empty => absoluteURL(endpoint) /\ endpoint.rest = {}
  BY DEF parseObservability
<1>4. boolean(w, "METRICS_ENABLED", TRUE)
  BY <1>1, CarriedFlag, DefaultFlags, Zenon
<1>5. boolean(w, "OTEL_ENABLED", FALSE)
  BY <1>1, CarriedFlag, DefaultFlags, Zenon
<1>6. value(w, "OTEL_ENABLED", FALSE) => endpoint # Empty
  BY <1>2, CarriedSwitch, DefaultFlags, Zenon
<1> QED BY <1>3, <1>4, <1>5, <1>6 DEF parseObservability

LEMMA CarriedCommon ==
  ASSUME NEW v, NEW w, Carried(v, w, CommonNames \ {"HTTP_PORT"}),
         inRange(w, "HTTP_PORT", 8080, 1, MaxPort), parseServiceCommon(v)
  PROVE  parseServiceCommon(w)
<1> USE DEF CommonNames, ReleaseNames, HTTPNames, LoggingNames, TelemetryNames
<1>1. /\ value(w, "NEXUSRELAY_ENV", "development") = value(v, "NEXUSRELAY_ENV", "development")
      /\ value(w, "NEXUSRELAY_VERSION", "dev") = value(v, "NEXUSRELAY_VERSION", "dev")
      /\ value(w, "HTTP_BIND_ADDRESS", "0.0.0.0") = value(v, "HTTP_BIND_ADDRESS", "0.0.0.0")
      /\ value(w, "LOG_LEVEL", "info") = value(v, "LOG_LEVEL", "info")
      /\ value(w, "LOG_FORMAT", "json") = value(v, "LOG_FORMAT", "json")
      /\ value(w, "OTEL_EXPORTER_OTLP_ENDPOINT", Empty) = value(v, "OTEL_EXPORTER_OTLP_ENDPOINT", Empty)
  BY DefaultTexts DEF Carried
<1>2. value(w, "SHUTDOWN_GRACE_PERIOD", 30 * Second) = value(v, "SHUTDOWN_GRACE_PERIOD", 30 * Second)
  BY DefaultNumbers DEF Carried
<1>3. validateEnvironment(w)
  BY <1>1 DEF parseServiceCommon, validateEnvironment
<1>4. clean(w, "NEXUSRELAY_VERSION", "dev")
  BY <1>1, CarriedReads DEF parseServiceCommon
<1>5. parseHTTP(w)
  BY <1>1, <1>2, CarriedReads DEF parseServiceCommon, parseHTTP
<1>6. parseLogging(w)
  BY <1>1 DEF parseServiceCommon, parseObservability, parseLogging
<1>7. parseObservability(w)
  <2>1. parseObservability(v)
    BY DEF parseServiceCommon
  <2> QED BY <1>1, <1>6, <2>1, CarriedObservability
<1> QED BY <1>3, <1>4, <1>5, <1>7 DEF parseServiceCommon

LEMMA CarriedReadiness ==
  ASSUME NEW v, NEW w, Carried(v, w, ReadinessNames), parseDependencyReadiness(v)
  PROVE  parseDependencyReadiness(w)
<1>1. /\ value(w, "DEPENDENCY_STARTUP_TIMEOUT", 60 * Second) = value(v, "DEPENDENCY_STARTUP_TIMEOUT", 60 * Second)
      /\ value(w, "DEPENDENCY_PROBE_TIMEOUT", 3 * Second) = value(v, "DEPENDENCY_PROBE_TIMEOUT", 3 * Second)
      /\ value(w, "DEPENDENCY_PROBE_INTERVAL", 5 * Second) = value(v, "DEPENDENCY_PROBE_INTERVAL", 5 * Second)
      /\ value(w, "DEPENDENCY_RETRY_MIN_DELAY", 100) = value(v, "DEPENDENCY_RETRY_MIN_DELAY", 100)
      /\ value(w, "DEPENDENCY_RETRY_MAX_DELAY", 2 * Second) = value(v, "DEPENDENCY_RETRY_MAX_DELAY", 2 * Second)
  BY DefaultNumbers DEF Carried, ReadinessNames
<1> QED BY <1>1, CarriedReads DEF parseDependencyReadiness

LEMMA CarriedDatabase ==
  ASSUME NEW v, NEW w, NEW files, NEW mounted, NEW s,
         Carried(v, w, (SharedDatabaseNames \ {"DATABASE_HOST"}) \cup {s.userSetting, s.minSetting, s.maxSetting}),
         Default[s.userSetting] = s.user, Default[s.minSetting] = 2, Default[s.maxSetting] = s.defaultMax,
         clean(w, "DATABASE_HOST", "postgres"),
         ReadSimpleSecret(mounted, requiredPath(w, s.passwordSetting, s.password)),
         parseDatabase(v, files, s)
  PROVE  parseDatabase(w, mounted, s)
<1>1. /\ value(w, "NEXUSRELAY_ENV", "development") = value(v, "NEXUSRELAY_ENV", "development")
      /\ value(w, "DATABASE_NAME", "nexusrelay") = value(v, "DATABASE_NAME", "nexusrelay")
      /\ value(w, "DATABASE_SSLMODE", "disable") = value(v, "DATABASE_SSLMODE", "disable")
  BY DefaultTexts DEF Carried, SharedDatabaseNames
<1>2. /\ value(w, "DATABASE_PORT", 5432) = value(v, "DATABASE_PORT", 5432)
      /\ value(w, "DATABASE_STATEMENT_TIMEOUT", 30 * Second) = value(v, "DATABASE_STATEMENT_TIMEOUT", 30 * Second)
      /\ value(w, "DATABASE_TRANSACTION_TIMEOUT", 30 * Second) = value(v, "DATABASE_TRANSACTION_TIMEOUT", 30 * Second)
  BY DefaultNumbers DEF Carried, SharedDatabaseNames
<1>3. /\ value(w, s.userSetting, s.user) = value(v, s.userSetting, s.user)
      /\ value(w, s.minSetting, 2) = value(v, s.minSetting, 2)
      /\ value(w, s.maxSetting, s.defaultMax) = value(v, s.maxSetting, s.defaultMax)
  BY DEF Carried
<1>4. parseDatabaseSSLMode(w)
  BY <1>1 DEF parseDatabase, parseDatabaseSSLMode, isProductionGrade
<1>5. /\ clean(w, "DATABASE_NAME", "nexusrelay")
      /\ inRange(w, "DATABASE_PORT", 5432, 1, MaxPort)
      /\ inRange(w, "DATABASE_STATEMENT_TIMEOUT", 30 * Second, Millisecond, 30 * Minute)
      /\ inRange(w, "DATABASE_TRANSACTION_TIMEOUT", 30 * Second, Millisecond, 30 * Minute)
      /\ inRange(w, s.minSetting, 2, 0, 10000)
      /\ inRange(w, s.maxSetting, s.defaultMax, 1, 10000)
  BY <1>1, <1>2, <1>3, CarriedReads DEF parseDatabase
<1> QED BY <1>3, <1>4, <1>5 DEF parseDatabase

LEMMA CarriedPublic ==
  ASSUME NEW v, NEW w, Carried(v, w, PublicNames), parsePublicAPIURL(v),
         parseCIDRs(value(v, "TRUSTED_PROXY_CIDRS", Empty))
  PROVE  parsePublicAPIURL(w) /\ parseCIDRs(value(w, "TRUSTED_PROXY_CIDRS", Empty))
<1>1. /\ value(w, "NEXUSRELAY_ENV", "development") = value(v, "NEXUSRELAY_ENV", "development")
      /\ value(w, "TRUSTED_PROXY_CIDRS", Empty) = value(v, "TRUSTED_PROXY_CIDRS", Empty)
  BY DefaultTexts DEF Carried, PublicNames
<1>2. value(w, "PUBLIC_API_BASE_URL", LocalPublicURL) = value(v, "PUBLIC_API_BASE_URL", LocalPublicURL)
  BY DefaultURLs DEF Carried, PublicNames
<1> QED BY <1>1, <1>2 DEF parsePublicAPIURL, isProductionGrade

LEMMA CarriedAdmin ==
  ASSUME NEW v, NEW w, Carried(v, w, AdminNames), parseAdminURLs(v)
  PROVE  parseAdminURLs(w)
<1>1. value(w, "NEXUSRELAY_ENV", "development") = value(v, "NEXUSRELAY_ENV", "development")
  BY DefaultTexts DEF Carried, AdminNames
<1>2. /\ value(w, "ADMIN_BASE_URL", LocalAdminURL) = value(v, "ADMIN_BASE_URL", LocalAdminURL)
      /\ value(w, "ADMIN_ORIGINS", <<LocalAdminURL>>) = value(v, "ADMIN_ORIGINS", <<LocalAdminURL>>)
  BY DefaultURLs DEF Carried, AdminNames
<1>3. isProductionGrade(w) <=> isProductionGrade(v)
  BY <1>1 DEF isProductionGrade
<1>4. validateAdminOrigins(w)
  BY <1>2, <1>3 DEF parseAdminURLs, validateAdminOrigins
<1> QED BY <1>2, <1>3, <1>4 DEF parseAdminURLs

\* None of the settings that a container's program looks at is altered.
Unaltered(c) == RereadInv /\ \A n \in Reads(c) : ~Altered(n)

\* The environment of a service's container, name by name.
LEMMA ComposeCarried ==
  ASSUME Accepted, NEW p \in Services, Unaltered(p)
  PROVE  Carried(ValuesForProcess(Judged, p), ComposeEnv(p), Interpolated(p))
<1> DEFINE v == ValuesForProcess(Judged, p)
<1> SUFFICES ASSUME NEW n \in Interpolated(p), NEW x
             PROVE  value(ComposeEnv(p), n, x) = value(v, n, Default[n])
  BY DEF Carried
<1>1. value(ComposeEnv(p), n, x) = interpolate(n)
  BY DEF Interpolated, ComposeEnv, value
<1> HIDE DEF v
<1>2. RereadInv /\ ~Altered(n)
  BY DEF Unaltered, Reads
<1>3. value(v, n, Default[n]) = value(env, n, Default[n])
  BY <1>2, JudgedIsPassed DEF v
<1>4. CASE n \in DOMAIN env
  BY <1>1, <1>3, <1>4, <1>2, JudgedIsPassed DEF value
<1>5. CASE n \notin DOMAIN env
  BY <1>1, <1>3, <1>5, <1>2, JudgedIsPassed DEF value
<1> QED BY <1>4, <1>5

LEMMA ComposePinned ==
  ASSUME NEW p, NEW n \in Passed(p) \cap DOMAIN Pinned
  PROVE  \A x : value(ComposeEnv(p), n, x) = Pinned[n]
BY DEF ComposeEnv, Interpolated, value

LEMMA PinnedPath ==
  ASSUME NEW n, NEW f, <<n, f>> \in deploymentSecretFiles
  PROVE  n \in DOMAIN Pinned /\ Pinned[n] = RunSecret(f)
<1>1. \A s \in deploymentSecretFiles : s = <<s[1], s[2]>>
  BY DEF deploymentSecretFiles, DatabasePasswords
<1>2. \A s \in deploymentSecretFiles : s[1] = n => s[2] = f
  BY DEF deploymentSecretFiles, DatabasePasswords
<1>3. n \in SecretSettings /\ n \notin {"HTTP_PORT", "DATABASE_HOST"}
  <2>1. n \in SecretSettings
    BY DEF SecretSettings
  <2> QED BY <2>1, SecretSettingsNames
<1>4. (CHOOSE s \in deploymentSecretFiles : s[1] = n)[2] = f
  BY <1>2
<1> DEFINE paths == [m \in {s[1] : s \in deploymentSecretFiles} |->
                       RunSecret((CHOOSE s \in deploymentSecretFiles : s[1] = m)[2])]
           fixed == [HTTP_PORT |-> 8080, DATABASE_HOST |-> "postgres"]
<1>5. DOMAIN fixed = {"HTTP_PORT", "DATABASE_HOST"}
  OBVIOUS
<1>6. n \in DOMAIN paths /\ paths[n] = RunSecret(f)
  BY <1>3, <1>4 DEF SecretSettings
<1>7. Pinned = Merge(fixed, paths)
  BY DEF Pinned
<1> HIDE DEF paths, fixed
<1> QED BY <1>3, <1>5, <1>6, <1>7 DEF Merge

LEMMA PinnedAddress ==
  /\ "HTTP_PORT" \in DOMAIN Pinned /\ Pinned["HTTP_PORT"] = 8080
  /\ "DATABASE_HOST" \in DOMAIN Pinned /\ Pinned["DATABASE_HOST"] = "postgres"
<1> DEFINE paths == [m \in {s[1] : s \in deploymentSecretFiles} |->
                       RunSecret((CHOOSE s \in deploymentSecretFiles : s[1] = m)[2])]
           fixed == [HTTP_PORT |-> 8080, DATABASE_HOST |-> "postgres"]
<1>1. DOMAIN fixed = {"HTTP_PORT", "DATABASE_HOST"} /\ fixed["HTTP_PORT"] = 8080 /\ fixed["DATABASE_HOST"] = "postgres"
  OBVIOUS
<1>2. Pinned = Merge(fixed, paths)
  BY DEF Pinned
<1> HIDE DEF paths, fixed
<1> QED BY <1>1, <1>2 DEF Merge

\* A mounted secret is the one that ValidateDevSecrets looked at.
LEMMA MountedSecret ==
  ASSUME NEW p, NEW f,
         \/ f \in {"redis_url", "provider_master_keyring", databaseSettings(p).password}
         \/ p # "worker" /\ f = "api_key_pepper_ring"
         \/ p = "control-plane" /\ f \in {"session_secret", "csrf_secret_ring"}
  PROVE  RunSecret(f) \in DOMAIN Mounted(p) /\ Mounted(p)[RunSecret(f)] = secrets[f]
<1> DEFINE names == {"redis_url", "provider_master_keyring", databaseSettings(p).password}
                    \cup (IF p = "worker" THEN {} ELSE {"api_key_pepper_ring"})
                    \cup (IF p = "control-plane" THEN {"session_secret", "csrf_secret_ring"} ELSE {})
           contents == [n \in names |-> secrets[n]]
<1>1. f \in names
  OBVIOUS
<1>2. Mounted(p) = Files("/run/secrets", contents)
  BY DEF Mounted
<1>3. f \in DOMAIN contents /\ contents[f] = secrets[f]
  BY <1>1
<1> HIDE DEF contents, names
<1>4. RunSecret(f) \in {<<"/run/secrets", n>> : n \in DOMAIN contents}
  BY <1>3 DEF RunSecret
<1>5. RunSecret(f)[2] = f
  BY DEF RunSecret
<1> QED BY <1>2, <1>3, <1>4, <1>5 DEF Files

\* Where a service reads a secret that is pinned, passed and mounted.
LEMMA MountedPath ==
  ASSUME NEW p, NEW n \in Passed(p), NEW f, <<n, f>> \in deploymentSecretFiles
  PROVE  requiredPath(ComposeEnv(p), n, f) = RunSecret(f)
<1>1. n \in DOMAIN Pinned /\ Pinned[n] = RunSecret(f)
  BY PinnedPath
<1> QED BY <1>1, ComposePinned DEF requiredPath

LEMMA ComposePreflight ==
  ASSUME NEW p \in Services
  PROVE  preflight(ComposeEnv(p), p)
<1>1. DOMAIN ComposeEnv(p) = Passed(p)
  BY DEF ComposeEnv
<1>2. Passed(p) \cap Refused = {}
  BY DEF Passed, ServicePassed, Refused
<1>3. Passed(p) \cap BootstrapOnly = {}
  BY DEF Passed, ServicePassed, BootstrapOnly
<1> QED BY <1>1, <1>2, <1>3 DEF preflight

LEMMA ComposeAddress ==
  ASSUME NEW p \in Services
  PROVE  /\ inRange(ComposeEnv(p), "HTTP_PORT", 8080, 1, MaxPort)
         /\ clean(ComposeEnv(p), "DATABASE_HOST", "postgres")
<1>1. "HTTP_PORT" \in Passed(p) /\ "DATABASE_HOST" \in Passed(p)
  BY DEF Passed, ServicePassed
<1>2. value(ComposeEnv(p), "HTTP_PORT", 8080) = 8080 /\ value(ComposeEnv(p), "DATABASE_HOST", "postgres") = "postgres"
  BY <1>1, ComposePinned, PinnedAddress
<1>3. 8080 \notin {Empty, Malformed} /\ "postgres" \notin {Empty, Malformed}
  BY TextsAssumption DEF Texts
<1>4. MaxPort \in Int /\ 8080 <= MaxPort
  BY DEF MaxPort
<1>5. inRange(ComposeEnv(p), "HTTP_PORT", 8080, 1, MaxPort)
  BY <1>2, <1>3, <1>4, InRange
<1> QED BY <1>2, <1>3, <1>5 DEF clean

\* The settings that compose does not pass on: the parser falls back, and
\* every fallback satisfies the parser's own limits.
Unset(v, names) == \A n \in names : \A x : value(v, n, x) = x

LEMMA ComposeUnset ==
  /\ Unset(ComposeEnv("gateway"), UpstreamNames)
  /\ Unset(ComposeEnv("worker"), WorkerNames)
  /\ Unset(ComposeEnv("control-plane"), (SessionNames \ {"SESSION_SECRET_FILE", "CSRF_SECRET_RING_FILE"}) \cup AgentNames)
<1>1. \A p, n : n \notin Passed(p) => \A x : value(ComposeEnv(p), n, x) = x
  BY DEF ComposeEnv, value
<1>2. Passed("gateway") \cap UpstreamNames = {}
  BY DEF Passed, ServicePassed, UpstreamNames
<1>3. Passed("worker") \cap WorkerNames = {}
  BY DEF Passed, ServicePassed, WorkerNames
<1>4. Passed("control-plane") \cap
        ((SessionNames \ {"SESSION_SECRET_FILE", "CSRF_SECRET_RING_FILE"}) \cup AgentNames) = {}
  BY DEF Passed, ServicePassed, SessionNames, PasswordNames, AgentNames
<1> QED BY <1>1, <1>2, <1>3, <1>4 DEF Unset

LEMMA UnsetInRange ==
  ASSUME NEW v, NEW names, Unset(v, names), NEW n \in names,
         NEW d \in Int, NEW a \in Int, NEW b \in Int, a <= d, d <= b
  PROVE  inRange(v, n, d, a, b)
<1>1. value(v, n, d) = d
  BY DEF Unset
<1>2. d \notin {Empty, Malformed}
  BY TextsAssumption
<1> QED BY <1>1, <1>2, InRange

LEMMA UnsetClean ==
  ASSUME NEW v, NEW names, Unset(v, names), NEW n \in names, NEW d \in Texts
  PROVE  clean(v, n, d)
BY TextsAssumption DEF Unset, clean

LEMMA UnsetGatewayPolicy ==
  ASSUME NEW v, Unset(v, UpstreamNames)
  PROVE  parseGatewayPolicy(v)
<1>1. /\ value(v, "UPSTREAM_TOTAL_TIMEOUT", 10 * Minute) = 10 * Minute
      /\ value(v, "UPSTREAM_CONNECT_TIMEOUT", 10 * Second) = 10 * Second
      /\ value(v, "UPSTREAM_FIRST_BYTE_TIMEOUT", 60 * Second) = 60 * Second
      /\ value(v, "UPSTREAM_IDLE_TIMEOUT", 60 * Second) = 60 * Second
  BY DEF Unset, UpstreamNames
<1>2. inRange(v, "REQUEST_BODY_MAX_BYTES", 10485760, 1, 1024 * 1024 * 1024)
  BY UnsetInRange, SMT DEF UpstreamNames
<1>3. inRange(v, "UPSTREAM_CONNECT_TIMEOUT", 10 * Second, Millisecond, 10 * Minute)
  BY UnsetInRange DEF UpstreamNames, Millisecond, Second, Minute
<1>4. inRange(v, "UPSTREAM_FIRST_BYTE_TIMEOUT", 60 * Second, Millisecond, 30 * Minute)
  BY UnsetInRange DEF UpstreamNames, Millisecond, Second, Minute
<1>5. inRange(v, "UPSTREAM_IDLE_TIMEOUT", 60 * Second, Millisecond, 30 * Minute)
  BY UnsetInRange DEF UpstreamNames, Millisecond, Second, Minute
<1>6. inRange(v, "UPSTREAM_TOTAL_TIMEOUT", 10 * Minute, Millisecond, 24 * Hour)
  BY UnsetInRange DEF UpstreamNames, Millisecond, Second, Minute, Hour
<1>7. inRange(v, "MAX_UPSTREAM_ATTEMPTS", 3, 1, 20)
  BY UnsetInRange DEF UpstreamNames
<1>8. 10 * Second <= 10 * Minute /\ 60 * Second <= 10 * Minute
  BY DEF Second, Minute
<1> QED BY <1>1, <1>2, <1>3, <1>4, <1>5, <1>6, <1>7, <1>8 DEF parseGatewayPolicy

LEMMA UnsetWorkerPolicy ==
  ASSUME NEW v, Unset(v, WorkerNames)
  PROVE  parseWorkerPolicy(v)
<1>1. /\ value(v, "OUTBOX_RETRY_BASE_DELAY", Second) = Second
      /\ value(v, "OUTBOX_RETRY_MAX_DELAY", 5 * Minute) = 5 * Minute
      /\ value(v, "HEALTH_FAST_WINDOW", 5 * Minute) = 5 * Minute
      /\ value(v, "HEALTH_STABILIZING_WINDOW", 30 * Minute) = 30 * Minute
      /\ value(v, "HEALTH_UNAVAILABLE_ENTRY_THRESHOLD_BPS", 5000) = 5000
      /\ value(v, "HEALTH_UNAVAILABLE_EXIT_THRESHOLD_BPS", 9000) = 9000
  BY DEF Unset, WorkerNames
<1>2. Second <= 5 * Minute /\ 5 * Minute <= 30 * Minute
  BY DEF Second, Minute
<1>3. /\ inRange(v, "REQUEST_RETENTION_DAYS", 90, 1, 36500)
      /\ inRange(v, "AUDIT_RETENTION_DAYS", 365, 1, 36500)
      /\ inRange(v, "HEALTH_OBSERVATION_RETENTION_DAYS", 14, 1, 36500)
      /\ inRange(v, "PROCESSED_OUTBOX_RETENTION_DAYS", 7, 1, 36500)
  BY UnsetInRange DEF WorkerNames
<1>4. /\ inRange(v, "ANALYTICS_TARGET_LAG", 5 * Minute, Second, 24 * Hour)
      /\ inRange(v, "STALE_REQUEST_RECONCILIATION_INTERVAL", Minute, Second, 24 * Hour)
      /\ inRange(v, "OUTBOX_LEASE_DURATION", 30 * Second, Second, Hour)
  BY UnsetInRange DEF WorkerNames, Second, Minute, Hour
<1>5. /\ inRange(v, "OUTBOX_RETRY_BASE_DELAY", Second, Millisecond, Hour)
      /\ inRange(v, "OUTBOX_RETRY_MAX_DELAY", 5 * Minute, Millisecond, 24 * Hour)
  BY UnsetInRange DEF WorkerNames, Millisecond, Second, Minute, Hour
<1>6. /\ inRange(v, "HEALTH_PROBE_INTERVAL", Minute, Second, 24 * Hour)
      /\ inRange(v, "HEALTH_FAST_WINDOW", 5 * Minute, Second, 24 * Hour)
      /\ inRange(v, "HEALTH_STABILIZING_WINDOW", 30 * Minute, Second, 7 * Day)
  BY UnsetInRange DEF WorkerNames, Second, Minute, Hour, Day
<1>7. /\ inRange(v, "WORKER_CONCURRENCY", 4, 1, 1024)
      /\ inRange(v, "HEALTH_MIN_SAMPLES", 20, 1, 1000000)
      /\ inRange(v, "HEALTH_POLICY_VERSION", 1, 1, 2147483647)
      /\ inRange(v, "HEALTH_UNAVAILABLE_ENTRY_THRESHOLD_BPS", 5000, 0, 10000)
      /\ inRange(v, "HEALTH_UNAVAILABLE_EXIT_THRESHOLD_BPS", 9000, 0, 10000)
  BY UnsetInRange, SMT DEF WorkerNames
<1>8. /\ inRange(v, "HEALTH_CONSECUTIVE_FAILURES", 3, 1, 1000)
      /\ inRange(v, "HEALTH_CONSECUTIVE_SUCCESSES", 3, 1, 1000)
      /\ inRange(v, "RETENTION_BATCH_SIZE", 1000, 1, 100000)
  BY UnsetInRange, SMT DEF WorkerNames
<1>9. inRange(v, "UPSTREAM_TOTAL_TIMEOUT", 10 * Minute, Millisecond, 24 * Hour)
  BY UnsetInRange DEF WorkerNames, Millisecond, Second, Minute, Hour
<1> QED BY <1>1, <1>2, <1>3, <1>4, <1>5, <1>6, <1>7, <1>8, <1>9, SMT DEF parseWorkerPolicy

LEMMA UnsetSessionPolicy ==
  ASSUME NEW v, NEW files, Unset(v, SessionNames \ {"SESSION_SECRET_FILE", "CSRF_SECRET_RING_FILE"}),
         ReadBase64Key(files, requiredPath(v, "SESSION_SECRET_FILE", "session_secret")),
         ReadKeyRing(files, requiredPath(v, "CSRF_SECRET_RING_FILE", "csrf_secret_ring"))
  PROVE  parseSessionPolicy(v, files)
<1> DEFINE names == SessionNames \ {"SESSION_SECRET_FILE", "CSRF_SECRET_RING_FILE"}
<1>1. names = {"SESSION_IDLE_TTL", "SESSION_ABSOLUTE_TTL", "SESSION_LAST_SEEN_WRITE_INTERVAL", "SESSION_COOKIE_NAME",
               "PASSWORD_ARGON2_MEMORY_KIB", "PASSWORD_ARGON2_ITERATIONS", "PASSWORD_ARGON2_PARALLELISM"}
  BY DEF SessionNames, PasswordNames
<1>2. Unset(v, names)
  OBVIOUS
<1> HIDE DEF names
<1>3. /\ value(v, "SESSION_IDLE_TTL", 12 * 3600) = 12 * 3600
      /\ value(v, "SESSION_ABSOLUTE_TTL", 168 * 3600) = 168 * 3600
      /\ value(v, "SESSION_COOKIE_NAME", "nexusrelay_session") = "nexusrelay_session"
      /\ value(v, "PASSWORD_ARGON2_MEMORY_KIB", 65536) = 65536
      /\ value(v, "PASSWORD_ARGON2_PARALLELISM", 2) = 2
  BY <1>1, <1>2 DEF Unset
<1>4. inRange(v, "SESSION_IDLE_TTL", 12 * 3600, 60, 30 * 24 * 3600)
  BY <1>1, <1>2, UnsetInRange, SMT
<1>5. inRange(v, "SESSION_ABSOLUTE_TTL", 168 * 3600, 60, 365 * 24 * 3600)
  BY <1>1, <1>2, UnsetInRange, SMT
<1>6. inRange(v, "SESSION_LAST_SEEN_WRITE_INTERVAL", 300, 1, 12 * 3600)
  BY <1>1, <1>2, UnsetInRange, SMT
<1>7. CookieName(v) \notin {Empty, Malformed}
  BY <1>3, TextsAssumption DEF CookieName, Texts
<1>8. parsePasswordPolicy(v)
  <2>1. inRange(v, "PASSWORD_ARGON2_MEMORY_KIB", 65536, 8, 4 * 1024 * 1024)
    BY <1>1, <1>2, UnsetInRange, SMT
  <2>2. inRange(v, "PASSWORD_ARGON2_ITERATIONS", 3, 1, 100) /\ inRange(v, "PASSWORD_ARGON2_PARALLELISM", 2, 1, 255)
    BY <1>1, <1>2, UnsetInRange, SMT
  <2> QED BY <1>3, <2>1, <2>2, SMT DEF parsePasswordPolicy
<1> QED BY <1>3, <1>4, <1>5, <1>6, <1>7, <1>8, SMT DEF parseSessionPolicy

LEMMA UnsetAgent ==
  ASSUME NEW v, Unset(v, AgentNames)
  PROVE  parseAgent(v)
BY UnsetClean DEF AgentNames, Texts, parseAgent

LEMMA CarriedSubset ==
  ASSUME NEW v, NEW w, NEW names, Carried(v, w, names), NEW fewer, fewer \subseteq names
  PROVE  Carried(v, w, fewer)
BY DEF Carried

\* What every service parses, from the environment of its container.
LEMMA SharedStarts ==
  ASSUME Accepted, NEW p \in Services, Unaltered(p)
  PROVE  /\ preflight(ComposeEnv(p), p)
         /\ parseServiceCommon(ComposeEnv(p))
         /\ parseDependencyReadiness(ComposeEnv(p))
         /\ ReadProviderKeyRing(Mounted(p), requiredPath(ComposeEnv(p), "MASTER_KEYRING_FILE", "provider_master_keyring"))
         /\ ReadURISecret(Mounted(p), requiredPath(ComposeEnv(p), "REDIS_URL_FILE", "redis_url"), {"redis", "rediss"})
<1> DEFINE v == ValuesForProcess(Judged, p)
           w == ComposeEnv(p)
<1>1. Parse(p, v, PreflightFiles)
  BY AcceptedJudged DEF Services, Processes
<1>2. parseServiceCommon(v) /\ parseDependencyReadiness(v)
  BY <1>1 DEF Services, Parse, ParseGateway, ParseControlPlane, ParseWorker
<1>3. Carried(v, w, Interpolated(p))
  BY ComposeCarried
<1>4. SharedInterpolated \subseteq Interpolated(p)
  BY InterpolatedNames DEF Services
<1>5. Carried(v, w, CommonNames \ {"HTTP_PORT"}) /\ Carried(v, w, ReadinessNames)
  BY <1>3, <1>4, CarriedSubset DEF SharedInterpolated
<1>6. inRange(w, "HTTP_PORT", 8080, 1, MaxPort)
  BY ComposeAddress
<1>7. preflight(w, p)
  BY ComposePreflight
<1> HIDE DEF v, w
<1>8. parseServiceCommon(w) /\ parseDependencyReadiness(w)
  BY <1>2, <1>5, <1>6, CarriedCommon, CarriedReadiness
<1>9. ValidateDevSecrets(secrets)
  BY DEF Accepted
<1>10. requiredPath(w, "MASTER_KEYRING_FILE", "provider_master_keyring") = RunSecret("provider_master_keyring")
       /\ requiredPath(w, "REDIS_URL_FILE", "redis_url") = RunSecret("redis_url")
  <2>1. "MASTER_KEYRING_FILE" \in Passed(p) /\ "REDIS_URL_FILE" \in Passed(p)
    BY DEF Passed, ServicePassed
  <2>2. <<"MASTER_KEYRING_FILE", "provider_master_keyring">> \in deploymentSecretFiles
        /\ <<"REDIS_URL_FILE", "redis_url">> \in deploymentSecretFiles
    BY DEF deploymentSecretFiles
  <2> QED BY <2>1, <2>2, MountedPath DEF w
<1>11. /\ RunSecret("provider_master_keyring") \in DOMAIN Mounted(p)
       /\ Mounted(p)[RunSecret("provider_master_keyring")] = secrets["provider_master_keyring"]
       /\ RunSecret("redis_url") \in DOMAIN Mounted(p)
       /\ Mounted(p)[RunSecret("redis_url")] = secrets["redis_url"]
  BY MountedSecret
<1>12. ReadProviderKeyRing(secrets, "provider_master_keyring") /\ ReadURISecret(secrets, "redis_url", {"redis"})
  BY <1>9 DEF ValidateDevSecrets
<1>13. ReadProviderKeyRing(Mounted(p), requiredPath(w, "MASTER_KEYRING_FILE", "provider_master_keyring"))
  BY <1>10, <1>11, <1>12 DEF ReadProviderKeyRing, ReadSimpleSecret
<1>14. ReadURISecret(Mounted(p), requiredPath(w, "REDIS_URL_FILE", "redis_url"), {"redis", "rediss"})
  BY <1>10, <1>11, <1>12 DEF ReadURISecret, ReadSimpleSecret
<1> QED BY <1>7, <1>8, <1>13, <1>14 DEF w

\* The database settings of a service, from the environment of its container.
LEMMA DatabaseStarts ==
  ASSUME Accepted, NEW p \in Services, Unaltered(p), NEW s, s = databaseSettings(p),
         parseDatabase(ValuesForProcess(Judged, p), PreflightFiles, s),
         {s.userSetting, s.minSetting, s.maxSetting} \subseteq Interpolated(p),
         s.passwordSetting \in Passed(p), <<s.passwordSetting, s.password>> \in DatabasePasswords,
         Default[s.userSetting] = s.user, Default[s.minSetting] = 2, Default[s.maxSetting] = s.defaultMax
  PROVE  parseDatabase(ComposeEnv(p), Mounted(p), s)
<1> DEFINE v == ValuesForProcess(Judged, p)
           w == ComposeEnv(p)
           names == (SharedDatabaseNames \ {"DATABASE_HOST"}) \cup {s.userSetting, s.minSetting, s.maxSetting}
<1>1. SharedInterpolated \subseteq Interpolated(p)
  BY InterpolatedNames DEF Services
<1>2. names \subseteq Interpolated(p)
  BY <1>1 DEF SharedInterpolated
<1>3. Carried(v, w, names)
  BY <1>2, ComposeCarried, CarriedSubset
<1>4. clean(w, "DATABASE_HOST", "postgres")
  BY ComposeAddress
<1>5. requiredPath(w, s.passwordSetting, s.password) = RunSecret(s.password)
  BY MountedPath DEF deploymentSecretFiles
<1>6. RunSecret(s.password) \in DOMAIN Mounted(p) /\ Mounted(p)[RunSecret(s.password)] = secrets[s.password]
  BY MountedSecret
<1>7. ReadSimpleSecret(secrets, s.password)
  <2>1. s.password \in {x[2] : x \in DatabasePasswords}
    <3> DEFINE x == <<s.passwordSetting, s.password>>
    <3>1. x \in DatabasePasswords /\ x[2] = s.password
      OBVIOUS
    <3> QED BY <3>1
  <2>2. ValidateDevSecrets(secrets)
    BY DEF Accepted
  <2> QED BY <2>1, <2>2 DEF ValidateDevSecrets
<1>8. ReadSimpleSecret(Mounted(p), requiredPath(w, s.passwordSetting, s.password))
  BY <1>5, <1>6, <1>7 DEF ReadSimpleSecret
<1>9. parseDatabase(v, PreflightFiles, s)
  OBVIOUS
<1> HIDE DEF v, w, names
<1>10. Carried(v, w, (SharedDatabaseNames \ {"DATABASE_HOST"}) \cup {s.userSetting, s.minSetting, s.maxSetting})
  BY <1>3 DEF names
<1>11. parseDatabase(w, Mounted(p), s)
  BY <1>4, <1>8, <1>9, <1>10, CarriedDatabase
<1> QED BY <1>11 DEF w

\* The Redis settings of a service, from the environment of its container.
LEMMA RedisStarts ==
  ASSUME Accepted, NEW p \in Services, Unaltered(p), NEW n \in Interpolated(p), NEW d, Default[n] = d,
         inRange(ValuesForProcess(Judged, p), n, d, 1, 10000)
  PROVE  parseRedis(ComposeEnv(p), Mounted(p), n, d)
<1> DEFINE v == ValuesForProcess(Judged, p)
           w == ComposeEnv(p)
<1>1. value(w, n, d) = value(v, n, d)
  BY ComposeCarried DEF Carried
<1>2. inRange(w, n, d, 1, 10000)
  BY <1>1, CarriedReads
<1> QED BY <1>2, SharedStarts DEF parseRedis

\* The pepper ring, which the gateway and the control plane are given.
LEMMA PepperStarts ==
  ASSUME Accepted, NEW p \in {"gateway", "control-plane"}
  PROVE  ReadKeyRing(Mounted(p), requiredPath(ComposeEnv(p), "API_KEY_PEPPER_RING_FILE", "api_key_pepper_ring"))
<1>1. "API_KEY_PEPPER_RING_FILE" \in Passed(p)
  BY DEF Passed
<1>2. <<"API_KEY_PEPPER_RING_FILE", "api_key_pepper_ring">> \in deploymentSecretFiles
  BY DEF deploymentSecretFiles
<1>3. requiredPath(ComposeEnv(p), "API_KEY_PEPPER_RING_FILE", "api_key_pepper_ring") = RunSecret("api_key_pepper_ring")
  BY <1>1, <1>2, MountedPath
<1>4. /\ RunSecret("api_key_pepper_ring") \in DOMAIN Mounted(p)
      /\ Mounted(p)[RunSecret("api_key_pepper_ring")] = secrets["api_key_pepper_ring"]
  BY MountedSecret
<1>5. ReadKeyRing(secrets, "api_key_pepper_ring")
  BY DEF Accepted, ValidateDevSecrets
<1> QED BY <1>3, <1>4, <1>5 DEF ReadKeyRing, ReadSimpleSecret

LEMMA GatewayStarts ==
  ASSUME Accepted, Unaltered("gateway")
  PROVE  Starts("gateway")
<1> DEFINE p == "gateway"
           v == ValuesForProcess(Judged, p)
           w == ComposeEnv(p)
           s == databaseSettings(p)
<1>1. p \in Services
  BY DEF Services
<1>2. ParseGateway(v, PreflightFiles)
  <2>1. Parse(p, v, PreflightFiles)
    BY AcceptedJudged DEF Services, Processes
  <2> QED BY <2>1 DEF Parse
<1>3. s.userSetting = "DATABASE_GATEWAY_USER" /\ s.user = "nexusrelay_gateway"
      /\ s.minSetting = "DATABASE_MIN_CONNECTIONS_GATEWAY" /\ s.maxSetting = "DATABASE_MAX_CONNECTIONS_GATEWAY"
      /\ s.defaultMax = 30
      /\ s.passwordSetting = "DATABASE_GATEWAY_PASSWORD_FILE" /\ s.password = "postgres_gateway_password"
  BY DEF databaseSettings
<1>4. parseDatabase(w, Mounted(p), s)
  <2>1. parseDatabase(v, PreflightFiles, s)
    BY <1>2 DEF ParseGateway
  <2>2. {s.userSetting, s.minSetting, s.maxSetting} \subseteq Interpolated(p)
    BY <1>3, InterpolatedNames
  <2>3. s.passwordSetting \in Passed(p) /\ <<s.passwordSetting, s.password>> \in DatabasePasswords
    BY <1>3 DEF Passed, DatabasePasswords
  <2>4. Default[s.userSetting] = s.user /\ Default[s.minSetting] = 2 /\ Default[s.maxSetting] = s.defaultMax
    BY <1>3, DefaultTexts, DefaultNumbers
  <2> HIDE DEF s
  <2> QED BY <1>1, <2>1, <2>2, <2>3, <2>4, DatabaseStarts DEF s
<1>5. parseRedis(w, Mounted(p), "REDIS_MAX_CONNECTIONS_GATEWAY", 50)
  <2>1. inRange(v, "REDIS_MAX_CONNECTIONS_GATEWAY", 50, 1, 10000)
    BY <1>2 DEF ParseGateway, parseRedis
  <2> QED BY <1>1, <2>1, InterpolatedNames, DefaultNumbers, RedisStarts
<1>6. parseGatewayEndpoints(w)
  <2>1. PublicNames \subseteq Interpolated(p)
    BY InterpolatedNames DEF PublicNames, SharedInterpolated, CommonNames, ReleaseNames
  <2>2. Carried(v, w, PublicNames)
    BY <1>1, <2>1, ComposeCarried, CarriedSubset
  <2>3. parsePublicAPIURL(v) /\ parseCIDRs(value(v, "TRUSTED_PROXY_CIDRS", Empty))
    BY <1>2 DEF ParseGateway, parseGatewayEndpoints
  <2> HIDE DEF v, w
  <2> QED BY <2>2, <2>3, CarriedPublic DEF parseGatewayEndpoints
<1>7. parseGatewayPolicy(w)
  BY ComposeUnset, UnsetGatewayPolicy
<1>8. ParseGateway(w, Mounted(p))
  BY <1>1, <1>4, <1>5, <1>6, <1>7, SharedStarts, PepperStarts DEF ParseGateway
<1> QED BY <1>1, <1>8, StartsService DEF Parse

LEMMA WorkerStarts ==
  ASSUME Accepted, Unaltered("worker")
  PROVE  Starts("worker")
<1> DEFINE p == "worker"
           v == ValuesForProcess(Judged, p)
           w == ComposeEnv(p)
           s == databaseSettings(p)
<1>1. p \in Services
  BY DEF Services
<1>2. ParseWorker(v, PreflightFiles)
  <2>1. Parse(p, v, PreflightFiles)
    BY AcceptedJudged DEF Services, Processes
  <2> QED BY <2>1 DEF Parse
<1>3. s.userSetting = "DATABASE_WORKER_USER" /\ s.user = "nexusrelay_worker"
      /\ s.minSetting = "DATABASE_MIN_CONNECTIONS_WORKER" /\ s.maxSetting = "DATABASE_MAX_CONNECTIONS_WORKER"
      /\ s.defaultMax = 10
      /\ s.passwordSetting = "DATABASE_WORKER_PASSWORD_FILE" /\ s.password = "postgres_worker_password"
  BY DEF databaseSettings
<1>4. parseDatabase(w, Mounted(p), s)
  <2>1. parseDatabase(v, PreflightFiles, s)
    BY <1>2 DEF ParseWorker
  <2>2. {s.userSetting, s.minSetting, s.maxSetting} \subseteq Interpolated(p)
    BY <1>3, InterpolatedNames
  <2>3. s.passwordSetting \in Passed(p) /\ <<s.passwordSetting, s.password>> \in DatabasePasswords
    BY <1>3 DEF Passed, DatabasePasswords
  <2>4. Default[s.userSetting] = s.user /\ Default[s.minSetting] = 2 /\ Default[s.maxSetting] = s.defaultMax
    BY <1>3, DefaultTexts, DefaultNumbers
  <2> HIDE DEF s
  <2> QED BY <1>1, <2>1, <2>2, <2>3, <2>4, DatabaseStarts DEF s
<1>5. parseRedis(w, Mounted(p), "REDIS_MAX_CONNECTIONS_WORKER", 20)
  <2>1. inRange(v, "REDIS_MAX_CONNECTIONS_WORKER", 20, 1, 10000)
    BY <1>2 DEF ParseWorker, parseRedis
  <2> QED BY <1>1, <2>1, InterpolatedNames, DefaultNumbers, RedisStarts
<1>6. parseWorkerPolicy(w)
  BY ComposeUnset, UnsetWorkerPolicy
<1>7. ParseWorker(w, Mounted(p))
  BY <1>1, <1>4, <1>5, <1>6, SharedStarts DEF ParseWorker
<1> QED BY <1>1, <1>7, StartsService DEF Parse

\* In production compose.yaml hands the control plane no cookie name, so its
\* start is claimed for the other environments only.
LEMMA ControlPlaneStarts ==
  ASSUME Accepted, Unaltered("control-plane"), ~Production
  PROVE  Starts("control-plane")
<1> DEFINE p == "control-plane"
           v == ValuesForProcess(Judged, p)
           w == ComposeEnv(p)
           s == databaseSettings(p)
<1>1. p \in Services
  BY DEF Services
<1>2. ParseControlPlane(v, PreflightFiles)
  <2>1. Parse(p, v, PreflightFiles)
    BY AcceptedJudged DEF Services, Processes
  <2> QED BY <2>1 DEF Parse
<1>3. s.userSetting = "DATABASE_CONTROL_PLANE_USER" /\ s.user = "nexusrelay_control_plane"
      /\ s.minSetting = "DATABASE_MIN_CONNECTIONS_CONTROL_PLANE" /\ s.maxSetting = "DATABASE_MAX_CONNECTIONS_CONTROL_PLANE"
      /\ s.defaultMax = 20
      /\ s.passwordSetting = "DATABASE_CONTROL_PLANE_PASSWORD_FILE" /\ s.password = "postgres_control_plane_password"
  BY DEF databaseSettings
<1>4. parseDatabase(w, Mounted(p), s)
  <2>1. parseDatabase(v, PreflightFiles, s)
    BY <1>2 DEF ParseControlPlane
  <2>2. {s.userSetting, s.minSetting, s.maxSetting} \subseteq Interpolated(p)
    BY <1>3, InterpolatedNames
  <2>3. s.passwordSetting \in Passed(p) /\ <<s.passwordSetting, s.password>> \in DatabasePasswords
    BY <1>3 DEF Passed, DatabasePasswords
  <2>4. Default[s.userSetting] = s.user /\ Default[s.minSetting] = 2 /\ Default[s.maxSetting] = s.defaultMax
    BY <1>3, DefaultTexts, DefaultNumbers
  <2> HIDE DEF s
  <2> QED BY <1>1, <2>1, <2>2, <2>3, <2>4, DatabaseStarts DEF s
<1>5. parseRedis(w, Mounted(p), "REDIS_MAX_CONNECTIONS_CONTROL_PLANE", 20)
  <2>1. inRange(v, "REDIS_MAX_CONNECTIONS_CONTROL_PLANE", 20, 1, 10000)
    BY <1>2 DEF ParseControlPlane, parseRedis
  <2> QED BY <1>1, <2>1, InterpolatedNames, DefaultNumbers, RedisStarts
<1>6. parseControlPlaneEndpoints(w)
  <2>1. PublicNames \subseteq Interpolated(p) /\ AdminNames \subseteq Interpolated(p)
    BY InterpolatedNames DEF PublicNames, AdminNames, SharedInterpolated, CommonNames, ReleaseNames
  <2>2. Carried(v, w, PublicNames) /\ Carried(v, w, AdminNames)
    BY <1>1, <2>1, ComposeCarried, CarriedSubset
  <2>3. parsePublicAPIURL(v) /\ parseCIDRs(value(v, "TRUSTED_PROXY_CIDRS", Empty)) /\ parseAdminURLs(v)
    BY <1>2 DEF ParseControlPlane, parseControlPlaneEndpoints
  <2> HIDE DEF v, w
  <2> QED BY <2>2, <2>3, CarriedPublic, CarriedAdmin DEF parseControlPlaneEndpoints
<1>7. parseSessionPolicy(w, Mounted(p))
  <2>1. Unset(w, SessionNames \ {"SESSION_SECRET_FILE", "CSRF_SECRET_RING_FILE"})
    BY ComposeUnset DEF Unset
  <2>2. "SESSION_SECRET_FILE" \in Passed(p) /\ "CSRF_SECRET_RING_FILE" \in Passed(p)
    BY DEF Passed
  <2>3. <<"SESSION_SECRET_FILE", "session_secret">> \in deploymentSecretFiles
        /\ <<"CSRF_SECRET_RING_FILE", "csrf_secret_ring">> \in deploymentSecretFiles
    BY DEF deploymentSecretFiles
  <2>4. requiredPath(w, "SESSION_SECRET_FILE", "session_secret") = RunSecret("session_secret")
        /\ requiredPath(w, "CSRF_SECRET_RING_FILE", "csrf_secret_ring") = RunSecret("csrf_secret_ring")
    BY <2>2, <2>3, MountedPath
  <2>5. /\ RunSecret("session_secret") \in DOMAIN Mounted(p)
        /\ Mounted(p)[RunSecret("session_secret")] = secrets["session_secret"]
        /\ RunSecret("csrf_secret_ring") \in DOMAIN Mounted(p)
        /\ Mounted(p)[RunSecret("csrf_secret_ring")] = secrets["csrf_secret_ring"]
    BY MountedSecret
  <2>6. ReadBase64Key(secrets, "session_secret") /\ ReadKeyRing(secrets, "csrf_secret_ring")
    BY DEF Accepted, ValidateDevSecrets
  <2>7. ReadBase64Key(Mounted(p), requiredPath(w, "SESSION_SECRET_FILE", "session_secret"))
    BY <2>4, <2>5, <2>6 DEF ReadBase64Key, ReadSimpleSecret
  <2>8. ReadKeyRing(Mounted(p), requiredPath(w, "CSRF_SECRET_RING_FILE", "csrf_secret_ring"))
    BY <2>4, <2>5, <2>6 DEF ReadKeyRing, ReadSimpleSecret
  <2> HIDE DEF w, p
  <2> QED BY <2>1, <2>7, <2>8, UnsetSessionPolicy
<1>8. parseAgent(w)
  <2>1. Unset(w, AgentNames)
    BY ComposeUnset DEF Unset
  <2> HIDE DEF w
  <2> QED BY <2>1, UnsetAgent
<1>9. ~isProductionGrade(w)
  <2>1. "NEXUSRELAY_ENV" \in Interpolated(p)
    BY InterpolatedNames DEF SharedInterpolated, CommonNames, ReleaseNames
  <2>2. value(w, "NEXUSRELAY_ENV", "development") = interpolate("NEXUSRELAY_ENV")
    BY <2>1 DEF Interpolated, ComposeEnv, value
  <2> QED BY <2>2 DEF Production, isProductionGrade
<1>10. ParseControlPlane(w, Mounted(p))
  BY <1>1, <1>4, <1>5, <1>6, <1>7, <1>8, <1>9, SharedStarts, PepperStarts DEF ParseControlPlane
<1> QED BY <1>1, <1>10, StartsService DEF Parse

\* The settings of the deployment's own parser, in the file.
LEMMA DeploymentReads ==
  ASSUME NEW n \in Consumed("deployment"), n \notin SecretSettings,
         n \notin Overridden \/
           (profile # "core" /\ n \notin {"ACME_DNS_API_TOKEN_FILE", "CLOUDFLARE_TUNNEL_CREDENTIALS_FILE"})
  PROVE  \A x : value(ValuesForProcess(Judged, "deployment"), n, x) = value(env, n, x)
<1>1. \A x : value(ValuesForProcess(Judged, "deployment"), n, x) = value(Judged, n, x)
  BY FilteredAlike DEF Alike
<1>2. \A x : value(Judged, n, x) = value(env, n, x)
  <2>1. CASE n \notin Overridden
    BY <2>1, JudgedReads
  <2>2. CASE profile # "core" /\ n \notin {"ACME_DNS_API_TOKEN_FILE", "CLOUDFLARE_TUNNEL_CREDENTIALS_FILE"}
    BY <2>2, ResolvedReads, CloudflareReads DEF Judged
  <2> QED BY <2>1, <2>2
<1> QED BY <1>1, <1>2, Zenon

LEMMA DeploymentParsed ==
  ASSUME Accepted
  PROVE  ParseDeployment(ValuesForProcess(Judged, "deployment"), PreflightFiles)
<1>1. Parse("deployment", ValuesForProcess(Judged, "deployment"), PreflightFiles)
  BY AcceptedJudged DEF Processes, Services
<1> QED BY <1>1 DEF Parse

LEMMA DatabaseNameStarts ==
  ASSUME value(env, "DATABASE_NAME", "nexusrelay") = "nexusrelay", ~Altered("DATABASE_NAME")
  PROVE  interpolate("DATABASE_NAME") = "nexusrelay"
BY DefaultTexts, InterpolatedAsWritten DEF value, Altered, FreeText

LEMMA PostgresStarts ==
  ASSUME Accepted, Unaltered("postgres"), value(env, "DATABASE_NAME", "nexusrelay") = "nexusrelay"
  PROVE  Starts("postgres")
<1> DEFINE v == ValuesForProcess(Judged, "deployment")
<1>1. value(v, "POSTGRES_DB", "nexusrelay") = value(v, "DATABASE_NAME", "nexusrelay")
  BY DeploymentParsed DEF ParseDeployment, parseDatabaseInventory
<1>2. /\ {"POSTGRES_DB", "DATABASE_NAME"} \subseteq Consumed("deployment")
      /\ {"POSTGRES_DB", "DATABASE_NAME"} \cap SecretSettings = {}
      /\ {"POSTGRES_DB", "DATABASE_NAME"} \cap Overridden = {}
  <2>1. "DATABASE_NAME" \in Consumed("deployment")
    BY ConsumedByAll DEF Processes
  <2>2. "POSTGRES_DB" \in Consumed("deployment")
    BY ConsumedByDeployment DEF DeploymentOnly
  <2> QED BY <2>1, <2>2, SecretSettingsNames DEF Overridden
<1>3. value(env, "POSTGRES_DB", "nexusrelay") = "nexusrelay"
  BY <1>1, <1>2, DeploymentReads
<1>4. ~Altered("POSTGRES_DB") /\ ~Altered("DATABASE_NAME")
  BY DEF Unaltered, Reads, Services
<1>5. interpolate("POSTGRES_DB") = "nexusrelay"
  BY <1>3, <1>4, DefaultTexts, InterpolatedAsWritten DEF value, Altered, FreeText
<1> QED BY <1>4, <1>5, DatabaseNameStarts DEF Starts

LEMMA MigrateStarts ==
  ASSUME Accepted, Unaltered("migrate"), value(env, "DATABASE_NAME", "nexusrelay") = "nexusrelay"
  PROVE  Starts("migrate")
<1> DEFINE v == ValuesForProcess(Judged, "gateway")
<1>1. "gateway" \in Services /\ "DATABASE_PORT" \in Interpolated("gateway")
  BY InterpolatedNames DEF Services, SharedInterpolated, SharedDatabaseNames
<1>2. inRange(v, "DATABASE_PORT", 5432, 1, MaxPort)
  <2>1. Parse("gateway", v, PreflightFiles)
    BY AcceptedJudged DEF Services, Processes
  <2> QED BY <2>1 DEF Parse, ParseGateway, parseDatabase
<1>3. value(v, "DATABASE_PORT", 5432) \in 1 .. MaxPort
  BY <1>2 DEF inRange
<1>4. RereadInv /\ ~Altered("DATABASE_NAME") /\ ~Altered("DATABASE_PORT")
  BY DEF Unaltered, Reads, Services
<1>5. value(v, "DATABASE_PORT", 5432) = interpolate("DATABASE_PORT")
  <2>1. \A x : value(v, "DATABASE_PORT", x) = value(env, "DATABASE_PORT", x)
    BY <1>1, <1>4, JudgedIsPassed
  <2>2. CASE "DATABASE_PORT" \in DOMAIN env
    BY <1>1, <1>4, <2>1, <2>2, JudgedIsPassed DEF value
  <2>3. CASE "DATABASE_PORT" \notin DOMAIN env
    BY <1>1, <1>4, <2>1, <2>3, JudgedIsPassed, DefaultNumbers DEF value
  <2> QED BY <2>2, <2>3
<1> QED BY <1>3, <1>5, <1>4, DatabaseNameStarts DEF Starts

LEMMA RedisServerStarts ==
  ASSUME Accepted
  PROVE  Starts("redis")
<1>1. ReadSimpleSecret(secrets, "redis_password") /\ secrets["redis_password"] # "short"
  BY DEF Accepted, ValidateDevSecrets
<1> QED BY <1>1 DEF Starts, ReadSimpleSecret

LEMMA ProxyHost ==
  ASSUME NEW n \in {"PUBLIC_API_HOST", "ADMIN_HOST"}, value(env, n, Localhost)[1] \notin NonDNS, ~Altered(n)
  PROVE  validate_host(n)
<1>1. Default[n] = Localhost
  BY DefaultURLs
<1>2. Localhost[1] \notin NonDNS
  BY NonDNSAssumption DEF Localhost
<1>3. interpolate(n) = IF value(env, n, Empty) = Empty THEN Default[n] ELSE value(env, n, Empty)
  BY InterpolatedAsWritten DEF Altered, FreeText
<1> QED BY <1>1, <1>2, <1>3 DEF validate_host, value

\* The proxy's own checks of its TLS settings, when the mode is one it takes.
LEMMA ProxyTLS ==
  ASSUME Accepted, Unaltered("proxy"), profile \in {"core", "cloudflare"}, ~KnownRefusal("proxy")
  PROVE  /\ interpolate("TLS_MODE") \in {"disabled", "acme"}
         /\ interpolate("TLS_MODE") = "acme" =>
              /\ interpolate("ACME_DNS_PROVIDER") = "cloudflare"
              /\ interpolate("ACME_EMAIL") \notin {Empty, Malformed}
<1> DEFINE v == ValuesForProcess(Judged, "deployment")
           mode == value(env, "TLS_MODE", "disabled")
<1>1. /\ mode # "files"
      /\ profile = "core" => mode = "disabled"
  BY DEF KnownRefusal
<1>2. \A n \in Reads("proxy") : ~Altered(n)
  BY DEF Unaltered
<1>3. \A n \in {"ACME_DNS_PROVIDER", "ACME_EMAIL"} :
        interpolate(n) = IF value(env, n, Empty) = Empty THEN Default[n] ELSE value(env, n, Empty)
  BY <1>2, InterpolatedAsWritten DEF Reads, Services, Altered, FreeText
<1>4. mode \in {"disabled", "acme"} =>
        interpolate("TLS_MODE") =
          IF value(env, "TLS_MODE", Empty) = Empty THEN Default["TLS_MODE"] ELSE value(env, "TLS_MODE", Empty)
  <2>1. "TLS_MODE" \in (DOMAIN Default) \ FreeText
    BY DEF Default, FreeText
  <2>2. "TLS_MODE" \in DOMAIN reread => mode = Malformed
    BY <2>1 DEF Unaltered, RereadInv, Foreign, value
  <2>3. Malformed \notin {"disabled", "acme"}
    BY TextsAssumption DEF Texts
  <2>4. "TLS_MODE" \notin DOMAIN shell
    BY <1>2 DEF Reads, Services, Altered
  <2> QED BY <2>2, <2>3, <2>4, InterpolatedAsWritten
<1>5. mode = "disabled" => interpolate("TLS_MODE") = "disabled"
  BY <1>4, DefaultTexts DEF value
<1>6. CASE mode = "disabled"
  BY <1>5, <1>6
<1>7. CASE mode # "disabled"
  <2>1. profile # "core"
    BY <1>1, <1>7
  <2>2. \A n \in {"TLS_MODE", "ACME_EMAIL", "ACME_DNS_PROVIDER", "ENABLE_CLOUDFLARE_TUNNEL"} :
          \A x : value(v, n, x) = value(env, n, x)
    <3>1. {"TLS_MODE", "ACME_EMAIL", "ACME_DNS_PROVIDER", "ENABLE_CLOUDFLARE_TUNNEL"} \subseteq Consumed("deployment")
      BY ConsumedByDeployment DEF DeploymentOnly
    <3>2. \A n \in {"TLS_MODE", "ACME_EMAIL", "ACME_DNS_PROVIDER", "ENABLE_CLOUDFLARE_TUNNEL"} :
            n \notin SecretSettings /\ n \notin {"ACME_DNS_API_TOKEN_FILE", "CLOUDFLARE_TUNNEL_CREDENTIALS_FILE"}
      BY SecretSettingsNames
    <3> QED BY <2>1, <3>1, <3>2, DeploymentReads
  <2>3. parseTLS(v, PreflightFiles) /\ parseCloudflare(v, PreflightFiles)
    BY DeploymentParsed DEF ParseDeployment
  <2>4. mode = "acme"
    BY <1>1, <1>7, <2>2, <2>3 DEF parseTLS
  <2>5. value(env, "ENABLE_CLOUDFLARE_TUNNEL", FALSE)
    BY <2>4 DEF KnownRefusal
  <2>6. value(env, "ACME_DNS_PROVIDER", Empty) = "cloudflare"
    <3>1. \A x : value(v, "ENABLE_CLOUDFLARE_TUNNEL", x) = value(env, "ENABLE_CLOUDFLARE_TUNNEL", x)
      BY <2>2
    <3>2. value(v, "ENABLE_CLOUDFLARE_TUNNEL", FALSE)
      BY <2>5, <3>1, Zenon
    <3>3. value(v, "ACME_DNS_PROVIDER", Empty) = "cloudflare"
      BY <2>3, <3>2 DEF parseCloudflare
    <3> QED BY <2>2, <3>3
  <2>7. value(env, "ACME_EMAIL", Empty) \notin {Empty, Malformed}
    BY <2>2, <2>3, <2>4 DEF parseTLS, clean
  <2>8. interpolate("TLS_MODE") \in {"disabled", "acme"}
    BY <1>4, <2>4, DefaultTexts DEF value
  <2>9. interpolate("ACME_DNS_PROVIDER") = "cloudflare" /\ interpolate("ACME_EMAIL") \notin {Empty, Malformed}
    BY <1>3, <2>6, <2>7, DefaultTexts
  <2> QED BY <2>8, <2>9
<1> QED BY <1>6, <1>7

LEMMA ProxyStarts ==
  ASSUME Accepted, Unaltered("proxy"), profile \in {"core", "cloudflare"}, ~KnownRefusal("proxy")
  PROVE  Starts("proxy")
<1>1. value(env, "PUBLIC_API_HOST", Localhost)[1] \notin NonDNS /\ value(env, "ADMIN_HOST", Localhost)[1] \notin NonDNS
  BY DEF KnownRefusal
<1>2. validate_host("PUBLIC_API_HOST") /\ validate_host("ADMIN_HOST")
  BY <1>1, ProxyHost DEF Unaltered, Reads, Services
<1> QED BY <1>2, ProxyTLS DEF Starts

\* For every environment file, every set of secrets and every host: what the
\* preflight accepts, the containers start from, but for the listed refusals
\* and the settings altered on the way to a container.
THEOREM AcceptedDeploymentsStart == Spec => []PreflightCovers
<1>1. DeploymentInv => PreflightCovers
  <2> SUFFICES ASSUME DeploymentInv, NEW c \in Components, status[c] = "refused", ~KnownRefusal(c),
                      \A n \in Reads(c) : ~Altered(n)
               PROVE  FALSE
    BY DEF PreflightCovers
  <2>1. Accepted /\ ~Starts(c) /\ profile \in {"core", "cloudflare"} /\ Unaltered(c)
    BY DecidedMeansAccepted DEF DeploymentInv, Unaltered
  <2>2. c \in {"gateway", "worker", "redis"} => FALSE
    BY <2>1, GatewayStarts, WorkerStarts, RedisServerStarts
  <2>3. c = "control-plane" => FALSE
    BY <2>1, ControlPlaneStarts DEF KnownRefusal
  <2>4. c \in {"postgres", "migrate"} => FALSE
    BY <2>1, PostgresStarts, MigrateStarts DEF KnownRefusal
  <2>5. c = "proxy" => FALSE
    BY <2>1, ProxyStarts
  <2> QED BY <2>2, <2>3, <2>4, <2>5 DEF Components, Services
<1> QED BY <1>1, DeploymentInvariance, PTL
=============================================================================
