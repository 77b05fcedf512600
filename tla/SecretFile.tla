----------------------------- MODULE SecretFile -----------------------------
(***************************************************************************)
(* Reading one secret file (internal/config/secret.go: openProtectedFile,  *)
(* validateProtectedFile, readSecretBytes) while something else, such as   *)
(* the operator or a publisher, renames files over the path, removes it or *)
(* changes modes.  A file is an inode; the path names one or none.  The    *)
(* number of an inode is not given to another file while this read lasts.  *)
(*                                                                         *)
(* A content is a sequence of characters: "x" any printable one, "s" other *)
(* white space, "n" line feed, "r" carriage return, "u" no valid UTF-8.    *)
(***************************************************************************)
EXTENDS Integers, Sequences

CONSTANTS
  Inodes,         \* the files that may come to stand at the path
  Kinds,          \* for each inode "regular", "directory", or the inode a
                  \* symbolic link leads to
  Contents,       \* the contents files may have
  maximumBytes,   \* the reader's limit
  MaxChanges,     \* how often the path or a mode changes during the read
  None            \* no file

VARIABLES
  path,       \* the inode at the path, or None
  private,    \* the inodes whose mode denies group and others
  content,    \* the content of each inode
  changes,    \* changes made so far
  pc,         \* where the reader is
  linkInfo,   \* what Lstat returned: an inode and whether it was private
  file,       \* the inode that is open
  result      \* the bytes returned, or None

fileVars == <<path, private, content, changes, pc, linkInfo, file, result>>
fsVars == <<path, private, content, changes>>

Characters == {"x", "s", "n", "r", "u"}

ASSUME KindsAssumption ==
  /\ maximumBytes \in Nat \ {0}
  /\ {None, "regular", "directory"} \cap Inodes = {}
  /\ \A i \in Inodes : Kinds[i] \in {"regular", "directory"} \cup Inodes
  /\ Contents \subseteq Seq(Characters) /\ None \notin Seq(Characters)

Symlink(i) == Kinds[i] \in Inodes

FileInit ==
  /\ path \in Inodes \cup {None}
  /\ private \in SUBSET Inodes
  /\ content \in [Inodes -> Contents]
  /\ changes = 0
  /\ pc = "lstat"
  /\ linkInfo = [inode |-> None, private |-> FALSE]
  /\ file = None
  /\ result = None

Refuse == pc' = "done" /\ file' = None /\ result' = None

\* os.Lstat and the checks of what it returned.
Lstat ==
  /\ pc = "lstat"
  /\ linkInfo' = [inode |-> path, private |-> path \in private]
  /\ IF path # None /\ Kinds[path] = "regular" /\ path \in private
     THEN pc' = "open" /\ UNCHANGED <<file, result>>
     ELSE Refuse
  /\ UNCHANGED fsVars

\* os.Open follows a symbolic link.
Open ==
  /\ pc = "open"
  /\ IF path = None THEN Refuse
     ELSE /\ file' = IF Symlink(path) THEN Kinds[path] ELSE path
          /\ pc' = "stat"
          /\ UNCHANGED result
  /\ UNCHANGED <<fsVars, linkInfo>>

\* A bug: the opened file is not compared with the one that was checked.
StatOnly ==
  /\ pc = "stat"
  /\ pc' = "read"
  /\ UNCHANGED <<fsVars, linkInfo, file, result>>

\* file.Stat and os.SameFile.
Stat ==
  /\ pc = "stat"
  /\ IF file = linkInfo.inode THEN pc' = "read" /\ UNCHANGED <<file, result>> ELSE Refuse
  /\ UNCHANGED <<fsVars, linkInfo>>

Space == {"s", "n", "r"}

\* A bug: a carriage return alone is taken for a line ending.
CutLineEndOrReturn(b) ==
  LET n == Len(b)
  IN IF n >= 2 /\ SubSeq(b, n - 1, n) = <<"r", "n">> THEN SubSeq(b, 1, n - 2)
     ELSE IF n >= 1 /\ b[n] \in {"n", "r"} THEN SubSeq(b, 1, n - 1)
     ELSE b

\* bytes.HasSuffix and the two ways to cut a line ending.
CutLineEnd(b) ==
  LET n == Len(b)
  IN IF n >= 2 /\ SubSeq(b, n - 1, n) = <<"r", "n">> THEN SubSeq(b, 1, n - 2)
     ELSE IF n >= 1 /\ b[n] = "n" THEN SubSeq(b, 1, n - 1)
     ELSE b

\* readSecretBytes, from io.ReadAll on.
Read ==
  /\ pc = "read"
  /\ LET b    == content[file]
         body == CutLineEnd(b)
     IN IF /\ Kinds[file] = "regular"
           /\ Len(b) <= maximumBytes
           /\ \A i \in DOMAIN b : b[i] # "u"
           /\ body # <<>>
           /\ body[1] \notin Space /\ body[Len(body)] \notin Space
        THEN result' = body
        ELSE result' = None
  /\ pc' = "done"
  /\ UNCHANGED <<fsVars, linkInfo, file>>

(* What happens to the file system meanwhile. *)

Rename(i) == path' = i /\ UNCHANGED <<private, content>>

Chmod(i) ==
  /\ private' \in {private \cup {i}, private \ {i}}
  /\ private' # private
  /\ UNCHANGED <<path, content>>

Change ==
  /\ pc # "done"
  /\ changes < MaxChanges
  /\ changes' = changes + 1
  /\ \/ \E i \in Inodes \cup {None} : i # path /\ Rename(i)
     \/ \E i \in Inodes : Chmod(i)
  /\ UNCHANGED <<pc, linkInfo, file, result>>

FileNext == Lstat \/ Open \/ Stat \/ Read \/ Change

(* Properties *)

\* The file that was checked is the file that is read, whatever was renamed
\* over the path in between: bytes are returned only of a regular file that
\* stood at the path itself, with a private mode, when Lstat looked.
ReadWhatWasChecked ==
  result # None =>
    /\ linkInfo.private
    /\ Kinds[linkInfo.inode] = "regular"
    /\ result = CutLineEnd(content[linkInfo.inode])

\* The reference for what readSecretBytes returns: the file is the secret and
\* at most one line ending, and the secret has no white space around it.  And
\* a file that is left alone and holds a secret within the limit, line ending
\* included, is read (secret.go:243-277).
LineEnds == {<<>>, <<"n">>, <<"r", "n">>}
ReturnsTheSecret ==
  /\ result # None =>
       /\ \E e \in LineEnds : result \o e = content[file]
       /\ Len(result) \in 1 .. maximumBytes
       /\ {result[1], result[Len(result)]} \cap Space = {}
  /\ pc = "done" /\ changes = 0 /\ path \in private /\ Kinds[path] = "regular" =>
       \A e \in LineEnds : \A n \in 1 .. (maximumBytes - Len(e)) :
         content[path] = [i \in 1 .. n |-> "x"] \o e => result = [i \in 1 .. n |-> "x"]
=============================================================================
