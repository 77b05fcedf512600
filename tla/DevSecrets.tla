----------------------------- MODULE DevSecrets -----------------------------
(***************************************************************************)
(* config.GenerateDevSecrets (internal/config/devsecrets.go): runs of the  *)
(* generator that share one destination directory.  A run writes a fresh   *)
(* inventory into a temporary directory of its own, validates it, claims   *)
(* the destination with mkdir and moves the files over one rename at a     *)
(* time.  A run that finds the destination validates it and never writes.  *)
(* Any system call may fail, and a run may be killed between any two.      *)
(*                                                                         *)
(* A secret's value is the run that drew it: two runs never draw the same. *)
(* A later invocation is another member of Runs.                           *)
(***************************************************************************)
EXTENDS Integers, Sequences

CONSTANTS
  Runs,          \* invocations of the generator
  Files,         \* devSecretFiles
  WriteOrder,    \* the order in which a run creates the files
  RenameOrder,   \* the order of devSecretFiles, in which it publishes them
  RedisPassword, \* the two files whose contents must agree
  RedisURL,
  NoRun          \* the file does not exist

ASSUME FilesAssumption ==
  /\ Files # {}
  /\ WriteOrder \in Seq(Files) /\ {WriteOrder[i] : i \in 1..Len(WriteOrder)} = Files
  /\ RenameOrder \in Seq(Files) /\ {RenameOrder[i] : i \in 1..Len(RenameOrder)} = Files
  /\ RedisPassword \in Files /\ RedisURL \in Files

ASSUME NoRunAssumption == NoRun \notin Runs

VARIABLES
  pc,           \* where each run is
  next,         \* the index of the next file to write or to rename
  tempExists,   \* the run's temporary directory exists
  temp,         \* the files in it
  destExists,   \* the destination directory exists
  dest,         \* for each destination file the run that drew its value
  result,       \* what the run returned: nil or an error; "errorKept" is an
                \* error whose cleanup failed too
  faulty        \* some system call has failed, or some run was killed

vars == <<pc, next, tempExists, temp, destExists, dest, result, faulty>>
localVars == <<next, tempExists, temp>>
destVars == <<destExists, dest>>

Pcs == {"start", "listDest", "readDest", "makeTemp", "write", "validateTemp",
        "makeDest", "rename", "removeTemp", "cleanup", "done", "crashed"}

\* faulty only observes: no step reads it.
TypeOK ==
  /\ pc \in [Runs -> Pcs]
  /\ next \in [Runs -> Nat]
  /\ tempExists \in [Runs -> BOOLEAN]
  /\ temp \in [Runs -> SUBSET Files]
  /\ destExists \in BOOLEAN
  /\ dest \in [Files -> Runs \cup {NoRun}]
  /\ result \in [Runs -> {"none", "nil", "error", "errorKept"}]

Init ==
  /\ pc = [r \in Runs |-> "start"]
  /\ next = [r \in Runs |-> 1]
  /\ tempExists = [r \in Runs |-> FALSE]
  /\ temp = [r \in Runs |-> {}]
  /\ destExists = FALSE
  /\ dest = [f \in Files |-> NoRun]
  /\ result = [r \in Runs |-> "none"]
  /\ faulty = FALSE

-----------------------------------------------------------------------------

Goto(r, label) == pc' = [pc EXCEPT ![r] = label]

Return(r, value) ==
  /\ Goto(r, "done")
  /\ result' = [result EXCEPT ![r] = value]

\* An error after the temporary directory was made: the deferred cleanup runs.
FailsWithTemp(r) ==
  /\ Goto(r, "cleanup")
  /\ UNCHANGED <<localVars, destVars, result>>

DestComplete == \A f \in Files : dest[f] # NoRun

\* Lstat of the destination.
Inspect(r) ==
  /\ pc[r] = "start"
  /\ Goto(r, IF destExists THEN "listDest" ELSE "makeTemp")
  /\ UNCHANGED <<localVars, destVars, result>>

\* A bug: the names in the destination are not compared with the inventory.
ListDestAnything(r) ==
  /\ pc[r] = "listDest"
  /\ Goto(r, "readDest")
  /\ UNCHANGED <<localVars, destVars, result>>

\* ValidateDevSecrets on an existing destination: its exact inventory ...
ListDest(r) ==
  /\ pc[r] = "listDest"
  /\ \/ DestComplete /\ Goto(r, "readDest") /\ UNCHANGED result
     \/ ~DestComplete /\ Return(r, "error")
  /\ UNCHANGED <<localVars, destVars>>

\* ... and then its contents.  A file that a run has drawn is well formed; what
\* may still be wrong is that redis_url does not carry redis_password.
ContentsMatch == dest[RedisURL] = dest[RedisPassword]

ReadDest(r) ==
  /\ pc[r] = "readDest"
  /\ Return(r, IF ContentsMatch THEN "nil" ELSE "error")
  /\ UNCHANGED <<localVars, destVars>>

\* A failure before there is anything to clean up: the destination or its
\* parent cannot be inspected, read or written to.
FailsEarly(r) ==
  /\ pc[r] \in {"start", "listDest", "readDest", "makeTemp"}
  /\ Return(r, "error")
  /\ UNCHANGED <<localVars, destVars>>

MakeTemp(r) ==
  /\ pc[r] = "makeTemp"
  /\ tempExists' = [tempExists EXCEPT ![r] = TRUE]
  /\ Goto(r, "write")
  /\ UNCHANGED <<next, temp, destVars, result>>

\* writeNewSecret.  After the last file the temporary inventory is validated.
WriteSecret(r) ==
  /\ pc[r] = "write"
  /\ temp' = [temp EXCEPT ![r] = temp[r] \cup {WriteOrder[next[r]]}]
  /\ next' = [next EXCEPT ![r] = next[r] + 1]
  /\ Goto(r, IF next[r] = Len(WriteOrder) THEN "validateTemp" ELSE "write")
  /\ UNCHANGED <<tempExists, destVars, result>>

ValidateTemp(r) ==
  /\ pc[r] = "validateTemp"
  /\ Goto(r, IF temp[r] = Files THEN "makeDest" ELSE "cleanup")
  /\ UNCHANGED <<localVars, destVars, result>>

\* A bug: an existing destination is accepted, as os.MkdirAll would.
MakeDestAnyway(r) ==
  /\ pc[r] = "makeDest"
  /\ destExists' = TRUE
  /\ next' = [next EXCEPT ![r] = 1]
  /\ Goto(r, "rename")
  /\ UNCHANGED <<tempExists, temp, dest, result>>

\* os.Mkdir claims the destination, or fails because another run has.
MakeDest(r) ==
  /\ pc[r] = "makeDest"
  /\ \/ /\ ~destExists
        /\ destExists' = TRUE
        /\ next' = [next EXCEPT ![r] = 1]
        /\ Goto(r, "rename")
     \/ /\ destExists
        /\ Goto(r, "cleanup")
        /\ UNCHANGED <<destExists, next>>
  /\ UNCHANGED <<tempExists, temp, dest, result>>

\* A bug: the last file is not moved.
RenameSecretStopsEarly(r) ==
  /\ pc[r] = "rename"
  /\ dest' = [dest EXCEPT ![RenameOrder[next[r]]] = r]
  /\ temp' = [temp EXCEPT ![r] = temp[r] \ {RenameOrder[next[r]]}]
  /\ next' = [next EXCEPT ![r] = next[r] + 1]
  /\ Goto(r, IF next[r] + 1 = Len(RenameOrder) THEN "removeTemp" ELSE "rename")
  /\ UNCHANGED <<tempExists, destExists, result>>

\* os.Rename moves one file, replacing what is there.
RenameSecret(r) ==
  /\ pc[r] = "rename"
  /\ dest' = [dest EXCEPT ![RenameOrder[next[r]]] = r]
  /\ temp' = [temp EXCEPT ![r] = temp[r] \ {RenameOrder[next[r]]}]
  /\ next' = [next EXCEPT ![r] = next[r] + 1]
  /\ Goto(r, IF next[r] = Len(RenameOrder) THEN "removeTemp" ELSE "rename")
  /\ UNCHANGED <<tempExists, destExists, result>>

\* os.Remove of the temporary directory, which must be empty by now.
RemoveTemp(r) ==
  /\ pc[r] = "removeTemp"
  /\ \/ /\ temp[r] = {}
        /\ tempExists' = [tempExists EXCEPT ![r] = FALSE]
        /\ Return(r, "nil")
     \/ /\ temp[r] # {}
        /\ Goto(r, "cleanup")
        /\ UNCHANGED <<tempExists, result>>
  /\ UNCHANGED <<next, temp, destVars>>

FailsLate(r) ==
  /\ pc[r] \in {"write", "validateTemp", "makeDest", "rename", "removeTemp"}
  /\ FailsWithTemp(r)

\* A bug: keep is set before the inventory is published, so that the runs that
\* lose the race for the destination leave their secrets behind.
CleanupSkipped(r) ==
  /\ pc[r] = "cleanup"
  /\ Return(r, "error")
  /\ UNCHANGED <<localVars, destVars>>

\* The deferred RemoveAll of the temporary directory, whose error is dropped.
Cleanup(r) ==
  /\ pc[r] = "cleanup"
  /\ tempExists' = [tempExists EXCEPT ![r] = FALSE]
  /\ temp' = [temp EXCEPT ![r] = {}]
  /\ Return(r, "error")
  /\ UNCHANGED <<next, destVars>>

CleanupFails(r) ==
  /\ pc[r] = "cleanup"
  /\ Return(r, "errorKept")
  /\ UNCHANGED <<localVars, destVars>>

\* The run is killed: its deferred cleanup does not run.
Crash(r) ==
  /\ pc[r] \notin {"done", "crashed"}
  /\ Goto(r, "crashed")
  /\ UNCHANGED <<localVars, destVars, result>>

-----------------------------------------------------------------------------

Step(r) ==
  /\ \/ Inspect(r) \/ ListDest(r) \/ ReadDest(r)
     \/ MakeTemp(r) \/ WriteSecret(r) \/ ValidateTemp(r)
     \/ MakeDest(r) \/ RenameSecret(r) \/ RemoveTemp(r) \/ Cleanup(r)
  /\ UNCHANGED faulty

Fault(r) ==
  /\ FailsEarly(r) \/ FailsLate(r) \/ CleanupFails(r) \/ Crash(r)
  /\ faulty' = TRUE

AllOver == (\A r \in Runs : pc[r] \in {"done", "crashed"}) /\ UNCHANGED vars

Next == (\E r \in Runs : Step(r) \/ Fault(r)) \/ AllOver

\* A run that has begun goes on, unless it is killed.
Spec == Init /\ [][Next]_vars /\ \A r \in Runs : WF_vars(Step(r))

-----------------------------------------------------------------------------
(* Properties *)

\* The destination never mixes the secrets of two runs (devsecrets.go:164-171):
\* mkdir lets one run in, ever, whatever the others do and wherever they die.
OneRunsInventory ==
  \A f, g \in Files : dest[f] # NoRun /\ dest[g] # NoRun => dest[f] = dest[g]

\* A run reports success (devsecrets.go:58,176) only over a complete inventory:
\* one that another run was still moving, or died moving, never passes.
SuccessMeansComplete ==
  (\E r \in Runs : result[r] = "nil") => DestComplete

\* A published secret is never replaced (devsecrets.go:168): a rename would do
\* it silently.
PublishedStays ==
  [][\A f \in Files : dest[f] # NoRun => dest'[f] = dest[f]]_vars

\* No run leaves secrets in a temporary directory (devsecrets.go:72-76,172): one
\* that succeeds never does, one that loses the race for the destination or
\* fails later only when the removal fails too.
NoTempLeft ==
  \A r \in Runs : pc[r] = "done" /\ tempExists[r] => result[r] = "errorKept"

\* Without faults, first runs that race for the destination do not all fail
\* (devsecrets.go:54-58,164): one of them publishes it.
SomeRunSucceeds == <>(faulty \/ \E r \in Runs : result[r] = "nil")

-----------------------------------------------------------------------------
(* The inductive invariant *)

\* Only the run that made the destination moves files into it, and what is there
\* is a prefix of the publication order.
RenameInv ==
  /\ \A r, s \in Runs : pc[r] = "rename" /\ pc[s] = "rename" => r = s
  /\ \A r \in Runs : pc[r] = "rename" =>
       /\ destExists
       /\ next[r] \in 1..Len(RenameOrder)
       /\ \A f \in Files : dest[f] \in {NoRun, r}
       /\ \A i \in 1..(next[r] - 1) : dest[RenameOrder[i]] = r
  /\ \A r \in Runs : pc[r] = "write" => next[r] \in 1..Len(WriteOrder)
  /\ \A r \in Runs : pc[r] \in {"makeTemp", "start"} => next[r] = 1
  /\ ~destExists => \A f \in Files : dest[f] = NoRun

\* Whoever has validated or published the inventory has seen all of it.
CompleteInv ==
  \A r \in Runs : pc[r] \in {"readDest", "removeTemp"} \/ result[r] = "nil" => DestComplete

\* A run that has no temporary directory to lose, and one that returned success.
TempInv ==
  \A r \in Runs :
    /\ pc[r] \in {"start", "listDest", "readDest", "makeTemp"} => ~tempExists[r]
    /\ pc[r] = "done" /\ tempExists[r] => result[r] = "errorKept"
    /\ result[r] # "none" => pc[r] = "done"

\* All of it: the types, the run that owns the destination, what the others may
\* conclude from it, and who still has a temporary directory
\* (devsecrets.go:50-177).
Inv == TypeOK /\ OneRunsInventory /\ RenameInv /\ CompleteInv /\ TempInv
=============================================================================
