-------------------------- MODULE DevSecrets_proofs --------------------------
(***************************************************************************)
(* Proofs about GenerateDevSecrets for any number of runs, any inventory   *)
(* and any faults.  The argument: os.Mkdir lets one run past "makeDest",   *)
(* ever; so while a run renames, every file in the destination is its own, *)
(* and what it has moved is a prefix of RenameOrder.                       *)
(***************************************************************************)
EXTENDS DevSecrets, TLAPS

\* RenameOrder and WriteOrder name at least one file each, and only files.
LEMMA OrderFacts ==
  /\ Len(RenameOrder) \in Nat /\ Len(RenameOrder) >= 1
  /\ Len(WriteOrder) \in Nat /\ Len(WriteOrder) >= 1
  /\ \A i \in 1..Len(RenameOrder) : RenameOrder[i] \in Files
  /\ \A i \in 1..Len(WriteOrder) : WriteOrder[i] \in Files
  /\ \A f \in Files : \E i \in 1..Len(RenameOrder) : RenameOrder[i] = f
<1>0. RenameOrder \in Seq(Files) /\ WriteOrder \in Seq(Files)
  BY FilesAssumption
<1>1. Len(RenameOrder) \in Nat /\ Len(WriteOrder) \in Nat
  BY <1>0
<1>2. \A f \in Files : \E i \in 1..Len(RenameOrder) : RenameOrder[i] = f
  BY FilesAssumption
<1>3. \A f \in Files : \E i \in 1..Len(WriteOrder) : WriteOrder[i] = f
  BY FilesAssumption
<1>4. PICK f \in Files : TRUE
  BY FilesAssumption
<1>5. Len(RenameOrder) >= 1
  BY <1>1, <1>2, <1>4
<1>6. Len(WriteOrder) >= 1
  BY <1>1, <1>3, <1>4
<1>7. \A i \in 1..Len(RenameOrder) : RenameOrder[i] \in Files
  BY FilesAssumption
<1>8. \A i \in 1..Len(WriteOrder) : WriteOrder[i] \in Files
  BY FilesAssumption
<1> QED BY <1>1, <1>2, <1>5, <1>6, <1>7, <1>8

\* The generator starts with no destination and no run under way.
LEMMA InitInv == Init => Inv
<1> SUFFICES ASSUME Init PROVE Inv
  OBVIOUS
<1>1. TypeOK
  BY DEF Init, TypeOK, Pcs
<1>2. OneRunsInventory /\ CompleteInv
  BY DEF Init, OneRunsInventory, CompleteInv
<1>3. RenameInv
  BY DEF Init, RenameInv
<1>4. TempInv
  BY DEF Init, TempInv
<1> QED BY <1>1, <1>2, <1>3, <1>4 DEF Inv

\* A run that only moves on, to no place where it writes or renames, leaves the
\* owner of the destination alone.
LEMMA MovesOn ==
  ASSUME Inv, NEW r \in Runs, UNCHANGED <<next, destVars>>,
         pc'[r] \notin {"rename", "write", "makeTemp", "start"},
         \A s \in Runs : s # r => pc'[s] = pc[s]
  PROVE  RenameInv'
<1>1. next' = next /\ dest' = dest /\ destExists' = destExists
  BY DEF destVars
<1>2. \A s \in Runs : pc'[s] \in {"rename", "write", "makeTemp", "start"} => pc'[s] = pc[s]
  OBVIOUS
<1> QED BY <1>1, <1>2 DEF Inv, RenameInv

\* The Lstat of the destination decides which way a run goes (devsecrets.go).
LEMMA InspectInv == ASSUME Inv, NEW r \in Runs, Inspect(r) PROVE Inv'
<1> USE DEF Inv, TypeOK
<1>1. TypeOK'
  BY DEF Inspect, Goto, localVars, destVars, Pcs
<1>2. OneRunsInventory'
  BY DEF Inspect, Goto, localVars, destVars, OneRunsInventory
<1>3. RenameInv'
  BY DEF Inspect, Goto, localVars, destVars, RenameInv
<1>4. CompleteInv'
  BY DEF Inspect, Goto, localVars, destVars, CompleteInv, DestComplete
<1>5. TempInv'
  BY DEF Inspect, Goto, localVars, destVars, TempInv
<1> QED BY <1>1, <1>2, <1>3, <1>4, <1>5

\* A listing of the destination that finds a file missing ends the run (devsecrets.go).
LEMMA ListDestInv == ASSUME Inv, NEW r \in Runs, ListDest(r) PROVE Inv'
<1> USE DEF Inv, TypeOK
<1>1. TypeOK'
  BY DEF ListDest, Goto, localVars, destVars, Return, DestComplete, Pcs
<1>2. OneRunsInventory'
  BY DEF ListDest, Goto, localVars, destVars, Return, DestComplete, OneRunsInventory
<1>3. RenameInv'
  <2>1. UNCHANGED <<next, destVars>>
    BY DEF ListDest, Goto, localVars, destVars, Return
  <2>2. /\ pc'[r] \notin {"rename", "write", "makeTemp", "start"}
        /\ \A s \in Runs : s # r => pc'[s] = pc[s]
    BY DEF ListDest, Goto, localVars, destVars, Return
  <2> QED BY <2>1, <2>2, MovesOn
<1>4. CompleteInv'
  <2>1. DestComplete' <=> DestComplete
    BY DEF ListDest, Goto, localVars, destVars, Return, DestComplete
  <2> QED BY <2>1 DEF ListDest, Goto, localVars, destVars, Return, CompleteInv
<1>5. TempInv'
  BY DEF ListDest, Goto, localVars, destVars, Return, DestComplete, TempInv
<1> QED BY <1>1, <1>2, <1>3, <1>4, <1>5

\* Success over an existing destination follows a complete listing (devsecrets.go).
LEMMA ReadDestInv == ASSUME Inv, NEW r \in Runs, ReadDest(r) PROVE Inv'
<1> USE DEF Inv, TypeOK
<1>1. TypeOK'
  BY DEF ReadDest, Goto, localVars, destVars, Return, Pcs
<1>2. OneRunsInventory'
  BY DEF ReadDest, Goto, localVars, destVars, Return, OneRunsInventory
<1>3. RenameInv'
  <2>1. UNCHANGED <<next, destVars>>
    BY DEF ReadDest, Goto, localVars, destVars, Return
  <2>2. /\ pc'[r] \notin {"rename", "write", "makeTemp", "start"}
        /\ \A s \in Runs : s # r => pc'[s] = pc[s]
    BY DEF ReadDest, Goto, localVars, destVars, Return
  <2> QED BY <2>1, <2>2, MovesOn
<1>4. CompleteInv'
  <2>1. DestComplete' <=> DestComplete
    BY DEF ReadDest, Goto, localVars, destVars, Return, DestComplete
  <2> QED BY <2>1 DEF ReadDest, Goto, localVars, destVars, Return, CompleteInv
<1>5. TempInv'
  BY DEF ReadDest, Goto, localVars, destVars, Return, TempInv
<1> QED BY <1>1, <1>2, <1>3, <1>4, <1>5

\* A failure before the temporary directory was made (devsecrets.go).
LEMMA FailsEarlyInv == ASSUME Inv, NEW r \in Runs, FailsEarly(r) PROVE Inv'
<1> USE DEF Inv, TypeOK
<1>1. TypeOK'
  BY DEF FailsEarly, Goto, localVars, destVars, Return, Pcs
<1>2. OneRunsInventory'
  BY DEF FailsEarly, Goto, localVars, destVars, Return, OneRunsInventory
<1>3. RenameInv'
  <2>1. UNCHANGED <<next, destVars>>
    BY DEF FailsEarly, Goto, localVars, destVars, Return
  <2>2. /\ pc'[r] \notin {"rename", "write", "makeTemp", "start"}
        /\ \A s \in Runs : s # r => pc'[s] = pc[s]
    BY DEF FailsEarly, Goto, localVars, destVars, Return
  <2> QED BY <2>1, <2>2, MovesOn
<1>4. CompleteInv'
  BY DEF FailsEarly, Goto, localVars, destVars, Return, CompleteInv, DestComplete
<1>5. TempInv'
  BY DEF FailsEarly, Goto, localVars, destVars, Return, TempInv
<1> QED BY <1>1, <1>2, <1>3, <1>4, <1>5

\* os.MkdirTemp gives a run a directory of its own (devsecrets.go).
LEMMA MakeTempInv == ASSUME Inv, NEW r \in Runs, MakeTemp(r) PROVE Inv'
<1> USE DEF Inv, TypeOK
<1>1. TypeOK'
  BY DEF MakeTemp, Goto, localVars, destVars, Pcs
<1>2. OneRunsInventory'
  BY DEF MakeTemp, Goto, localVars, destVars, OneRunsInventory
<1>3. RenameInv'
  BY OrderFacts DEF MakeTemp, Goto, localVars, destVars, RenameInv
<1>4. CompleteInv'
  BY DEF MakeTemp, Goto, localVars, destVars, CompleteInv, DestComplete
<1>5. TempInv'
  BY DEF MakeTemp, Goto, localVars, destVars, TempInv
<1> QED BY <1>1, <1>2, <1>3, <1>4, <1>5

\* writeNewSecret only touches the temporary directory (devsecrets.go).
LEMMA WriteSecretInv == ASSUME Inv, NEW r \in Runs, WriteSecret(r) PROVE Inv'
<1> USE DEF Inv, TypeOK
<1>1. TypeOK'
  <2>1. next[r] \in 1..Len(WriteOrder)
    BY DEF WriteSecret, RenameInv
  <2>2. WriteOrder[next[r]] \in Files
    BY <2>1, OrderFacts
  <2> QED BY <2>1, <2>2 DEF WriteSecret, Goto, localVars, destVars, Pcs
<1>2. OneRunsInventory'
  BY DEF WriteSecret, Goto, localVars, destVars, OneRunsInventory
<1>3. RenameInv'
  BY OrderFacts DEF WriteSecret, Goto, localVars, destVars, RenameInv
<1>4. CompleteInv'
  BY DEF WriteSecret, Goto, localVars, destVars, CompleteInv, DestComplete
<1>5. TempInv'
  BY DEF WriteSecret, Goto, localVars, destVars, TempInv
<1> QED BY <1>1, <1>2, <1>3, <1>4, <1>5

\* ValidateDevSecrets on the temporary directory (devsecrets.go).
LEMMA ValidateTempInv == ASSUME Inv, NEW r \in Runs, ValidateTemp(r) PROVE Inv'
<1> USE DEF Inv, TypeOK
<1>1. TypeOK'
  BY DEF ValidateTemp, Goto, localVars, destVars, Pcs
<1>2. OneRunsInventory'
  BY DEF ValidateTemp, Goto, localVars, destVars, OneRunsInventory
<1>3. RenameInv'
  <2>1. UNCHANGED <<next, destVars>>
    BY DEF ValidateTemp, Goto, localVars, destVars
  <2>2. /\ pc'[r] \notin {"rename", "write", "makeTemp", "start"}
        /\ \A s \in Runs : s # r => pc'[s] = pc[s]
    BY DEF ValidateTemp, Goto, localVars, destVars
  <2> QED BY <2>1, <2>2, MovesOn
<1>4. CompleteInv'
  BY DEF ValidateTemp, Goto, localVars, destVars, CompleteInv, DestComplete
<1>5. TempInv'
  BY DEF ValidateTemp, Goto, localVars, destVars, TempInv
<1> QED BY <1>1, <1>2, <1>3, <1>4, <1>5

\* os.Mkdir: whoever makes the destination finds it empty and alone (devsecrets.go).
LEMMA MakeDestInv == ASSUME Inv, NEW r \in Runs, MakeDest(r) PROVE Inv'
<1> USE DEF Inv, TypeOK
<1>1. TypeOK'
  <2>1. destExists' \in BOOLEAN
    BY DEF MakeDest
  <2> QED BY <2>1 DEF MakeDest, Goto, localVars, destVars, Pcs
<1>2. OneRunsInventory'
  BY DEF MakeDest, Goto, localVars, destVars, OneRunsInventory
<1>3. RenameInv'
  <2>1. CASE ~destExists
    <3>1. \A s \in Runs : s # r => pc[s] # "rename" /\ pc'[s] = pc[s] /\ next'[s] = next[s]
      BY <2>1 DEF MakeDest, Goto, localVars, destVars, RenameInv
    <3>2. pc'[r] = "rename" /\ next'[r] = 1 /\ destExists' /\ dest' = dest
      BY <2>1 DEF MakeDest, Goto, localVars, destVars
    <3>3. \A f \in Files : dest[f] = NoRun
      BY <2>1 DEF RenameInv
    <3>4. \A s, t \in Runs : pc'[s] = "rename" /\ pc'[t] = "rename" => s = t
      BY <3>1
    <3>5. \A s \in Runs : pc'[s] = "rename" =>
            /\ destExists'
            /\ next'[s] \in 1..Len(RenameOrder)
            /\ \A f \in Files : dest'[f] \in {NoRun, s}
            /\ \A i \in 1..(next'[s] - 1) : dest'[RenameOrder[i]] = s
      <4> SUFFICES ASSUME NEW s \in Runs, pc'[s] = "rename"
                   PROVE  /\ destExists'
                          /\ next'[s] \in 1..Len(RenameOrder)
                          /\ \A f \in Files : dest'[f] \in {NoRun, s}
                          /\ \A i \in 1..(next'[s] - 1) : dest'[RenameOrder[i]] = s
        OBVIOUS
      <4>1. s = r
        BY <3>1
      <4> QED BY <4>1, <3>2, <3>3, OrderFacts
    <3>6. \A s \in Runs : pc'[s] = "write" => next'[s] \in 1..Len(WriteOrder)
      BY <3>1, <3>2 DEF RenameInv
    <3>7. \A s \in Runs : pc'[s] \in {"makeTemp", "start"} => next'[s] = 1
      BY <3>1, <3>2 DEF RenameInv
    <3> QED BY <3>2, <3>4, <3>5, <3>6, <3>7 DEF RenameInv
  <2>2. CASE destExists
    <3>1. destExists' /\ dest' = dest /\ next' = next
      BY <2>2 DEF MakeDest, Goto, localVars, destVars
    <3>2. pc' = [pc EXCEPT ![r] = "cleanup"]
      BY <2>2 DEF MakeDest, Goto, localVars, destVars
    <3> QED BY <2>2, <3>1, <3>2 DEF RenameInv
  <2> QED BY <2>1, <2>2
<1>4. CompleteInv'
  BY DEF MakeDest, Goto, localVars, destVars, CompleteInv, DestComplete
<1>5. TempInv'
  BY DEF MakeDest, Goto, localVars, destVars, TempInv
<1> QED BY <1>1, <1>2, <1>3, <1>4, <1>5

\* os.Rename extends the prefix the owner has published (devsecrets.go).
LEMMA RenameSecretInv == ASSUME Inv, NEW r \in Runs, RenameSecret(r) PROVE Inv'
<1> USE DEF Inv, TypeOK
<1>1. TypeOK'
  <2>1. next[r] \in 1..Len(RenameOrder)
    BY DEF RenameSecret, RenameInv
  <2>2. RenameOrder[next[r]] \in Files
    BY <2>1, OrderFacts
  <2> QED BY <2>1, <2>2 DEF RenameSecret, Goto, localVars, destVars, Pcs
<1>0. /\ \A s \in Runs : s # r => pc[s] # "rename" /\ pc'[s] = pc[s] /\ pc'[s] # "rename"
      /\ \A f \in Files : dest[f] \in {NoRun, r}
      /\ next[r] \in 1..Len(RenameOrder)
      /\ RenameOrder[next[r]] \in Files
      /\ \A i \in 1..(next[r] - 1) : dest[RenameOrder[i]] = r
      /\ destExists
  BY OrderFacts DEF RenameSecret, Goto, localVars, destVars, RenameInv
<1>a. \A f \in Files : dest'[f] \in {NoRun, r} /\ (dest[f] # NoRun => dest'[f] # NoRun)
  BY <1>0, NoRunAssumption DEF RenameSecret, Goto, localVars, destVars
<1>b. \A i \in 1..next[r] : dest'[RenameOrder[i]] = r
  <2>1. dest'[RenameOrder[next[r]]] = r
    BY <1>0 DEF RenameSecret, Goto, localVars, destVars
  <2>2. \A i \in 1..(next[r] - 1) : dest'[RenameOrder[i]] = r
    BY <1>0, OrderFacts DEF RenameSecret, Goto, localVars, destVars
  <2> QED BY <2>1, <2>2, <1>0
<1>2. OneRunsInventory'
  BY <1>a DEF OneRunsInventory
<1>3. RenameInv'
  BY <1>0, <1>a, <1>b, OrderFacts DEF RenameSecret, Goto, localVars, destVars, RenameInv
<1>4. CompleteInv'
  <2>1. ASSUME DestComplete PROVE DestComplete'
    BY <2>1, <1>a DEF DestComplete
  <2>2. CASE next[r] = Len(RenameOrder)
    <3>1. DestComplete'
      BY <2>2, <1>b, OrderFacts, NoRunAssumption DEF DestComplete
    <3> QED BY <3>1 DEF CompleteInv
  <2>3. CASE next[r] # Len(RenameOrder)
    BY <2>1, <2>3 DEF RenameSecret, Goto, localVars, destVars, CompleteInv
  <2> QED BY <2>2, <2>3
<1>5. TempInv'
  BY DEF RenameSecret, Goto, localVars, destVars, TempInv
<1> QED BY <1>1, <1>2, <1>3, <1>4, <1>5

\* os.Remove and the success of the run that published (devsecrets.go).
LEMMA RemoveTempInv == ASSUME Inv, NEW r \in Runs, RemoveTemp(r) PROVE Inv'
<1> USE DEF Inv, TypeOK
<1>1. TypeOK'
  BY DEF RemoveTemp, Goto, localVars, destVars, Return, Pcs
<1>2. OneRunsInventory'
  BY DEF RemoveTemp, Goto, localVars, destVars, Return, OneRunsInventory
<1>3. RenameInv'
  <2>1. UNCHANGED <<next, destVars>>
    BY DEF RemoveTemp, Goto, localVars, destVars, Return
  <2>2. /\ pc'[r] \notin {"rename", "write", "makeTemp", "start"}
        /\ \A s \in Runs : s # r => pc'[s] = pc[s]
    BY DEF RemoveTemp, Goto, localVars, destVars, Return
  <2> QED BY <2>1, <2>2, MovesOn
<1>4. CompleteInv'
  <2>1. DestComplete' <=> DestComplete
    BY DEF RemoveTemp, Goto, localVars, destVars, Return, DestComplete
  <2> QED BY <2>1 DEF RemoveTemp, Goto, localVars, destVars, Return, CompleteInv
<1>5. TempInv'
  BY DEF RemoveTemp, Goto, localVars, destVars, Return, TempInv
<1> QED BY <1>1, <1>2, <1>3, <1>4, <1>5

\* A failure after the temporary directory was made (devsecrets.go).
LEMMA FailsLateInv == ASSUME Inv, NEW r \in Runs, FailsLate(r) PROVE Inv'
<1> USE DEF Inv, TypeOK
<1>1. TypeOK'
  BY DEF FailsLate, Goto, localVars, destVars, FailsWithTemp, Pcs
<1>2. OneRunsInventory'
  BY DEF FailsLate, Goto, localVars, destVars, FailsWithTemp, OneRunsInventory
<1>3. RenameInv'
  <2>1. UNCHANGED <<next, destVars>>
    BY DEF FailsLate, Goto, localVars, destVars, FailsWithTemp
  <2>2. /\ pc'[r] \notin {"rename", "write", "makeTemp", "start"}
        /\ \A s \in Runs : s # r => pc'[s] = pc[s]
    BY DEF FailsLate, Goto, localVars, destVars, FailsWithTemp
  <2> QED BY <2>1, <2>2, MovesOn
<1>4. CompleteInv'
  BY DEF FailsLate, Goto, localVars, destVars, FailsWithTemp, CompleteInv, DestComplete
<1>5. TempInv'
  BY DEF FailsLate, Goto, localVars, destVars, FailsWithTemp, TempInv
<1> QED BY <1>1, <1>2, <1>3, <1>4, <1>5

\* The deferred os.RemoveAll (devsecrets.go).
LEMMA CleanupInv == ASSUME Inv, NEW r \in Runs, Cleanup(r) PROVE Inv'
<1> USE DEF Inv, TypeOK
<1>1. TypeOK'
  BY DEF Cleanup, Goto, localVars, destVars, Return, Pcs
<1>2. OneRunsInventory'
  BY DEF Cleanup, Goto, localVars, destVars, Return, OneRunsInventory
<1>3. RenameInv'
  <2>1. UNCHANGED <<next, destVars>>
    BY DEF Cleanup, Goto, localVars, destVars, Return
  <2>2. /\ pc'[r] \notin {"rename", "write", "makeTemp", "start"}
        /\ \A s \in Runs : s # r => pc'[s] = pc[s]
    BY DEF Cleanup, Goto, localVars, destVars, Return
  <2> QED BY <2>1, <2>2, MovesOn
<1>4. CompleteInv'
  BY DEF Cleanup, Goto, localVars, destVars, Return, CompleteInv, DestComplete
<1>5. TempInv'
  BY DEF Cleanup, Goto, localVars, destVars, Return, TempInv
<1> QED BY <1>1, <1>2, <1>3, <1>4, <1>5

\* The deferred os.RemoveAll, failing (devsecrets.go).
LEMMA CleanupFailsInv == ASSUME Inv, NEW r \in Runs, CleanupFails(r) PROVE Inv'
<1> USE DEF Inv, TypeOK
<1>1. TypeOK'
  BY DEF CleanupFails, Goto, localVars, destVars, Return, Pcs
<1>2. OneRunsInventory'
  BY DEF CleanupFails, Goto, localVars, destVars, Return, OneRunsInventory
<1>3. RenameInv'
  <2>1. UNCHANGED <<next, destVars>>
    BY DEF CleanupFails, Goto, localVars, destVars, Return
  <2>2. /\ pc'[r] \notin {"rename", "write", "makeTemp", "start"}
        /\ \A s \in Runs : s # r => pc'[s] = pc[s]
    BY DEF CleanupFails, Goto, localVars, destVars, Return
  <2> QED BY <2>1, <2>2, MovesOn
<1>4. CompleteInv'
  BY DEF CleanupFails, Goto, localVars, destVars, Return, CompleteInv, DestComplete
<1>5. TempInv'
  BY DEF CleanupFails, Goto, localVars, destVars, Return, TempInv
<1> QED BY <1>1, <1>2, <1>3, <1>4, <1>5

\* A killed run keeps what it has (devsecrets.go).
LEMMA CrashInv == ASSUME Inv, NEW r \in Runs, Crash(r) PROVE Inv'
<1> USE DEF Inv, TypeOK
<1>1. TypeOK'
  BY DEF Crash, Goto, localVars, destVars, Pcs
<1>2. OneRunsInventory'
  BY DEF Crash, Goto, localVars, destVars, OneRunsInventory
<1>3. RenameInv'
  <2>1. UNCHANGED <<next, destVars>>
    BY DEF Crash, Goto, localVars, destVars
  <2>2. /\ pc'[r] \notin {"rename", "write", "makeTemp", "start"}
        /\ \A s \in Runs : s # r => pc'[s] = pc[s]
    BY DEF Crash, Goto, localVars, destVars
  <2> QED BY <2>1, <2>2, MovesOn
<1>4. CompleteInv'
  BY DEF Crash, Goto, localVars, destVars, CompleteInv, DestComplete
<1>5. TempInv'
  BY DEF Crash, Goto, localVars, destVars, TempInv
<1> QED BY <1>1, <1>2, <1>3, <1>4, <1>5

\* Every step of the generator keeps the invariant.
LEMMA NextInv == Inv /\ [Next]_vars => Inv'
<1> SUFFICES ASSUME Inv, [Next]_vars PROVE Inv'
  OBVIOUS
<1>1. ASSUME NEW r \in Runs, Step(r) PROVE Inv'
  BY <1>1, InspectInv, ListDestInv, ReadDestInv, MakeTempInv, WriteSecretInv, ValidateTempInv,
     MakeDestInv, RenameSecretInv, RemoveTempInv, CleanupInv DEF Step
<1>2. ASSUME NEW r \in Runs, Fault(r) PROVE Inv'
  BY <1>2, FailsEarlyInv, FailsLateInv, CleanupFailsInv, CrashInv DEF Fault
<1>3. CASE UNCHANGED vars
  BY <1>3 DEF Inv, TypeOK, OneRunsInventory, RenameInv, CompleteInv, TempInv, DestComplete, vars
<1> QED BY <1>1, <1>2, <1>3 DEF Next, AllOver

\* The inductive invariant holds of every run of the generator
\* (devsecrets.go:50-177).
THEOREM Invariance == Spec => []Inv
<1> QED BY InitInv, NextInv, PTL DEF Spec

\* The destination never holds the secrets of two runs, however many race for it
\* and wherever they fail or die (devsecrets.go:164-171).
THEOREM NeverMixed == Spec => []OneRunsInventory
<1>1. Inv => OneRunsInventory
  BY DEF Inv
<1> QED BY <1>1, Invariance, PTL

\* A success is reported only over a complete inventory (devsecrets.go:58,176).
THEOREM SuccessIsComplete == Spec => []SuccessMeansComplete
<1>1. Inv => SuccessMeansComplete
  BY DEF Inv, CompleteInv, SuccessMeansComplete
<1> QED BY <1>1, Invariance, PTL

\* No secrets stay behind in a temporary directory, unless removing them failed
\* (devsecrets.go:72-76,172).
THEOREM TempIsRemoved == Spec => []NoTempLeft
<1>1. Inv => NoTempLeft
  BY DEF Inv, TempInv, NoTempLeft
<1> QED BY <1>1, Invariance, PTL

\* No published secret is ever replaced, although os.Rename would replace it
\* (devsecrets.go:168).
THEOREM PublishedIsFinal == Spec => PublishedStays
<1> DEFINE Stays == \A f \in Files : dest[f] # NoRun => dest'[f] = dest[f]
<1>1. Inv /\ [Next]_vars => [Stays]_vars
  <2> SUFFICES ASSUME Inv, Next PROVE Stays
    BY DEF vars
  <2>1. ASSUME NEW r \in Runs, RenameSecret(r) PROVE Stays
    <3>1. \A f \in Files : dest[f] \in {NoRun, r}
      BY <2>1 DEF Inv, RenameInv, RenameSecret
    <3> QED BY <2>1, <3>1 DEF RenameSecret, Inv, TypeOK
  <2>2. ASSUME NEW r \in Runs, Step(r), ~RenameSecret(r) PROVE dest' = dest
    BY <2>2 DEF Step, Inspect, ListDest, ReadDest, MakeTemp, WriteSecret, ValidateTemp, MakeDest,
       RemoveTemp, Cleanup, destVars
  <2>3. ASSUME NEW r \in Runs, Fault(r) PROVE dest' = dest
    BY <2>3 DEF Fault, FailsEarly, FailsLate, FailsWithTemp, CleanupFails, Crash, destVars
  <2>4. CASE AllOver
    BY <2>4 DEF AllOver, vars
  <2> QED BY <2>1, <2>2, <2>3, <2>4 DEF Next
<1> QED BY <1>1, Invariance, PTL DEF Spec, PublishedStays
=============================================================================
