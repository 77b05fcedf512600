------------------------- MODULE SharedConfig_proofs -------------------------
(***************************************************************************)
(* Proofs about shared-config-init for any number of runs, revisions and   *)
(* payloads.  The lock turns compare, install, link and swap into one      *)
(* operation; a crash leaves a prefix of it, and every prefix keeps both   *)
(* links pointing to installed releases.                                   *)
(***************************************************************************)
EXTENDS SharedConfig, TLAPS

\* The volume is empty and nobody holds the lock.
LEMMA InitInv == Init => Inv
<1> SUFFICES ASSUME Init PROVE Inv
  OBVIOUS
<1>1. TypeOK
  BY DEF Init, TypeOK
<1>2. LockInv /\ LinkInv /\ OkInv
  BY NoneAssumption DEF Init, LockInv, LinkInv, OkInv, CurrentResolves
<1> QED BY <1>1, <1>2 DEF Inv

\* A run reads its revision and its payload (compose.yaml:341-347).
LEMMA StartInv == ASSUME Inv, NEW r \in Runs, Start(r) PROVE Inv'
<1> USE DEF Inv, TypeOK
<1>1. TypeOK'
  BY DEF Start, Goto, inputs, volume, LockInv
<1>2. LockInv'
  BY NoneAssumption DEF Start, Goto, inputs, volume, LockInv
<1>3. LinkInv'
  BY NoneAssumption DEF Start, Goto, inputs, volume, LockInv, LinkInv, CurrentResolves
<1>4. OkInv'
  BY NoneAssumption DEF Start, Goto, inputs, volume, LockInv, OkInv
<1> QED BY <1>1, <1>2, <1>3, <1>4

\* flock -x gives the volume to one run (compose.yaml:349-350).
LEMMA AcquireLockInv == ASSUME Inv, NEW r \in Runs, AcquireLock(r) PROVE Inv'
<1> USE DEF Inv, TypeOK
<1>1. TypeOK'
  BY DEF AcquireLock, Goto, inputs, volume, LockInv
<1>2. LockInv'
  BY NoneAssumption DEF AcquireLock, Goto, inputs, volume, LockInv
<1>3. LinkInv'
  BY NoneAssumption DEF AcquireLock, Goto, inputs, volume, LockInv, LinkInv, CurrentResolves
<1>4. OkInv'
  BY NoneAssumption DEF AcquireLock, Goto, inputs, volume, LockInv, OkInv
<1> QED BY <1>1, <1>2, <1>3, <1>4

\* Staging touches nothing that others see (compose.yaml:351-357).
LEMMA StageInv == ASSUME Inv, NEW r \in Runs, Stage(r) PROVE Inv'
<1> USE DEF Inv, TypeOK
<1>1. TypeOK'
  BY DEF Stage, Goto, inputs, volume, LockInv
<1>2. LockInv'
  BY NoneAssumption DEF Stage, Goto, inputs, volume, LockInv
<1>3. LinkInv'
  BY NoneAssumption DEF Stage, Goto, inputs, volume, LockInv, LinkInv, CurrentResolves
<1>4. OkInv'
  BY NoneAssumption DEF Stage, Goto, inputs, volume, LockInv, OkInv
<1> QED BY <1>1, <1>2, <1>3, <1>4

\* An existing release must equal the candidate (compose.yaml:359-368).
LEMMA CompareInv == ASSUME Inv, NEW r \in Runs, Compare(r) PROVE Inv'
<1> USE DEF Inv, TypeOK
<1>1. TypeOK'
  BY DEF Compare, Goto, inputs, volume, Exits, LockInv
<1>2. LockInv'
  BY NoneAssumption DEF Compare, Goto, inputs, volume, Exits, LockInv
<1>3. LinkInv'
  BY NoneAssumption DEF Compare, Goto, inputs, volume, Exits, LockInv, LinkInv, CurrentResolves
<1>4. OkInv'
  BY NoneAssumption DEF Compare, Goto, inputs, volume, Exits, LockInv, OkInv
<1> QED BY <1>1, <1>2, <1>3, <1>4

\* The candidate becomes a release (compose.yaml:369-373).
LEMMA InstallInv == ASSUME Inv, NEW r \in Runs, Install(r) PROVE Inv'
<1> USE DEF Inv, TypeOK
<1>1. TypeOK'
  BY DEF Install, Exits, Goto, inputs, volume, LockInv
<1>2. LockInv'
  BY NoneAssumption DEF Install, Exits, Goto, inputs, volume, LockInv
<1>3. LinkInv'
  BY NoneAssumption DEF Install, Exits, Goto, inputs, volume, LockInv, LinkInv, CurrentResolves
<1>4. OkInv'
  BY NoneAssumption DEF Install, Exits, Goto, inputs, volume, LockInv, OkInv
<1> QED BY <1>1, <1>2, <1>3, <1>4

\* The new link points to the installed release (compose.yaml:374-375).
LEMMA LinkStepInv == ASSUME Inv, NEW r \in Runs, Link(r) PROVE Inv'
<1> USE DEF Inv, TypeOK
<1>1. TypeOK'
  BY DEF Link, Goto, inputs, volume, Exits, LockInv
<1>2. LockInv'
  BY NoneAssumption DEF Link, Goto, inputs, volume, Exits, LockInv
<1>3. LinkInv'
  BY NoneAssumption DEF Link, Goto, inputs, volume, Exits, LockInv, LinkInv, CurrentResolves
<1>4. OkInv'
  BY NoneAssumption DEF Link, Goto, inputs, volume, Exits, LockInv, OkInv
<1> QED BY <1>1, <1>2, <1>3, <1>4

\* The new link replaces current (compose.yaml:376).
LEMMA SwapInv == ASSUME Inv, NEW r \in Runs, Swap(r) PROVE Inv'
<1> USE DEF Inv, TypeOK
<1>1. TypeOK'
  BY DEF Swap, Goto, inputs, volume, Exits, LockInv
<1>2. LockInv'
  BY NoneAssumption DEF Swap, Goto, inputs, volume, Exits, LockInv
<1>3. LinkInv'
  BY NoneAssumption DEF Swap, Goto, inputs, volume, Exits, LockInv, LinkInv, CurrentResolves
<1>4. OkInv'
  BY NoneAssumption DEF Swap, Goto, inputs, volume, Exits, LockInv, OkInv
<1> QED BY <1>1, <1>2, <1>3, <1>4

\* A killed run loses the lock and leaves the rest.
LEMMA CrashInv == ASSUME Inv, NEW r \in Runs, Crash(r) PROVE Inv'
<1> USE DEF Inv, TypeOK
<1>1. TypeOK'
  BY DEF Crash, Goto, inputs, volume, LockInv
<1>2. LockInv'
  BY NoneAssumption DEF Crash, Goto, inputs, volume, LockInv
<1>3. LinkInv'
  BY NoneAssumption DEF Crash, Goto, inputs, volume, LockInv, LinkInv, CurrentResolves
<1>4. OkInv'
  BY NoneAssumption DEF Crash, Goto, inputs, volume, LockInv, OkInv
<1> QED BY <1>1, <1>2, <1>3, <1>4

\* Every step keeps the invariant.
LEMMA NextInv == Inv /\ [Next]_vars => Inv'
<1> SUFFICES ASSUME Inv, [Next]_vars PROVE Inv'
  OBVIOUS
<1>1. CASE UNCHANGED vars
  BY <1>1 DEF Inv, TypeOK, LockInv, LinkInv, OkInv, CurrentResolves, vars
<1> QED BY <1>1, StartInv, AcquireLockInv, StageInv, CompareInv, InstallInv, LinkStepInv,
        SwapInv, CrashInv DEF Next, AllOver

\* The inductive invariant holds of every behaviour (compose.yaml:349-376).
THEOREM Invariance == Spec => []Inv
<1> QED BY InitInv, NextInv, PTL DEF Spec

\* Readers of current always find an installed release (compose.yaml:359-376).
THEOREM ReadersFindARelease == Spec => []CurrentResolves
<1>1. Inv => CurrentResolves
  BY DEF Inv, LinkInv
<1> QED BY <1>1, Invariance, PTL

\* Two runs that succeeded with one revision published one payload: what the
\* first of them installed is still there when the other compares
\* (compose.yaml:359-376).
THEOREM RevisionsNameOnePayload == Spec => []OnePayloadPerRevision
<1>1. Inv => OnePayloadPerRevision
  BY DEF Inv, OkInv, OnePayloadPerRevision
<1> QED BY <1>1, Invariance, PTL

\* A run that succeeds has made its own revision and payload current
\* (compose.yaml:359-376).
THEOREM SuccessIsCurrent == Spec => OkMeansCurrent
<1> DEFINE Now == \A r \in Runs : exit[r] # "ok" /\ exit'[r] = "ok" =>
                    current' = revision[r] /\ releases'[revision[r]] = payload[r]
<1>1. Inv /\ [Next]_vars => [Now]_vars
  <2> SUFFICES ASSUME Inv, Next PROVE Now
    BY DEF vars
  <2>1. ASSUME NEW r \in Runs, Swap(r) PROVE Now
    BY <2>1 DEF Swap, Exits, Inv, TypeOK, LockInv
  <2>2. ASSUME NEW r \in Runs, Compare(r) \/ Install(r) \/ Link(r) PROVE Now
    BY <2>2 DEF Compare, Install, Link, Exits, Inv, TypeOK
  <2>3. CASE exit' = exit
    BY <2>3
  <2> QED BY <2>1, <2>2, <2>3 DEF Next, Start, AcquireLock, Stage, Crash, AllOver, vars
<1> QED BY <1>1, Invariance, PTL DEF Spec, OkMeansCurrent

\* Without crashes: .current.1 exists only between a run's ln and its mv, and a
\* run that failed met another payload, which is there for good.
NoCrashInv ==
  /\ nextLink # None => \E r \in Runs : pc[r] = "swap"
  /\ \A r \in Runs :
       /\ exit[r] # "none" => pc[r] = "done"
       /\ exit[r] = "failed" => releases[revision[r]] \notin {None, payload[r]}

\* The steps before the volume is touched (compose.yaml:341-357).
LEMMA NoCrashBefore ==
  ASSUME Inv, NoCrashInv, NEW r \in Runs, Start(r) \/ AcquireLock(r) \/ Stage(r)
  PROVE  NoCrashInv'
<1> USE DEF Inv, TypeOK, NoCrashInv, Goto, inputs, volume
<1>1. CASE Start(r)
  BY <1>1 DEF Start
<1>2. CASE AcquireLock(r)
  BY <1>2 DEF AcquireLock
<1>3. CASE Stage(r)
  BY <1>3 DEF Stage
<1> QED BY <1>1, <1>2, <1>3

\* Only a payload that differs from the release makes the comparison fail
\* (compose.yaml:359-368).
LEMMA NoCrashCompare == ASSUME Inv, NoCrashInv, NEW r \in Runs, Compare(r) PROVE NoCrashInv'
<1> USE DEF Inv, TypeOK, NoCrashInv, Goto, inputs, volume
<1>1. CASE UNCHANGED exit
  BY <1>1 DEF Compare, Exits
<1>2. CASE Exits(r, "failed") /\ releases[revision[r]] \notin {None, payload[r]}
  BY <1>2 DEF Compare, Exits
<1> QED BY <1>1, <1>2 DEF Compare

\* An installation fills a free name, so no failed run is affected
\* (compose.yaml:369-373).
LEMMA NoCrashInstall == ASSUME Inv, NoCrashInv, NEW r \in Runs, Install(r) PROVE NoCrashInv'
<1> USE DEF Inv, TypeOK, NoCrashInv, Goto, inputs, volume
<1>1. releases[revision[r]] = None /\ exit' = exit
  BY DEF Install, LockInv
<1>2. \A q \in Runs : exit[q] = "failed" => releases'[revision[q]] = releases[revision[q]]
  BY <1>1, NoneAssumption DEF Install, LockInv
<1> QED BY <1>1, <1>2 DEF Install

\* ln finds its name free: whoever made it would hold the lock
\* (compose.yaml:374-375).
LEMMA NoCrashLink == ASSUME Inv, NoCrashInv, NEW r \in Runs, Link(r) PROVE NoCrashInv'
<1> USE DEF Inv, TypeOK, NoCrashInv, Goto, inputs, volume
<1>1. nextLink = None
  BY NoneAssumption DEF Link, LockInv
<1>2. pc'[r] = "swap" /\ exit' = exit
  BY <1>1 DEF Link
<1> QED BY <1>1, <1>2 DEF Link

\* mv takes the name away again (compose.yaml:376).
LEMMA NoCrashSwap == ASSUME Inv, NoCrashInv, NEW r \in Runs, Swap(r) PROVE NoCrashInv'
<1> USE DEF Inv, TypeOK, NoCrashInv, Goto, inputs, volume
<1> QED BY DEF Swap, Exits

\* No run was killed.
NobodyKilled == \A r \in Runs : pc[r] # "crashed"

\* As long as no run was killed, a run fails only because of a payload that
\* differs from the installed release, however many runs overlap
\* (compose.yaml:349-376).
THEOREM FailureIsAChange == Spec => []UnkilledRunsFailOnlyOverAChange
<1> DEFINE IInv == NobodyKilled => NoCrashInv
<1>1. Init => IInv
  BY DEF Init, NoCrashInv
<1>2. Inv /\ IInv /\ [Next]_vars => IInv'
  <2> SUFFICES ASSUME Inv, IInv, [Next]_vars, NobodyKilled' PROVE NoCrashInv'
    OBVIOUS
  <2>1. CASE UNCHANGED vars
    BY <2>1 DEF NobodyKilled, NoCrashInv, vars
  <2>2. ASSUME NEW r \in Runs,
               Start(r) \/ AcquireLock(r) \/ Stage(r) \/ Compare(r) \/ Install(r) \/ Link(r) \/ Swap(r)
        PROVE  NoCrashInv'
    <3>1. pc[r] # "crashed" /\ \A q \in Runs : q # r => pc'[q] = pc[q]
      BY <2>2 DEF Inv, TypeOK, Start, AcquireLock, Stage, Compare, Install, Link, Swap, Exits, Goto
    <3>2. NoCrashInv
      BY <3>1 DEF NobodyKilled
    <3> QED BY <2>2, <3>2, NoCrashBefore, NoCrashCompare, NoCrashInstall, NoCrashLink, NoCrashSwap
  <2>3. ASSUME NEW r \in Runs, Crash(r) PROVE FALSE
    BY <2>3 DEF Inv, TypeOK, Crash, Goto, NobodyKilled
  <2> QED BY <2>1, <2>2, <2>3 DEF Next, AllOver
<1>3. IInv => UnkilledRunsFailOnlyOverAChange
  BY DEF NobodyKilled, NoCrashInv, OnlyAChangedPayloadFails, UnkilledRunsFailOnlyOverAChange
<1> QED BY <1>1, <1>2, <1>3, Invariance, PTL DEF Spec
=============================================================================
