------------------------ MODULE GraphUpgrade_proofs ------------------------
(***************************************************************************)
(* Proofs about the core deployment and the upgrades of its role graph,    *)
(* for any number of role statements, of crashes, failures and repeated    *)
(* starts, and of upgrades.  The marker is touched after the last          *)
(* statement and never removed, a container gets past "created" only when  *)
(* what it depends on was satisfied, and whatever a later crash or start   *)
(* undoes, the marker and the migrations stay.  The contract of the role   *)
(* graph holds from postgres-role-verify to the end of Atlas because no    *)
(* upgrade is under way while the deployment is.                           *)
(***************************************************************************)
EXTENDS GraphUpgrade, TLAPS

States == {"created", "running", "healthy", "done", "failed"}
Labels == Resting \cup {"before", "mutate", "after", "publish"}

TypeOK ==
  /\ st \in [Services -> States]
  /\ up \in {"idle", "going", "failed", "ok"}
  /\ dir \in {"empty", "partial", "complete"}
  /\ roles \in Nat
  /\ server \in {"off", "temp", "final"}
  /\ migrated \in BOOLEAN
  /\ faults \in Nat
  /\ left \in [Changes -> Nat \cup {None}]
  /\ evidence \subseteq Changes
  /\ pc \in [Runs -> Labels]
  /\ change \in [Runs -> Changes \cup {None}]

\* The marker stands for the whole role script, and every container that was
\* started on the strength of it.
MarkerInv ==
  /\ server = "temp" => dir # "empty"
  /\ st["postgres"] = "healthy" => dir = "complete"
  /\ st["migrate"] # "created" => dir = "complete"
  /\ migrated => dir = "complete"

\* The migrations were applied when Atlas ended well, and before an
\* application or the proxy was started.
MigratedInv ==
  /\ st["migrate"] = "done" => migrated
  /\ ServedAfterMigrated

\* What postgres-role-verify found is still so when Atlas runs.
ContractInv ==
  /\ ~NoUpgrade => up = "idle"
  /\ up = "idle" => st["migrate"] = "created"
  /\ up = "going" /\ st["postgres-role-verify"] = "done" => roles = RoleSteps
  /\ st["migrate"] = "running" => roles = RoleSteps

\* One upgrade at a time, and what it knows at each command.
EvidenceInv ==
  /\ \A q, r \in Runs : pc[q] \notin Resting /\ pc[r] \notin Resting => q = r
  /\ \A r \in Runs : pc[r] \notin Resting => change[r] \in Changes \ evidence
  /\ \A r \in Runs : pc[r] \in {"after", "publish"} =>
       left[change[r]] = roles /\ roles \in {RoleSteps, OffContract}
  /\ \A r \in Runs : pc[r] = "publish" => roles = RoleSteps
  /\ EvidenceIsTruthful

\* All of it (compose.yaml:30-617, 10-nexusrelay-roles.sh, graph-upgrade.sh).
Inv == TypeOK /\ MarkerInv /\ MigratedInv /\ ContractInv /\ EvidenceInv

LEMMA ServiceNames ==
  /\ OneShots \cap LongRunning = {}
  /\ Applications \cup {"proxy"} \subseteq LongRunning
  /\ "migrate" \in OneShots /\ "postgres" \in LongRunning /\ "postgres-role-verify" \in OneShots
  /\ "gateway" \in Applications
  /\ "postgres" \notin Applications \cup {"proxy"} /\ "migrate" \notin Applications \cup {"proxy"}
  /\ Services = OneShots \cup LongRunning
BY DEF OneShots, LongRunning, Applications, Services

\* Nothing was started and the data directory is empty.
LEMMA InitInv == Init => Inv
<1> SUFFICES ASSUME Init PROVE Inv
  OBVIOUS
<1> USE BoundsAssumption, NoneAssumption DEF Init, CoreInit
<1>1. TypeOK
  BY DEF TypeOK, States, Labels, Resting
<1>2. \A s \in Services : st[s] = "created"
  OBVIOUS
<1>3. MarkerInv
  BY <1>2, ServiceNames DEF MarkerInv
<1>4. MigratedInv
  BY <1>2, ServiceNames DEF MigratedInv, ServedAfterMigrated
<1>5. ContractInv
  BY <1>2, ServiceNames DEF ContractInv, NoUpgrade, Resting
<1>6. EvidenceInv
  <2>1. \A r \in Runs : pc[r] = "idle" /\ change[r] = None
    OBVIOUS
  <2> QED BY <2>1 DEF EvidenceInv, EvidenceIsTruthful, Resting
<1> QED BY <1>1, <1>3, <1>4, <1>5, <1>6 DEF Inv

-----------------------------------------------------------------------------
(* The deployment *)

\* The upgrades know nothing of a step that leaves the role graph alone.
LEMMA EvidenceKept ==
  ASSUME Inv, UNCHANGED upgradeVars, roles' = roles PROVE EvidenceInv'
BY DEF Inv, EvidenceInv, EvidenceIsTruthful, upgradeVars, OffContract

\* up: one-shot containers become "created" unless they run.
LEMMA UpInv == ASSUME Inv, NoUpgrade, Up, UNCHANGED upgradeVars PROVE Inv'
<1> USE ServiceNames, BoundsAssumption DEF Inv, TypeOK, pgVars, States, upgradeVars, Up
<1>1. TypeOK' OBVIOUS
<1>2. MarkerInv' BY DEF MarkerInv
<1>3. MigratedInv' BY DEF MigratedInv, ServedAfterMigrated
<1>4. ContractInv' BY DEF ContractInv, NoUpgrade
<1> QED BY <1>1, <1>2, <1>3, <1>4, EvidenceKept

\* The ends of up.
LEMMA UpEndInv ==
  ASSUME Inv, UpFails \/ UpTimesOut \/ UpEnds, UNCHANGED upgradeVars PROVE Inv'
<1> USE ServiceNames, BoundsAssumption
    DEF Inv, TypeOK, pgVars, States, upgradeVars, UpFails, UpTimesOut, UpEnds
<1>1. TypeOK' OBVIOUS
<1>2. MarkerInv' BY DEF MarkerInv
<1>3. MigratedInv' BY DEF MigratedInv, ServedAfterMigrated
<1>4. ContractInv' BY DEF ContractInv, NoUpgrade
<1> QED BY <1>1, <1>2, <1>3, <1>4, EvidenceKept

\* down: every container becomes "created".
LEMMA DownInv == ASSUME Inv, Down, UNCHANGED upgradeVars PROVE Inv'
<1> USE ServiceNames, BoundsAssumption DEF Inv, TypeOK, States, upgradeVars, Down
<1>1. TypeOK' OBVIOUS
<1>2. MarkerInv' BY DEF MarkerInv
<1>3. MigratedInv' BY DEF MigratedInv, ServedAfterMigrated
<1>4. ContractInv' BY DEF ContractInv, NoUpgrade
<1> QED BY <1>1, <1>2, <1>3, <1>4, EvidenceKept

\* The operator stops everything but postgres and redis.
LEMMA StopServicesInv == ASSUME Inv, StopServices PROVE Inv'
<1> USE ServiceNames, BoundsAssumption DEF Inv, TypeOK, pgVars, States, upgradeVars, StopServices
<1>1. TypeOK' OBVIOUS
<1>2. MarkerInv' BY DEF MarkerInv
<1>3. MigratedInv'
  BY DEF MigratedInv, ServedAfterMigrated
<1>4. ContractInv' BY DEF ContractInv, NoUpgrade
<1> QED BY <1>1, <1>2, <1>3, <1>4, EvidenceKept

\* The image and the role script: the marker comes last.
LEMMA PostgresInv == ASSUME Inv, Postgres, UNCHANGED upgradeVars PROVE Inv'
<1> USE ServiceNames, BoundsAssumption DEF Inv, TypeOK, States, upgradeVars
<1>1. CASE InitDb
  BY <1>1, EvidenceKept
  DEF InitDb, MarkerInv, MigratedInv, ServedAfterMigrated, ContractInv, NoUpgrade
<1>2. CASE CreateRole
  <2>1. TypeOK' /\ MarkerInv' /\ MigratedInv'
    BY <1>2 DEF CreateRole, MarkerInv, MigratedInv, ServedAfterMigrated
  <2>2. ContractInv'
    BY <1>2 DEF CreateRole, ContractInv, NoUpgrade
  <2>3. EvidenceInv'
    BY <1>2 DEF CreateRole, EvidenceInv, EvidenceIsTruthful, OffContract
  <2> QED BY <2>1, <2>2, <2>3
<1>3. CASE TouchMarker
  BY <1>3, EvidenceKept
  DEF TouchMarker, MarkerInv, MigratedInv, ServedAfterMigrated, ContractInv, NoUpgrade
<1>4. CASE StartFinal
  BY <1>4, EvidenceKept
  DEF StartFinal, MarkerInv, MigratedInv, ServedAfterMigrated, ContractInv, NoUpgrade
<1> QED BY <1>1, <1>2, <1>3, <1>4 DEF Postgres

\* Migrate starts after postgres was healthy and the graph verified; an
\* application after migrate was done, and the proxy after the gateway was
\* healthy (depends_on).
LEMMA StartInv ==
  ASSUME Inv, NEW s \in Services, Start(s), UNCHANGED upgradeVars PROVE Inv'
<1> USE ServiceNames, BoundsAssumption DEF Inv, TypeOK, States, pgVars, upgradeVars
<1>1. TypeOK'
  BY DEF Start
<1>2. s = "migrate" => st["postgres"] = "healthy" /\ st["postgres-role-verify"] = "done"
  BY DEF Start, DependsOn, Satisfied, Applications
<1>3. MarkerInv'
  BY <1>2 DEF Start, MarkerInv
<1>4. MigratedInv'
  <2>1. s \in Applications => st["migrate"] = "done"
    BY DEF Start, DependsOn, Satisfied
  <2>2. s = "proxy" => st["gateway"] = "healthy"
    BY DEF Start, DependsOn, Satisfied, Applications
  <2>3. s \in Applications \cup {"proxy"} => migrated
    BY <2>1, <2>2 DEF MigratedInv, ServedAfterMigrated
  <2> QED BY <2>3 DEF Start, MigratedInv, ServedAfterMigrated
<1>5. ContractInv'
  BY <1>2 DEF Start, ContractInv, NoUpgrade
<1>6. roles' = roles
  BY DEF Start
<1> QED BY <1>1, <1>3, <1>4, <1>5, <1>6, EvidenceKept

\* A health check passes, for postgres only with the marker.
LEMMA HealthInv ==
  ASSUME Inv, NEW s \in LongRunning, HealthPasses(s), UNCHANGED upgradeVars PROVE Inv'
<1> USE ServiceNames, BoundsAssumption DEF Inv, TypeOK, States, pgVars, upgradeVars
<1>1. TypeOK'
  BY DEF HealthPasses
<1>2. MarkerInv'
  BY DEF HealthPasses, HealthCheck, PostgresHealthCheck, MarkerInv
<1>3. MigratedInv'
  BY DEF HealthPasses, MigratedInv, ServedAfterMigrated
<1>4. ContractInv'
  BY DEF HealthPasses, ContractInv, NoUpgrade
<1>5. roles' = roles
  BY DEF HealthPasses
<1> QED BY <1>1, <1>2, <1>3, <1>4, <1>5, EvidenceKept

\* A one-shot container ends; postgres-role-verify well only on the contract.
LEMMA OneShotInv ==
  ASSUME Inv, NEW s \in OneShots, OneShotSucceeds(s) \/ OneShotFails(s),
         UNCHANGED upgradeVars
  PROVE  Inv'
<1> USE ServiceNames, BoundsAssumption DEF Inv, TypeOK, States, pgVars, upgradeVars
<1>1. CASE OneShotSucceeds(s)
  <2>1. migrated' \in BOOLEAN
    BY <1>1 DEF OneShotSucceeds
  <2>2. TypeOK'
    BY <1>1, <2>1 DEF OneShotSucceeds
  <2>3. MarkerInv'
    BY <1>1 DEF OneShotSucceeds, MarkerInv
  <2>4. MigratedInv'
    BY <1>1 DEF OneShotSucceeds, MigratedInv, ServedAfterMigrated
  <2>5. ContractInv'
    BY <1>1 DEF OneShotSucceeds, Succeeds, ContractInv, NoUpgrade
  <2>6. roles' = roles
    BY <1>1 DEF OneShotSucceeds
  <2> QED BY <2>2, <2>3, <2>4, <2>5, <2>6, EvidenceKept
<1>2. CASE OneShotFails(s)
  <2>1. TypeOK'
    BY <1>2 DEF OneShotFails
  <2>2. MarkerInv'
    BY <1>2 DEF OneShotFails, MarkerInv
  <2>3. MigratedInv'
    BY <1>2 DEF OneShotFails, MigratedInv, ServedAfterMigrated
  <2>4. ContractInv'
    BY <1>2 DEF OneShotFails, ContractInv, NoUpgrade
  <2>5. roles' = roles
    BY <1>2 DEF OneShotFails
  <2> QED BY <2>1, <2>2, <2>3, <2>4, <2>5, EvidenceKept
<1> QED BY <1>1, <1>2

\* A long-running container dies and is restarted at once.
LEMMA CrashInv ==
  ASSUME Inv, NEW s \in LongRunning, Crash(s), UNCHANGED upgradeVars PROVE Inv'
<1> USE ServiceNames, BoundsAssumption DEF Inv, TypeOK, States, upgradeVars
<1>1. TypeOK'
  BY DEF Crash
<1>2. MarkerInv'
  BY DEF Crash, MarkerInv
<1>3. MigratedInv'
  BY DEF Crash, MigratedInv, ServedAfterMigrated
<1>4. ContractInv'
  BY DEF Crash, ContractInv, NoUpgrade
<1>5. roles' = roles
  BY DEF Crash
<1> QED BY <1>1, <1>2, <1>3, <1>4, <1>5, EvidenceKept

-----------------------------------------------------------------------------
(* The upgrade *)

\* What a command of the upgrade leaves alone.
LEMMA DeploymentKept ==
  ASSUME Inv, NEW r \in Runs,
         VerifyBefore(r) \/ VerifyAfter(r) \/ Publish(r) \/ Fail(r)
           \/ (\E c \in Changes : Begin(r, c))
  PROVE  /\ UNCHANGED <<st, up, dir, roles, server, migrated, faults>>
         /\ up = "idle"
BY DEF Inv, ContractInv, NoUpgrade, VerifyBefore, VerifyAfter, Publish, Fail, Begin,
       Resting, coreVars

\* Begin, the two verifications, the publication and the failures.
LEMMA UpgradeInv ==
  ASSUME Inv, NEW r \in Runs,
         VerifyBefore(r) \/ VerifyAfter(r) \/ Publish(r) \/ Fail(r)
           \/ (\E c \in Changes : Begin(r, c))
  PROVE  Inv'
<1> USE BoundsAssumption, NoneAssumption, DeploymentKept DEF Inv
<1>1. MarkerInv' /\ MigratedInv'
  BY DEF MarkerInv, MigratedInv, ServedAfterMigrated
<1>2. ContractInv'
  BY DEF ContractInv
<1>3. CASE \E c \in Changes : Begin(r, c)
  <2>1. PICK c \in Changes : Begin(r, c)
    BY <1>3
  <2>2. TypeOK'
    BY <2>1 DEF Begin, Goto, TypeOK, Labels, Resting
  <2>3. EvidenceIsTruthful'
    BY <2>1 DEF Begin, EvidenceInv, EvidenceIsTruthful
  <2>4. EvidenceInv'
    <3>1. \A q \in Runs : q # r => pc'[q] = pc[q] /\ change'[q] = change[q] /\ pc[q] \in Resting
      BY <2>1 DEF Begin, Goto, TypeOK, NoUpgrade
    <3>2. pc'[r] \in {"before", "failed"} /\ change'[r] = c /\ (pc'[r] = "before" => c \notin evidence)
      BY <2>1 DEF Begin, Goto, TypeOK
    <3>3. left' = left /\ evidence' = evidence
      BY <2>1 DEF Begin
    <3> QED BY <2>3, <3>1, <3>2, <3>3 DEF EvidenceInv, Resting
  <2> QED BY <1>1, <1>2, <2>2, <2>4
<1>4. CASE VerifyBefore(r) \/ VerifyAfter(r) \/ Fail(r)
  <2>1. TypeOK'
    BY <1>4 DEF VerifyBefore, VerifyAfter, Fail, Goto, TypeOK, Labels, Resting
  <2>2. EvidenceInv'
    BY <1>4 DEF VerifyBefore, VerifyAfter, Fail, Goto, TypeOK, EvidenceInv, EvidenceIsTruthful,
                OffContract, Resting
  <2> QED BY <1>1, <1>2, <2>1, <2>2
<1>5. CASE Publish(r)
  <2>1. TypeOK'
    <3>1. change[r] \in Changes
      BY <1>5 DEF Publish, EvidenceInv, Resting
    <3>2. evidence' \subseteq Changes
      BY <1>5, <3>1 DEF Publish, TypeOK
    <3>3. pc' \in [Runs -> Labels]
      BY <1>5 DEF Publish, Goto, TypeOK, Labels, Resting
    <3>4. left' = left /\ change' = change
      BY <1>5 DEF Publish
    <3> QED BY <3>2, <3>3, <3>4 DEF TypeOK
  <2>2. EvidenceIsTruthful'
    BY <1>5 DEF Publish, EvidenceInv, EvidenceIsTruthful, OffContract
  <2>3. EvidenceInv'
    <3>1. pc'[r] = "ok" /\ \A q \in Runs : q # r => pc'[q] = pc[q] /\ pc[q] \in Resting
      BY <1>5 DEF Publish, Goto, TypeOK, EvidenceInv, Resting
    <3>2. left' = left /\ change' = change
      BY <1>5 DEF Publish
    <3> QED BY <2>2, <3>1, <3>2 DEF EvidenceInv, Resting
  <2> QED BY <1>1, <1>2, <2>1, <2>3
<1> QED BY <1>3, <1>4, <1>5

\* The transaction: the graph may be another one afterwards, which is remembered
\* of the change.
LEMMA MutateInv == ASSUME Inv, NEW r \in Runs, Mutate(r) PROVE Inv'
<1> USE BoundsAssumption, NoneAssumption DEF Inv, Mutate, Goto, TypeOK
<1>1. TypeOK'
  BY DEF EvidenceInv, Labels, Resting, OffContract
<1>2. MarkerInv' /\ MigratedInv'
  BY DEF MarkerInv, MigratedInv, ServedAfterMigrated
<1>3. up = "idle"
  BY DEF ContractInv, NoUpgrade, Resting
<1>4. ContractInv'
  BY <1>3 DEF ContractInv
<1>5. EvidenceInv'
  <2>1. change[r] \in Changes \ evidence /\ left'[change[r]] = roles'
    BY DEF EvidenceInv, Resting
  <2>2. \A c \in evidence : left'[c] = left[c]
    BY <2>1
  <2>3. \A q \in Runs : q # r => pc'[q] = pc[q] /\ pc[q] \in Resting
    BY DEF EvidenceInv, Resting
  <2>4. pc'[r] = "after" /\ change' = change /\ evidence' = evidence
    OBVIOUS
  <2> QED BY <2>1, <2>2, <2>3, <2>4 DEF EvidenceInv, EvidenceIsTruthful, Resting
<1> QED BY <1>1, <1>2, <1>4, <1>5

-----------------------------------------------------------------------------

\* The inductive invariant of the deployment and its upgrades.
THEOREM Invariance == Spec => []Inv
<1>1. Inv /\ [Next]_vars => Inv'
  <2> SUFFICES ASSUME Inv, [Next]_vars PROVE Inv'
    OBVIOUS
  <2>1. CASE UNCHANGED vars
    BY <2>1 DEF Inv, TypeOK, MarkerInv, MigratedInv, ServedAfterMigrated, ContractInv, NoUpgrade,
                EvidenceInv, EvidenceIsTruthful, vars, coreVars, upgradeVars
  <2>2. CASE CoreStep /\ UNCHANGED upgradeVars
    <3>1. ASSUME NEW s \in Services, Progress(s) PROVE Inv'
      BY <2>2, <3>1, StartInv, HealthInv, OneShotInv DEF Progress
    <3>2. CASE Steady
      BY <2>2, <3>2 DEF Steady, Inv, TypeOK, MarkerInv, MigratedInv, ServedAfterMigrated,
                ContractInv, NoUpgrade, EvidenceInv, EvidenceIsTruthful, coreVars, upgradeVars
    <3> QED BY <2>2, <3>1, <3>2, UpEndInv, DownInv, PostgresInv, CrashInv DEF CoreStep
  <2>3. ASSUME NEW r \in Runs, Upgrade(r) PROVE Inv'
    BY <2>3, UpgradeInv, MutateInv DEF Upgrade
  <2> QED BY <2>1, <2>2, <2>3, UpInv, StopServicesInv DEF Next
<1> QED BY InitInv, <1>1, PTL DEF Spec

\* Nothing is migrated into a cluster whose role script did not come to its
\* end or whose graph an upgrade left off its contract, for a script of any
\* length and any number of crashes, restarts and upgrades
\* (10-nexusrelay-roles.sh, compose.yaml:417, graph-upgrade-container.sh).
THEOREM MigratedIsInitialized == Spec => []OnlyInitializedIsMigrated
<1>1. Inv => OnlyInitializedIsMigrated
  BY DEF Inv, MarkerInv, ContractInv, OnlyInitializedIsMigrated
<1> QED BY Invariance, <1>1, PTL

\* No application and no proxy has run before the migrations were applied
\* (depends_on of compose.yaml).
THEOREM ServingIsMigrated == Spec => []ServedAfterMigrated
<1>1. Inv => ServedAfterMigrated
  BY DEF Inv, MigratedInv
<1> QED BY Invariance, <1>1, PTL

\* Evidence is never published for a change that was not committed or that
\* left the graph off its contract (graph-upgrade-container.sh:17-34).
THEOREM EvidenceIsEarned == Spec => []EvidenceIsTruthful
<1>1. Inv => EvidenceIsTruthful
  BY DEF Inv, EvidenceInv
<1> QED BY Invariance, <1>1, PTL
=============================================================================
