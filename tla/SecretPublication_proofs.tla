----------------------- MODULE SecretPublication_proofs -----------------------
(***************************************************************************)
(* Proofs about publish.sh for any list of volumes and any allowlists.     *)
(* Nothing but the script changes the volumes while it runs, so what the   *)
(* first pass found still holds in the second one: every volume is empty   *)
(* or equal to the source, and all that is ever added is the source.       *)
(***************************************************************************)
EXTENDS SecretPublication, TLAPS

\* A slot is a volume with the position of one of its files.
LEMMA SlotFacts ==
  /\ \A s \in Slots : /\ s[1] \in 1..Len(Targets)
                      /\ s[2] \in 1..Len(FilesOf[Targets[s[1]]])
                      /\ s = <<s[1], s[2]>>
  /\ \A t \in 1..Len(Targets) : \A f \in 1..Len(FilesOf[Targets[t]]) :
       <<t, f>> \in Slots /\ <<t, f>> \in SlotsOf(t)
  /\ \A t \in 1..Len(Targets) : \A s \in SlotsOf(t) : s \in Slots /\ s[1] = t
  /\ \A s \in Slots : s \in SlotsOf(s[1])
<1>1. \A s \in Slots : /\ s[1] \in 1..Len(Targets)
                       /\ s[2] \in 1..Len(FilesOf[Targets[s[1]]])
                       /\ s = <<s[1], s[2]>>
  BY DEF Slots
<1>2. \A t \in 1..Len(Targets) : \A f \in 1..Len(FilesOf[Targets[t]]) : <<t, f>> \in Slots
  BY DEF Slots
<1>3. \A s \in Slots : s \in SlotsOf(s[1])
  BY DEF SlotsOf
<1>4. \A t \in 1..Len(Targets) : \A s \in SlotsOf(t) : s \in Slots /\ s[1] = t
  BY DEF SlotsOf
<1>5. \A t \in 1..Len(Targets) : \A f \in 1..Len(FilesOf[Targets[t]]) : <<t, f>> \in SlotsOf(t)
  BY <1>2 DEF SlotsOf
<1> QED BY <1>1, <1>2, <1>3, <1>4, <1>5

\* No allowlist is empty (publish.sh:71-76), so an empty volume is not a
\* published one.
LEMMA EmptyNotPublished ==
  ASSUME NEW t \in 1..Len(Targets), Empty(t) PROVE ~Published(t)
<1>1. <<t, 1>> \in SlotsOf(t)
  BY SlotFacts, TargetsAssumption
<1> QED BY <1>1 DEF Empty, Published

\* The volumes look the same after a step that leaves them and the source alone.
LEMMA SameVolumes ==
  ASSUME UNCHANGED <<volumes, source>>
  PROVE  /\ \A t \in 1..Len(Targets) : Empty(t)' = Empty(t)
         /\ \A t \in 1..Len(Targets) : Published(t)' = Published(t)
         /\ OneVersion' = OneVersion
BY DEF volumes, Empty, Published, OneVersion

\* In the second pass everything in the volumes comes from the current source.
LEMMA AllCurrent ==
  ASSUME Inv, pc = "publish" \/ Copying
  PROVE  \A s \in Slots : stage[s] # "absent" => version[s] = source
<1> SUFFICES ASSUME NEW s \in Slots, stage[s] # "absent" PROVE version[s] = source
  OBVIOUS
<1>0. /\ s[1] \in 1..Len(Targets) /\ s \in SlotsOf(s[1]) /\ s = <<s[1], s[2]>>
      /\ s[2] \in 1..Len(FilesOf[Targets[s[1]]])
  BY SlotFacts
<1>t. target \in 1..Len(Targets) /\ Len(Targets) \in Nat /\ file \in Nat
  BY TargetsAssumption DEF Inv, TypeOK
<1>1. CASE s[1] < target
  <2>1. Published(s[1])
    BY <1>1, <1>0, <1>t DEF Inv, PublishInv
  <2> QED BY <2>1, <1>0 DEF Published
<1>2. CASE s[1] > target
  <2>1. Empty(s[1]) \/ Published(s[1])
    BY <1>2, <1>0, <1>t DEF Inv, PublishInv
  <2> QED BY <2>1, <1>0 DEF Published, Empty
<1>3. CASE s[1] = target /\ pc = "publish"
  <2>1. Empty(s[1]) \/ Published(s[1])
    BY <1>3 DEF Inv, PublishInv
  <2> QED BY <2>1, <1>0 DEF Published, Empty
<1>4. CASE s[1] = target /\ Copying
  <2>1. s \in SlotsOf(target)
    BY <1>4, <1>0
  <2>2. CASE s[2] < file
    BY <1>4, <2>1, <2>2 DEF Inv, CopyInv
  <2>3. CASE s[2] > file
    BY <1>4, <2>1, <2>3 DEF Inv, CopyInv
  <2>4. CASE s[2] = file
    <3>1. s = Slot
      BY <1>0, <1>4, <2>4 DEF Slot
    <3> QED BY <3>1, <1>4 DEF Inv, CopyInv
  <2> QED BY <2>2, <2>3, <2>4, <1>0, <1>t, TargetsAssumption
<1> QED BY <1>0, <1>t, <1>1, <1>2, <1>3, <1>4

\* Initially every volume is empty.
LEMMA InitInv == Init => Inv
<1> SUFFICES ASSUME Init PROVE Inv
  OBVIOUS
<1>1. TypeOK
  <2>1. sourceValid \in BOOLEAN
    BY DEF Init
  <2> QED BY <2>1, TargetsAssumption, MaxVersionAssumption DEF Init, TypeOK, Stages
<1>2. PreflightInv /\ PublishInv /\ CopyInv /\ OneVersion /\ OkMeansPublished
  BY DEF Init, PreflightInv, PublishInv, CopyInv, Copying, OneVersion, OkMeansPublished
<1> QED BY <1>1, <1>2 DEF Inv

\* The steps that do not touch the volumes: starting, the checks of the source,
\* both ends of the script (publish.sh:11-36).
LEMMA QuietInv ==
  ASSUME Inv, StartRun \/ CheckSource \/ Dies PROVE Inv'
<1>1. UNCHANGED <<volumes, source>>
  BY DEF StartRun, CheckSource, Dies, Exits, sourceVars
<1>2. pc' \in {"idle", "source", "preflight"} /\ (pc' = "preflight" => target' = 1)
  BY DEF StartRun, CheckSource, Dies, Exits
<1>3. TypeOK'
  <2>1. sourceValid' \in BOOLEAN
    BY DEF Inv, TypeOK, StartRun, CheckSource, Dies, sourceVars
  <2> QED BY <2>1, TargetsAssumption
      DEF Inv, TypeOK, StartRun, CheckSource, Dies, Exits, volumes, sourceVars
<1>4. PreflightInv' /\ PublishInv' /\ CopyInv'
  BY <1>2 DEF PreflightInv, PublishInv, CopyInv, Copying
<1>5. OneVersion'
  BY <1>1, SameVolumes DEF Inv
<1>6. OkMeansPublished'
  <2>1. exit' \in {exit, "failed"}
    BY DEF StartRun, CheckSource, Dies, Exits
  <2> QED BY <2>1, <1>1, SameVolumes DEF Inv, OkMeansPublished
<1> QED BY <1>3, <1>4, <1>5, <1>6 DEF Inv

\* preflight_target (publish.sh:38-56): a volume that is neither empty nor equal
\* to the source ends the script before anything is written.
LEMMA PreflightInvariant == ASSUME Inv, Preflight PROVE Inv'
<1>t. target \in 1..Len(Targets) /\ Len(Targets) \in Nat \ {0}
  BY TargetsAssumption DEF Inv, TypeOK
<1>1. UNCHANGED <<volumes, source>>
  BY DEF Preflight, sourceVars
<1>2. TypeOK'
  <2>1. sourceValid' \in BOOLEAN
    BY DEF Inv, TypeOK, Preflight, sourceVars
  <2> QED BY <2>1, <1>t DEF Inv, TypeOK, Preflight, Advance, Exits, volumes, sourceVars
<1>3. CASE pc' = "idle"
  <2>1. exit' = "failed"
    BY <1>3 DEF Preflight, Advance, Exits
  <2> QED BY <2>1, <1>1, <1>2, <1>3, SameVolumes
      DEF Inv, PreflightInv, PublishInv, CopyInv, Copying, OkMeansPublished
<1>4. CASE pc' # "idle"
  <2>1. /\ \A t \in 1..target : Empty(t) \/ Published(t)
        /\ pc = "preflight" /\ exit' = exit
        /\ \/ target' = target + 1 /\ pc' = "preflight"
           \/ target = Len(Targets) /\ target' = 1 /\ pc' = "publish"
    BY <1>4, <1>t DEF Preflight, Advance, Exits, Inv, PreflightInv
  <2>2. \A t \in 1..target : Empty(t)' \/ Published(t)'
    BY <2>1, <1>1, <1>t, SameVolumes
  <2>3. PreflightInv'
    BY <2>1, <2>2, <1>t DEF PreflightInv
  <2>4. PublishInv'
    BY <2>1, <2>2, <1>t DEF PublishInv, Copying
  <2>5. CopyInv'
    BY <2>1 DEF CopyInv, Copying
  <2>6. OneVersion' /\ OkMeansPublished'
    BY <2>1, <1>1, SameVolumes DEF Inv, OkMeansPublished
  <2> QED BY <1>2, <2>3, <2>4, <2>5, <2>6 DEF Inv
<1> QED BY <1>3, <1>4

\* publish_target passes over a volume that is not empty (publish.sh:63).
LEMMA PublishTargetInv == ASSUME Inv, PublishTarget PROVE Inv'
<1>t. target \in 1..Len(Targets) /\ Len(Targets) \in Nat \ {0}
  BY TargetsAssumption DEF Inv, TypeOK
<1>1. UNCHANGED <<volumes, source>>
  BY DEF PublishTarget, sourceVars
<1>s. sourceValid' \in BOOLEAN
  BY DEF Inv, TypeOK, PublishTarget, sourceVars
<1>p. /\ pc = "publish"
      /\ \A t \in 1..(target - 1) : Published(t)
      /\ \A t \in (target + 1)..Len(Targets) : Empty(t) \/ Published(t)
      /\ Empty(target) \/ Published(target)
  BY DEF PublishTarget, Inv, PublishInv
<1>2. CASE Empty(target)
  <2>1. pc' = "copy" /\ file' = 1 /\ target' = target /\ exit' = exit
    BY <1>2 DEF PublishTarget
  <2>2. TypeOK'
    BY <2>1, <1>s, <1>1 DEF Inv, TypeOK, volumes
  <2>3. PreflightInv' /\ PublishInv'
    BY <2>1, <1>1, <1>t, <1>p, SameVolumes DEF PreflightInv, PublishInv
  <2>4. CopyInv'
    <3>1. Slot' = <<target, 1>> /\ Slot' \in SlotsOf(target)
      BY <2>1, <1>t, SlotFacts, TargetsAssumption DEF Slot
    <3>2. \A s \in SlotsOf(target) : stage'[s] = "absent" /\ s[2] >= 1
      BY <1>2, <1>1, <1>t, SlotFacts, TargetsAssumption DEF Empty, volumes
    <3>3. 1 \in 1..Len(FilesOf[Targets[target]])
      BY <1>t, TargetsAssumption
    <3>4. \A s \in SlotsOf(target) : ~(s[2] < 1)
      BY <1>t, SlotFacts, TargetsAssumption
    <3>5. stage'[Slot'] = "absent"
      BY <3>1, <3>2
    <3> QED BY <3>2, <3>3, <3>4, <3>5, <2>1 DEF CopyInv, Copying
  <2>5. OneVersion' /\ OkMeansPublished'
    BY <2>1, <1>1, SameVolumes DEF Inv, OkMeansPublished
  <2> QED BY <2>2, <2>3, <2>4, <2>5 DEF Inv
<1>3. CASE ~Empty(target)
  <2>0. Published(target) /\ \A t \in 1..target : Published(t)
    BY <1>3, <1>p, <1>t
  <2>1. NextTarget
    BY <1>3 DEF PublishTarget
  <2>2. TypeOK'
    BY <2>1, <1>s, <1>t, <1>1 DEF Inv, TypeOK, NextTarget, Exits, volumes
  <2>3. CASE target < Len(Targets)
    <3>1. pc' = "publish" /\ target' = target + 1 /\ exit' = exit
      BY <2>1, <2>3, <1>t DEF NextTarget
    <3>2. PreflightInv' /\ CopyInv'
      BY <3>1 DEF PreflightInv, CopyInv, Copying
    <3>3. PublishInv'
      <4>1. \A t \in 1..(target' - 1) : Published(t)'
        BY <3>1, <2>0, <1>1, <1>t, SameVolumes
      <4>2. \A t \in target'..Len(Targets) : Empty(t)' \/ Published(t)'
        BY <3>1, <1>1, <1>p, <1>t, SameVolumes
      <4>3. (Empty(target) \/ Published(target))'
        BY <4>2, <3>1, <2>3, <1>t
      <4> QED BY <3>1, <4>1, <4>2, <4>3, <1>t DEF PublishInv
    <3>4. OneVersion' /\ OkMeansPublished'
      BY <3>1, <1>1, SameVolumes DEF Inv, OkMeansPublished
    <3> QED BY <2>2, <3>2, <3>3, <3>4 DEF Inv
  <2>4. CASE target = Len(Targets)
    <3>1. pc' = "idle"
      BY <2>1, <2>4, <1>t DEF NextTarget, Exits
    <3>2. OkMeansPublished'
      BY <2>0, <2>4, <1>1, SameVolumes DEF OkMeansPublished
    <3>3. OneVersion'
      BY <1>1, SameVolumes DEF Inv
    <3> QED BY <2>2, <3>1, <3>2, <3>3 DEF Inv, PreflightInv, PublishInv, CopyInv, Copying
  <2> QED BY <2>3, <2>4, <1>t
<1> QED BY <1>2, <1>3

\* A step on the file in hand leaves every other file alone, and what it writes
\* comes from the current source (publish.sh:65-67).
LEMMA FileStep ==
  ASSUME Inv, Copying, source' = source, NEW st \in Stages \ {"absent"},
         stage' = [stage EXCEPT ![Slot] = st],
         \/ version' = [version EXCEPT ![Slot] = source]
         \/ version' = version /\ pc # "copy"
  PROVE  /\ Slot \in SlotsOf(target) /\ Slot \in Slots
         /\ stage' \in [Slots -> Stages] /\ version' \in [Slots -> 0..MaxVersion]
         /\ stage'[Slot] = st /\ version'[Slot] = source
         /\ \A s \in Slots : s # Slot => stage'[s] = stage[s] /\ version'[s] = version[s]
         /\ \A t \in 1..(target - 1) : Published(t)'
         /\ \A t \in (target + 1)..Len(Targets) : Empty(t)' \/ Published(t)'
         /\ OneVersion'
         /\ exit # "ok"
<1>t. target \in 1..Len(Targets) /\ Len(Targets) \in Nat \ {0} /\ stage \in [Slots -> Stages]
      /\ version \in [Slots -> 0..MaxVersion] /\ source \in 0..MaxVersion
  BY TargetsAssumption DEF Inv, TypeOK
<1>1. Slot \in SlotsOf(target) /\ Slot \in Slots
  BY <1>t, SlotFacts DEF Slot, Inv, CopyInv
<1>2. stage' \in [Slots -> Stages] /\ stage'[Slot] = st
  BY <1>1, <1>t
<1>3. version' \in [Slots -> 0..MaxVersion]
  BY <1>1, <1>t
<1>4. version'[Slot] = source
  BY <1>1, <1>t DEF Inv, CopyInv
<1>5. \A s \in Slots : s # Slot => stage'[s] = stage[s] /\ version'[s] = version[s]
  BY <1>1, <1>t
<1>6. \A t \in 1..Len(Targets) : t # target => \A s \in SlotsOf(t) : s \in Slots /\ s # Slot
  BY <1>1, <1>t, SlotFacts DEF Slot
<1>7. \A t \in 1..Len(Targets) : t # target =>
        (Published(t) => Published(t)') /\ (Empty(t) => Empty(t)')
  BY <1>5, <1>6 DEF Published, Empty
<1>8. \A t \in 1..(target - 1) : Published(t)'
  BY <1>7, <1>t DEF Inv, PublishInv
<1>9. \A t \in (target + 1)..Len(Targets) : Empty(t)' \/ Published(t)'
  BY <1>7, <1>t DEF Inv, PublishInv
<1>10. \A s \in Slots : stage'[s] # "absent" => version'[s] = source
  BY <1>4, <1>5, AllCurrent
<1>11. OneVersion'
  BY <1>10 DEF OneVersion
<1>12. exit # "ok"
  <2>1. stage[Slot] # "final"
    BY DEF Inv, CopyInv
  <2> QED BY <2>1, <1>1, <1>t DEF Inv, OkMeansPublished, Published
<1> QED BY <1>1, <1>2, <1>3, <1>4, <1>5, <1>8, <1>9, <1>11, <1>12

\* The commands that leave the script at the same file: cp, and chmod.
LEMMA CopyStepInv ==
  ASSUME Inv, CopyBegins \/ CopyEnds \/ Chmod PROVE Inv'
<1>1. PICK st \in {"partial", "copied", "mode"} : stage' = [stage EXCEPT ![Slot] = st]
  BY DEF CopyBegins, CopyEnds, Chmod
<1>2. /\ Copying /\ source' = source
      /\ \/ version' = [version EXCEPT ![Slot] = source]
         \/ version' = version /\ pc # "copy"
      /\ target' = target /\ file' = file /\ exit' = exit
      /\ pc' \in {"copying", "chmod", "chown"}
  BY DEF Copying, CopyBegins, CopyEnds, Chmod, sourceVars
<1>3. st \in Stages \ {"absent"} /\ st # "final"
  BY <1>1 DEF Stages
<1>f. /\ Slot \in SlotsOf(target) /\ Slot \in Slots
      /\ stage' \in [Slots -> Stages] /\ version' \in [Slots -> 0..MaxVersion]
      /\ stage'[Slot] = st /\ version'[Slot] = source
      /\ \A s \in Slots : s # Slot => stage'[s] = stage[s] /\ version'[s] = version[s]
      /\ \A t \in 1..(target - 1) : Published(t)'
      /\ \A t \in (target + 1)..Len(Targets) : Empty(t)' \/ Published(t)'
      /\ OneVersion'
      /\ exit # "ok"
  BY <1>1, <1>2, <1>3, FileStep
<1>4. TypeOK'
  <2>1. sourceValid' \in BOOLEAN
    BY DEF Inv, TypeOK, CopyBegins, CopyEnds, Chmod, sourceVars
  <2> QED BY <2>1, <1>2, <1>f DEF Inv, TypeOK
<1>5. PreflightInv' /\ PublishInv'
  BY <1>2, <1>f DEF PreflightInv, PublishInv, Copying
<1>6. CopyInv'
  <2>1. Slot' = Slot
    BY <1>2 DEF Slot
  <2>2. \A s \in SlotsOf(target) : s[2] # file => s # Slot /\ s \in Slots
    BY SlotFacts DEF Slot, Inv, TypeOK
  <2>3. file \in Nat /\ \A s \in SlotsOf(target) : s[2] \in Nat
    BY SlotFacts, TargetsAssumption DEF Inv, TypeOK
  <2>4. \A s \in SlotsOf(target) :
          /\ s[2] < file => stage'[s] = "final" /\ version'[s] = source
          /\ s[2] > file => stage'[s] = "absent"
    BY <1>2, <1>f, <2>2, <2>3 DEF Inv, CopyInv
  <2>5. (pc' = "copy") = (stage'[Slot'] = "absent")
    BY <2>1, <1>2, <1>3, <1>f
  <2> QED BY <1>2, <1>3, <1>f, <2>1, <2>4, <2>5 DEF Inv, CopyInv
<1>7. OkMeansPublished'
  BY <1>2, <1>f DEF OkMeansPublished
<1> QED BY <1>4, <1>5, <1>6, <1>7, <1>f DEF Inv

\* chown ends the file, perhaps the volume, perhaps the script (publish.sh:67).
LEMMA ChownInv == ASSUME Inv, Chown PROVE Inv'
<1>2. /\ Copying /\ pc = "chown" /\ source' = source /\ version' = version
      /\ stage' = [stage EXCEPT ![Slot] = "final"]
  BY DEF Copying, Chown, sourceVars
<1>f. /\ Slot \in SlotsOf(target) /\ Slot \in Slots
      /\ stage' \in [Slots -> Stages] /\ version' \in [Slots -> 0..MaxVersion]
      /\ stage'[Slot] = "final" /\ version'[Slot] = source
      /\ \A s \in Slots : s # Slot => stage'[s] = stage[s] /\ version'[s] = version[s]
      /\ \A t \in 1..(target - 1) : Published(t)'
      /\ \A t \in (target + 1)..Len(Targets) : Empty(t)' \/ Published(t)'
      /\ OneVersion'
      /\ exit # "ok"
  <2>1. "final" \in Stages \ {"absent"}
    BY DEF Stages
  <2> QED BY <1>2, <2>1, FileStep
<1>t. /\ target \in 1..Len(Targets) /\ Len(Targets) \in Nat \ {0}
      /\ file \in 1..Len(FilesOf[Targets[target]])
      /\ Len(FilesOf[Targets[target]]) \in Nat \ {0}
  BY <1>2, TargetsAssumption DEF Inv, TypeOK, CopyInv
<1>s. sourceValid' \in BOOLEAN
  BY DEF Inv, TypeOK, Chown, sourceVars
<1>3. \A s \in SlotsOf(target) : /\ s \in Slots /\ s = <<target, s[2]>>
                                 /\ s[2] \in 1..Len(FilesOf[Targets[target]])
                                 /\ s[2] # file => s # Slot
  BY <1>t, SlotFacts DEF Slot
<1>4. \A s \in SlotsOf(target) :
        /\ s[2] <= file => stage'[s] = "final" /\ version'[s] = source
        /\ s[2] > file => stage'[s] = "absent"
  <2> SUFFICES ASSUME NEW s \in SlotsOf(target)
               PROVE  /\ s[2] <= file => stage'[s] = "final" /\ version'[s] = source
                      /\ s[2] > file => stage'[s] = "absent"
    OBVIOUS
  <2>1. CASE s[2] = file
    <3>1. s = Slot
      BY <2>1, <1>3 DEF Slot
    <3> QED BY <3>1, <2>1, <1>f, <1>t
  <2>2. CASE s[2] # file
    <3>1. s \in Slots /\ s # Slot /\ s[2] \in Nat
      BY <2>2, <1>3, <1>t
    <3>2. stage'[s] = stage[s] /\ version'[s] = version[s]
      BY <3>1, <1>f
    <3> QED BY <2>2, <3>1, <3>2, <1>2, <1>t DEF Inv, CopyInv
  <2> QED BY <2>1, <2>2
<1>5. CASE file < Len(FilesOf[Targets[target]])
  <2>1. pc' = "copy" /\ file' = file + 1 /\ target' = target /\ exit' = exit
    BY <1>5, <1>t DEF Chown
  <2>2. TypeOK'
    BY <2>1, <1>s, <1>2, <1>f, <1>t DEF Inv, TypeOK
  <2>3. PreflightInv' /\ PublishInv'
    BY <2>1, <1>f DEF PreflightInv, PublishInv, Copying
  <2>4. CopyInv'
    <3>1. Slot' = <<target, file + 1>> /\ Slot' \in SlotsOf(target) /\ Slot'[2] = file + 1
      BY <2>1, <1>5, <1>t, SlotFacts DEF Slot
    <3>2. stage'[Slot'] = "absent"
      BY <3>1, <1>4, <1>t
    <3>3. \A s \in SlotsOf(target) :
            /\ s[2] < file + 1 => stage'[s] = "final" /\ version'[s] = source
            /\ s[2] > file + 1 => stage'[s] = "absent"
      BY <1>3, <1>4, <1>t
    <3> QED BY <3>2, <3>3, <2>1, <1>2, <1>5, <1>t DEF CopyInv, Copying
  <2>5. OkMeansPublished'
    BY <2>1, <1>f DEF OkMeansPublished
  <2> QED BY <2>2, <2>3, <2>4, <2>5, <1>f DEF Inv
<1>6. CASE file = Len(FilesOf[Targets[target]])
  <2>0. \A t \in 1..target : Published(t)'
    <3> SUFFICES ASSUME NEW t \in 1..target PROVE Published(t)'
      OBVIOUS
    <3>1. CASE t < target
      BY <3>1, <1>f, <1>t
    <3>2. CASE t = target
      <4>1. \A s \in SlotsOf(t) : stage'[s] = "final" /\ version'[s] = source'
        BY <3>2, <1>2, <1>3, <1>4, <1>6, <1>t
      <4> QED BY <4>1 DEF Published
    <3> QED BY <3>1, <3>2, <1>t
  <2>1. NextTarget
    BY <1>6, <1>t DEF Chown
  <2>2. TypeOK'
    BY <2>1, <1>s, <1>2, <1>f, <1>t DEF Inv, TypeOK, NextTarget, Exits
  <2>3. CASE target < Len(Targets)
    <3>1. pc' = "publish" /\ target' = target + 1 /\ exit' = exit
      BY <2>1, <2>3, <1>t DEF NextTarget
    <3>2. PreflightInv' /\ CopyInv'
      BY <3>1 DEF PreflightInv, CopyInv, Copying
    <3>3. \A t \in 1..Len(Targets) : t > target => Empty(t)' \/ Published(t)'
      BY <1>f, <1>t
    <3>4. PublishInv'
      <4>1. \A t \in 1..(target' - 1) : Published(t)'
        BY <3>1, <2>0, <1>t
      <4>2. \A t \in target'..Len(Targets) : Empty(t)' \/ Published(t)'
        BY <3>1, <3>3, <1>t
      <4>3. (Empty(target) \/ Published(target))'
        BY <4>2, <3>1, <2>3, <1>t
      <4> QED BY <3>1, <4>1, <4>2, <4>3, <1>t DEF PublishInv
    <3>5. OkMeansPublished'
      BY <3>1, <1>f DEF OkMeansPublished
    <3> QED BY <2>2, <3>2, <3>4, <3>5, <1>f DEF Inv
  <2>4. CASE target = Len(Targets)
    <3>1. pc' = "idle"
      BY <2>1, <2>4, <1>t DEF NextTarget, Exits
    <3>2. OkMeansPublished'
      BY <2>0, <2>4 DEF OkMeansPublished
    <3> QED BY <2>2, <3>1, <3>2, <1>f DEF Inv, PreflightInv, PublishInv, CopyInv, Copying
  <2> QED BY <2>3, <2>4, <1>t
<1> QED BY <1>5, <1>6, <1>t

\* The operator acts between runs: what stays in the volumes is still of one
\* version, and no success is on record any more.
LEMMA OperatorInv ==
  ASSUME Inv, ReplaceSource \/ \E t \in 1..Len(Targets) : RemoveVolume(t) PROVE Inv'
<1>1. pc' = "idle" /\ exit' = "none"
  BY DEF ReplaceSource, RemoveVolume
<1>2. \A s \in Slots : stage'[s] # "absent" => stage[s] # "absent" /\ version'[s] = version[s]
  BY DEF ReplaceSource, RemoveVolume, volumes
<1>3. OneVersion'
  BY <1>2 DEF Inv, OneVersion
<1>4. TypeOK'
  <2>1. sourceValid' \in BOOLEAN
    BY DEF Inv, TypeOK, ReplaceSource, RemoveVolume, sourceVars
  <2>2. stage' \in [Slots -> Stages] /\ version' = version
    BY DEF Inv, TypeOK, ReplaceSource, RemoveVolume, volumes, Stages
  <2>3. source' \in 0..MaxVersion
    BY MaxVersionAssumption DEF Inv, TypeOK, ReplaceSource, RemoveVolume, sourceVars
  <2>4. target' = target /\ file' = file
    BY DEF ReplaceSource, RemoveVolume
  <2> QED BY <2>1, <2>2, <2>3, <2>4, <1>1 DEF Inv, TypeOK
<1> QED BY <1>1, <1>3, <1>4 DEF Inv, PreflightInv, PublishInv, CopyInv, Copying, OkMeansPublished

\* Every step of the publisher and of the operator keeps the invariant.
LEMMA NextInv == Inv /\ [Next]_vars => Inv'
<1> SUFFICES ASSUME Inv, [Next]_vars PROVE Inv'
  OBVIOUS
<1>1. CASE Next
  BY <1>1, QuietInv, PreflightInvariant, PublishTargetInv, CopyStepInv, ChownInv, OperatorInv DEF Next
<1>2. CASE UNCHANGED vars
  <2>1. UNCHANGED <<volumes, source>>
    BY <1>2 DEF vars, volumes
  <2>2. TypeOK'
    BY <1>2 DEF vars, Inv, TypeOK
  <2>3. PreflightInv' /\ PublishInv' /\ CopyInv' /\ OneVersion' /\ OkMeansPublished'
    BY <1>2 DEF vars, Inv, PreflightInv, PublishInv, CopyInv, Copying, OneVersion,
       OkMeansPublished, Empty, Published, Slot
  <2> QED BY <2>2, <2>3 DEF Inv
<1> QED BY <1>1, <1>2

\* The inductive invariant holds of every behaviour (publish.sh:71-85).
THEOREM Invariance == Spec => []Inv
<1> QED BY InitInv, NextInv, PTL DEF Spec

\* Whatever crashes and interventions there were, all secrets in all volumes come
\* from one source inventory (publish.sh:71-83).
THEOREM VolumesAgree == Spec => []OneVersion
<1>1. Inv => OneVersion
  BY DEF Inv
<1> QED BY <1>1, Invariance, PTL

\* A success means that every volume is complete, with its modes and owners, and
\* equal to the source (publish.sh:85).
THEOREM SuccessMeansPublished == Spec => []OkMeansPublished
<1>1. Inv => OkMeansPublished
  BY DEF Inv
<1> QED BY <1>1, Invariance, PTL

\* The publisher never writes to a published file (publish.sh:63).
THEOREM Immutable == Spec => PublishedIsImmutable
<1> DEFINE Kept == \A s \in Slots : stage[s] = "final" =>
                     \/ stage'[s] = "final" /\ version'[s] = version[s]
                     \/ pc = "idle" /\ stage'[s] = "absent"
<1>1. Inv /\ [Next]_vars => [Kept]_vars
  <2> SUFFICES ASSUME Inv, Next PROVE Kept
    BY DEF vars
  <2>1. CASE CopyBegins \/ CopyEnds \/ Chmod \/ Chown
    <3>1. Copying
      BY <2>1 DEF Copying, CopyBegins, CopyEnds, Chmod, Chown
    <3>2. stage[Slot] # "final"
      BY <3>1 DEF Inv, CopyInv
    <3>3. \A s \in Slots : s # Slot => stage'[s] = stage[s] /\ version'[s] = version[s]
      BY <2>1 DEF CopyBegins, CopyEnds, Chmod, Chown, Inv, TypeOK
    <3> QED BY <3>2, <3>3
  <2>2. CASE StartRun \/ CheckSource \/ Preflight \/ PublishTarget \/ Dies \/ ReplaceSource
    BY <2>2 DEF StartRun, CheckSource, Preflight, PublishTarget, Dies, ReplaceSource, volumes
  <2>3. ASSUME NEW t \in 1..Len(Targets), RemoveVolume(t) PROVE Kept
    BY <2>3 DEF RemoveVolume
  <2> QED BY <2>1, <2>2, <2>3 DEF Next
<1> QED BY <1>1, Invariance, PTL DEF Spec, PublishedIsImmutable
=============================================================================
