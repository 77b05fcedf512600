-------------------------- MODULE SecretPublication --------------------------
(***************************************************************************)
(* The secret-publish container (deploy/secrets/publish.sh): it copies     *)
(* each service's allowlisted files from the protected source directory to *)
(* that service's secret volume.  All volumes are inspected before any is  *)
(* written, and only an empty one is written to.  Every command may fail,  *)
(* which ends the script (set -e), and the container may be killed between *)
(* any two commands or in the middle of a copy.                            *)
(*                                                                         *)
(* Between runs the operator may replace the source inventory and remove   *)
(* volumes (docs/runbooks/phase-2-local-core.md).  Compose keeps one       *)
(* container per service, so runs do not overlap.                          *)
(***************************************************************************)
EXTENDS Integers, Sequences

CONSTANTS
  Targets,       \* the order in which the volumes are inspected and filled
  FilesOf,       \* for each of them its allowlist, in the order of the copies
  MaxVersion     \* bound: how often the operator replaces the source

ASSUME TargetsAssumption ==
  /\ Len(Targets) \in Nat \ {0}
  /\ \A i \in 1..Len(Targets) : Len(FilesOf[Targets[i]]) \in Nat \ {0}

ASSUME MaxVersionAssumption == MaxVersion \in Nat

Slots == UNION {{<<t, f>> : f \in 1..Len(FilesOf[Targets[t]])} : t \in 1..Len(Targets)}
SlotsOf(t) == {s \in Slots : s[1] = t}

\* How far a file has come: cp has created it, cp has finished, chmod, chown.
Stages == {"absent", "partial", "copied", "mode", "final"}

VARIABLES
  pc,          \* where the script is, or "idle"
  target,      \* the index of the volume it is at
  file,        \* the index of the file in that volume
  stage,       \* for each file of each volume how far it has come
  version,     \* which source inventory it was copied from
  source,      \* the version of the source inventory
  sourceValid, \* the source is the exact inventory with the exact modes
  exit         \* how the last run ended, since the operator last intervened

vars == <<pc, target, file, stage, version, source, sourceValid, exit>>
volumes == <<stage, version>>
sourceVars == <<source, sourceValid>>

TypeOK ==
  /\ pc \in {"idle", "source", "preflight", "publish", "copy", "copying", "chmod", "chown"}
  /\ target \in 1..Len(Targets) /\ file \in Nat
  /\ stage \in [Slots -> Stages]
  /\ version \in [Slots -> 0..MaxVersion]
  /\ source \in 0..MaxVersion /\ sourceValid \in BOOLEAN
  /\ exit \in {"none", "ok", "failed"}

Init ==
  /\ pc = "idle" /\ target = 1 /\ file = 1
  /\ stage = [s \in Slots |-> "absent"]
  /\ version = [s \in Slots |-> 0]
  /\ source = 0 /\ sourceValid \in BOOLEAN
  /\ exit = "none"

-----------------------------------------------------------------------------
(* The script *)

Empty(t) == \A s \in SlotsOf(t) : stage[s] = "absent"

\* preflight_target accepts a volume that is complete and equal to the source.
Published(t) == \A s \in SlotsOf(t) : stage[s] = "final" /\ version[s] = source

Exits(status) ==
  /\ pc' = "idle"
  /\ exit' = status
  /\ UNCHANGED <<target, file>>

StartRun ==
  /\ pc = "idle"
  /\ pc' = "source"
  /\ UNCHANGED <<target, file, volumes, sourceVars, exit>>

CheckSource ==
  /\ pc = "source"
  /\ \/ /\ sourceValid
        /\ pc' = "preflight" /\ target' = 1
        /\ UNCHANGED <<file, exit>>
     \/ ~sourceValid /\ Exits("failed")
  /\ UNCHANGED <<volumes, sourceVars>>

\* The next volume, or the next pass over the volumes after the last one.
Advance(nextPass) ==
  \/ target < Len(Targets) /\ target' = target + 1 /\ UNCHANGED pc
  \/ target = Len(Targets) /\ target' = 1 /\ pc' = nextPass

\* A bug: a volume that is not empty is compared by the names in it only.
PreflightNamesOnly ==
  /\ pc = "preflight"
  /\ \/ /\ Empty(target) \/ \A s \in SlotsOf(target) : stage[s] # "absent"
        /\ Advance("publish")
        /\ UNCHANGED <<file, exit>>
     \/ /\ ~(Empty(target) \/ \A s \in SlotsOf(target) : stage[s] # "absent")
        /\ Exits("failed")
  /\ UNCHANGED <<volumes, sourceVars>>

\* A bug: the first volume that passes starts the publication.
PreflightFirstOnly ==
  /\ pc = "preflight"
  /\ \/ /\ Empty(target) \/ Published(target)
        /\ pc' = "publish"
        /\ UNCHANGED <<target, file, exit>>
     \/ ~(Empty(target) \/ Published(target)) /\ Exits("failed")
  /\ UNCHANGED <<volumes, sourceVars>>

Preflight ==
  /\ pc = "preflight"
  /\ \/ /\ Empty(target) \/ Published(target)
        /\ Advance("publish")
        /\ UNCHANGED <<file, exit>>
     \/ ~(Empty(target) \/ Published(target)) /\ Exits("failed")
  /\ UNCHANGED <<volumes, sourceVars>>

\* The last volume is done: the script reports success.
NextTarget ==
  \/ /\ target < Len(Targets)
     /\ target' = target + 1
     /\ pc' = "publish"
     /\ UNCHANGED <<file, exit>>
  \/ target = Len(Targets) /\ Exits("ok")

\* publish_target returns at once from a volume that is not empty.
PublishTarget ==
  /\ pc = "publish"
  /\ \/ ~Empty(target) /\ NextTarget
     \/ Empty(target) /\ pc' = "copy" /\ file' = 1 /\ UNCHANGED <<target, exit>>
  /\ UNCHANGED <<volumes, sourceVars>>

Slot == <<target, file>>

CopyBegins ==
  /\ pc = "copy"
  /\ stage' = [stage EXCEPT ![Slot] = "partial"]
  /\ version' = [version EXCEPT ![Slot] = source]
  /\ pc' = "copying"
  /\ UNCHANGED <<target, file, sourceVars, exit>>

CopyEnds ==
  /\ pc = "copying"
  /\ stage' = [stage EXCEPT ![Slot] = "copied"]
  /\ pc' = "chmod"
  /\ UNCHANGED <<target, file, version, sourceVars, exit>>

Chmod ==
  /\ pc = "chmod"
  /\ stage' = [stage EXCEPT ![Slot] = "mode"]
  /\ pc' = "chown"
  /\ UNCHANGED <<target, file, version, sourceVars, exit>>

\* chown ends the file, the last file the volume, the last volume the script.
Chown ==
  /\ pc = "chown"
  /\ stage' = [stage EXCEPT ![Slot] = "final"]
  /\ \/ /\ file < Len(FilesOf[Targets[target]])
        /\ file' = file + 1 /\ pc' = "copy"
        /\ UNCHANGED <<target, exit>>
     \/ file = Len(FilesOf[Targets[target]]) /\ NextTarget
  /\ UNCHANGED <<version, sourceVars>>

\* A command fails, or the container is killed.
Dies ==
  /\ pc # "idle"
  /\ Exits("failed")
  /\ UNCHANGED <<volumes, sourceVars>>

-----------------------------------------------------------------------------
(* The operator, while the publisher does not run *)

ReplaceSource ==
  /\ pc = "idle"
  /\ source < MaxVersion /\ source' = source + 1
  /\ sourceValid' \in BOOLEAN
  /\ exit' = "none"
  /\ UNCHANGED <<pc, target, file, volumes>>

RemoveVolume(t) ==
  /\ pc = "idle"
  /\ ~Empty(t)
  /\ stage' = [s \in Slots |-> IF s[1] = t THEN "absent" ELSE stage[s]]
  /\ exit' = "none"
  /\ UNCHANGED <<pc, target, file, version, sourceVars>>

Next ==
  \/ StartRun \/ CheckSource \/ Preflight \/ PublishTarget
  \/ CopyBegins \/ CopyEnds \/ Chmod \/ Chown \/ Dies
  \/ ReplaceSource \/ \E t \in 1..Len(Targets) : RemoveVolume(t)

Spec == Init /\ [][Next]_vars

-----------------------------------------------------------------------------
(* Properties *)

\* Whatever is in the volumes comes from one source inventory, after any crashes,
\* replacements of the source and removals of volumes (publish.sh:71-83): no
\* service ever starts with a password that another one does not know.
OneVersion ==
  \A s, t \in Slots : stage[s] # "absent" /\ stage[t] # "absent" => version[s] = version[t]

\* The script reports success (publish.sh:85) only when every volume is complete,
\* with its modes and owners, and equal to the source: what an earlier run left
\* half done never passes for published.
OkMeansPublished == exit = "ok" => \A t \in 1..Len(Targets) : Published(t)

\* A published file stays as it is until its volume is removed (publish.sh:63):
\* a run never writes to it again, not even the same contents.
PublishedIsImmutable ==
  [][\A s \in Slots : stage[s] = "final" =>
       \/ stage'[s] = "final" /\ version'[s] = version[s]
       \/ pc = "idle" /\ stage'[s] = "absent"]_vars

-----------------------------------------------------------------------------
(* The inductive invariant *)

\* What the inspection has established so far.
PreflightInv ==
  pc = "preflight" => \A t \in 1..(target - 1) : Empty(t) \/ Published(t)

Copying == pc \in {"copy", "copying", "chmod", "chown"}

\* The second pass: the volumes behind it are published, those ahead of it are
\* published or empty, ...
PublishInv ==
  pc = "publish" \/ Copying =>
    /\ \A t \in 1..(target - 1) : Published(t)
    /\ \A t \in (target + 1)..Len(Targets) : Empty(t) \/ Published(t)
    /\ pc = "publish" => Empty(target) \/ Published(target)

\* ... and the one it fills holds a prefix of its files and the one in hand.
CopyInv ==
  Copying =>
    /\ file \in 1..Len(FilesOf[Targets[target]])
    /\ \A s \in SlotsOf(target) :
         /\ s[2] < file => stage[s] = "final" /\ version[s] = source
         /\ s[2] > file => stage[s] = "absent"
    /\ stage[Slot] # "final"
    /\ (pc = "copy") = (stage[Slot] = "absent")
    /\ pc # "copy" => version[Slot] = source

\* All of it, with the properties it supports (publish.sh:71-85): the first pass
\* makes the second one safe, because nothing changes between them.
Inv ==
  /\ TypeOK
  /\ PreflightInv /\ PublishInv /\ CopyInv
  /\ OneVersion /\ OkMeansPublished
=============================================================================
