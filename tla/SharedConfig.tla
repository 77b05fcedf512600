---------------------------- MODULE SharedConfig ----------------------------
(***************************************************************************)
(* The shared-config-init container (deploy/compose.yaml): runs that       *)
(* publish a revision of the shared configuration into one volume.  Under  *)
(* an exclusive lock a run stages its payload, installs it as an immutable *)
(* release, or compares it with the release that is there, and makes it    *)
(* current: ln -s to a temporary name, then mv over the link that readers  *)
(* follow.                                                                 *)
(*                                                                         *)
(* The temporary name is .current.<pid>, and the shell is process 1 of its *)
(* container: every run uses the same name.  A run that is killed loses    *)
(* the lock but leaves what it has made.                                   *)
(***************************************************************************)
CONSTANTS
  Runs,        \* runs of the container
  Revisions,   \* values of NEXUSRELAY_REVISION that pass its format check
  Payloads,    \* contents of the allowlisted file
  None         \* nothing there

ASSUME NoneAssumption == None \notin Revisions /\ None \notin Payloads /\ None \notin Runs

VARIABLES
  pc,         \* where each run is
  revision,   \* the revision it publishes
  payload,    \* and its contents
  exit,       \* how it ended
  lock,       \* the run that holds /target/.publish.lock
  releases,   \* /target/releases: the contents of each installed revision
  nextLink,   \* /target/.current.1
  current     \* /target/current, which the services read through

vars == <<pc, revision, payload, exit, lock, releases, nextLink, current>>
inputs == <<revision, payload>>
volume == <<releases, nextLink, current>>

TypeOK ==
  /\ pc \in [Runs -> {"start", "lock", "stage", "compare", "install", "link", "swap", "done", "crashed"}]
  /\ revision \in [Runs -> Revisions \cup {None}]
  /\ payload \in [Runs -> Payloads \cup {None}]
  /\ exit \in [Runs -> {"none", "ok", "failed"}]
  /\ lock \in Runs \cup {None}
  /\ releases \in [Revisions -> Payloads \cup {None}]
  /\ nextLink \in Revisions \cup {None}
  /\ current \in Revisions \cup {None}

Init ==
  /\ pc = [r \in Runs |-> "start"]
  /\ revision = [r \in Runs |-> None]
  /\ payload = [r \in Runs |-> None]
  /\ exit = [r \in Runs |-> "none"]
  /\ lock = None
  /\ releases = [v \in Revisions |-> None]
  /\ nextLink = None /\ current = None

-----------------------------------------------------------------------------

Goto(r, label) == pc' = [pc EXCEPT ![r] = label]

\* The script ends: the lock goes with its file descriptor.
Exits(r, status) ==
  /\ Goto(r, "done")
  /\ exit' = [exit EXCEPT ![r] = status]
  /\ lock' = IF lock = r THEN None ELSE lock

Start(r) ==
  /\ pc[r] = "start"
  /\ \E v \in Revisions, p \in Payloads :
       /\ revision' = [revision EXCEPT ![r] = v]
       /\ payload' = [payload EXCEPT ![r] = p]
  /\ Goto(r, "lock")
  /\ UNCHANGED <<exit, lock, volume>>

\* A bug: the lock is shared.
AcquireLockShared(r) ==
  /\ pc[r] = "lock"
  /\ lock' = r
  /\ Goto(r, "stage")
  /\ UNCHANGED <<inputs, exit, volume>>

AcquireLock(r) ==
  /\ pc[r] = "lock"
  /\ lock = None
  /\ lock' = r
  /\ Goto(r, "stage")
  /\ UNCHANGED <<inputs, exit, volume>>

\* The candidate directory has a fresh name and is nobody else's business.
Stage(r) ==
  /\ pc[r] = "stage"
  /\ Goto(r, "compare")
  /\ UNCHANGED <<inputs, exit, lock, volume>>

\* A bug: an existing release is replaced by the candidate.
CompareReplaces(r) ==
  /\ pc[r] = "compare"
  /\ releases' = [releases EXCEPT ![revision[r]] = payload[r]]
  /\ Goto(r, "link")
  /\ UNCHANGED <<inputs, exit, lock, nextLink, current>>

\* A bug: an existing release is taken for the candidate.
CompareAcceptsAny(r) ==
  /\ pc[r] = "compare"
  /\ Goto(r, IF releases[revision[r]] = None THEN "install" ELSE "link")
  /\ UNCHANGED <<inputs, exit, lock, volume>>

\* An existing release must be the candidate, byte by byte.
Compare(r) ==
  /\ pc[r] = "compare"
  /\ \/ releases[revision[r]] = None /\ Goto(r, "install") /\ UNCHANGED <<exit, lock>>
     \/ releases[revision[r]] = payload[r] /\ Goto(r, "link") /\ UNCHANGED <<exit, lock>>
     \/ releases[revision[r]] \notin {None, payload[r]} /\ Exits(r, "failed")
  /\ UNCHANGED <<inputs, volume>>

\* A bug: the release is installed after the link to it.
InstallLater(r) ==
  /\ pc[r] = "install"
  /\ current' = revision[r]
  /\ Goto(r, "compare")
  /\ UNCHANGED <<inputs, exit, lock, releases, nextLink>>

\* mv of the candidate, which looks at nothing first: where a release has
\* appeared since Compare, mv would move the candidate into its directory of mode
\* 0555, which root without capabilities may not, and the script ends.
Install(r) ==
  /\ pc[r] = "install"
  /\ IF releases[revision[r]] = None
     THEN /\ releases' = [releases EXCEPT ![revision[r]] = payload[r]]
          /\ Goto(r, "link")
          /\ UNCHANGED <<exit, lock>>
     ELSE Exits(r, "failed") /\ UNCHANGED releases
  /\ UNCHANGED <<inputs, nextLink, current>>

\* ln -s.  Where .current.1 is a link to a release already, ln follows it and
\* cannot create anything in that directory.
Link(r) ==
  /\ pc[r] = "link"
  /\ \/ /\ nextLink = None
        /\ nextLink' = revision[r]
        /\ Goto(r, "swap")
        /\ UNCHANGED <<exit, lock>>
     \/ nextLink # None /\ Exits(r, "failed") /\ UNCHANGED nextLink
  /\ UNCHANGED <<inputs, releases, current>>

\* mv -Tf: one rename, which readers see before or after.
Swap(r) ==
  /\ pc[r] = "swap"
  /\ current' = nextLink
  /\ nextLink' = None
  /\ Exits(r, "ok")
  /\ UNCHANGED <<inputs, releases>>

Crash(r) ==
  /\ pc[r] \notin {"start", "done", "crashed"}
  /\ Goto(r, "crashed")
  /\ lock' = IF lock = r THEN None ELSE lock
  /\ UNCHANGED <<inputs, exit, volume>>

AllOver == (\A r \in Runs : pc[r] \in {"done", "crashed"}) /\ UNCHANGED vars

Next ==
  \/ \E r \in Runs : \/ Start(r) \/ AcquireLock(r) \/ Stage(r) \/ Compare(r) \/ Install(r)
                     \/ Link(r) \/ Swap(r) \/ Crash(r)
  \/ AllOver

Spec == Init /\ [][Next]_vars

-----------------------------------------------------------------------------
(* Properties *)

\* Whoever follows current finds an installed release, at any moment and after
\* any crash (compose.yaml:359-376).
CurrentResolves == current # None => releases[current] # None

\* A revision stands for one payload: two runs that succeeded with the same
\* revision, at whatever distance and with whatever runs killed in between,
\* published the same contents (compose.yaml:359-376).
OnePayloadPerRevision ==
  \A r, q \in Runs :
    exit[r] = "ok" /\ exit[q] = "ok" /\ revision[r] = revision[q] => payload[r] = payload[q]

\* A run that succeeds has just made its own revision with its own payload the
\* current one (compose.yaml:359-376).
OkMeansCurrent ==
  [][\A r \in Runs : exit[r] # "ok" /\ exit'[r] = "ok" =>
       current' = revision[r] /\ releases'[revision[r]] = payload[r]]_vars

\* deploy/shared/README.md: repeating a revision verifies that its payload is
\* identical, and it is a changed payload that fails (compose.yaml:359-376).
OnlyAChangedPayloadFails ==
  \A r \in Runs : exit[r] = "failed" => releases[revision[r]] # payload[r]

\* However many runs overlap, as long as none was killed it is true
\* (compose.yaml:349-376): a run never meets the .current.1 of another.
UnkilledRunsFailOnlyOverAChange ==
  (\A r \in Runs : pc[r] # "crashed") => OnlyAChangedPayloadFails

-----------------------------------------------------------------------------
(* The inductive invariant *)

\* Who is past the lock holds it, and what it has seen of the volume still holds.
LockInv ==
  \A r \in Runs :
    /\ pc[r] \in {"stage", "compare", "install", "link", "swap"} <=> lock = r
    /\ pc[r] # "start" => revision[r] # None /\ payload[r] # None
    /\ pc[r] = "install" => releases[revision[r]] = None
    /\ pc[r] \in {"link", "swap"} => releases[revision[r]] = payload[r]
    /\ pc[r] = "swap" => nextLink = revision[r]

\* Both links, the one a crash may have left too, lead to installed releases.
LinkInv ==
  /\ nextLink # None => releases[nextLink] # None
  /\ CurrentResolves

\* What a successful run published is still there.
OkInv ==
  \A r \in Runs : exit[r] = "ok" => pc[r] = "done" /\ releases[revision[r]] = payload[r]

\* All of it: the lock makes compare, install, link and swap one operation, of
\* which a crash leaves a prefix (compose.yaml:349-376).
Inv == TypeOK /\ LockInv /\ LinkInv /\ OkInv
=============================================================================
