---------------------------- MODULE RuntimeInstall ----------------------------
(***************************************************************************)
(* Resolution and installation of the managed runtime by processes that    *)
(* share one cache directory (RuntimeResolver::resolve, install_managed:   *)
(* runtime/manager.rs).  A process may be killed at any step: its file     *)
(* lock goes with it, its files stay.                                      *)
(*                                                                         *)
(* What the installed root holds is abstracted to whether it passes the    *)
(* static verification.  remove_dir_all is two steps, the first of which   *)
(* opens the directory and takes something out of it.                      *)
(***************************************************************************)
EXTENDS Naturals, FiniteSets

CONSTANTS
  Resolvers,       \* calls of resolve, each in a process of its own
  MaxKills,        \* bound: processes killed
  MaxCorruptions   \* bound: changes of the root by something else

ASSUME InstallAssumption == MaxKills \in Nat /\ MaxCorruptions \in Nat

VARIABLES
  resolver,     \* per resolver: where resolve is
  root,         \* the managed root: absent, complete, broken, or no directory
  cause,        \* what made the root what it is
  temps,        \* temporary files of the cache: <<resolver, kind>>
  locker,       \* who holds the installation lock: at most one
  opened,       \* removers whose open directory still is the root
  abandoned,    \* resolvers whose future was dropped while they install
  littered,     \* resolvers that were killed or failed to clean up
  kills, corruptions

installVars == <<resolver, root, cause, temps, locker, opened, abandoned,
                 littered, kills, corruptions>>

Kinds == {"archive", "staging"}
Ended == {"elsewhere", "resolved", "failed", "dropped", "killed"}
Locked == {"sweeping", "inspecting", "removing", "downloading", "received",
           "extracting", "committing", "cleaning", "undoing"}

InstallInit ==
  /\ resolver = [r \in Resolvers |-> "idle"]
  /\ root = "absent"
  /\ cause = "none"
  /\ temps = {}
  /\ locker = {}
  /\ opened = {}
  /\ abandoned = {}
  /\ littered = {}
  /\ kills = 0
  /\ corruptions = 0

InstallTypeOK ==
  /\ resolver \in [Resolvers -> {"idle", "probing", "probed", "locking",
       "verifying", "launching", "discarding", "erasing"} \cup Locked \cup Ended]
  /\ root \in {"absent", "complete", "broken", "foreign"}
  /\ cause \in {"none", "commit", "tamper", "erase"}
  /\ temps \subseteq Resolvers \X Kinds
  /\ locker \subseteq Resolvers
  /\ opened \subseteq Resolvers
  /\ abandoned \subseteq Resolvers
  /\ littered \subseteq Resolvers
  /\ kills \in 0 .. MaxKills
  /\ corruptions \in 0 .. MaxCorruptions

GoTo(r, place) == resolver' = [resolver EXCEPT ![r] = place]

Waits(r, place) ==
  /\ GoTo(r, place)
  /\ UNCHANGED <<root, cause, temps, locker, opened, abandoned, littered, kills,
                 corruptions>>

-----------------------------------------------------------------------------
(* resolve, before the lock.                                                *)

(* An explicit root or a system package that verifies ends the resolution,  *)
(* an explicit root that does not fails it, and so does a symbolic link or  *)
(* a plain file among the components of the managed root.                   *)
BeginResolve(r) ==
  /\ resolver[r] = "idle"
  /\ \/ \E end \in {"elsewhere", "failed"} : Waits(r, end)
     \/ root \in {"complete", "broken"} /\ Waits(r, "probing")
     \/ root = "absent" /\ Waits(r, "locking")

(* DownloadPolicy::Never, or the installation.                              *)
Missing(r) == \E next \in {"failed", "locking"} : Waits(r, next)

(* The static part of RuntimePackage::verify on the cached root.            *)
Probe(r) ==
  /\ resolver[r] = "probing"
  /\ IF root = "complete" THEN Waits(r, "probed") ELSE Missing(r)

(* The version probe: what fails to run is a runtime.version error, which   *)
(* is returned; a guardian that cannot be set up is any other error.        *)
ProbeLaunch(r) ==
  /\ resolver[r] = "probed"
  /\ \/ root = "complete" /\ Waits(r, "resolved")
     \/ Waits(r, "failed")
     \/ Missing(r)

-----------------------------------------------------------------------------
(* install_managed, under the lock.                                         *)

CannotLock(r) == resolver[r] = "locking" /\ Waits(r, "failed")

TakeLock(r) ==
  /\ resolver[r] = "locking" /\ locker = {}
  /\ locker' = {r}
  /\ GoTo(r, "sweeping")
  /\ UNCHANGED <<root, cause, temps, opened, abandoned, littered, kills,
                 corruptions>>

(* Out of install_managed: the lock's file is closed, and resolve goes on   *)
(* unless its future is gone.                                               *)
Release(r, place) ==
  /\ locker' = {}
  /\ GoTo(r, IF r \in abandoned THEN "dropped" ELSE place)
  /\ UNCHANGED <<abandoned, kills, corruptions>>

\* Mutant: artifacts of others are left alone.
SweepNothing(r) == resolver[r] = "sweeping" /\ Waits(r, "inspecting")

(* cleanup_stale_installation_artifacts.                                    *)
Sweep(r) ==
  /\ resolver[r] = "sweeping"
  /\ temps' = {}
  /\ GoTo(r, "inspecting")
  /\ UNCHANGED <<root, cause, locker, opened, abandoned, littered, kills,
                 corruptions>>

SweepFails(r) ==
  /\ resolver[r] = "sweeping"
  /\ temps' \in SUBSET temps
  /\ Release(r, "failed")
  /\ UNCHANGED <<root, cause, opened, littered>>

(* Another process may have installed it meanwhile.                         *)
FoundInstalled(r) ==
  /\ resolver[r] = "inspecting" /\ root = "complete"
  /\ Release(r, "verifying")
  /\ UNCHANGED <<root, cause, temps, opened, littered>>

FoundAbsent(r) ==
  /\ resolver[r] = "inspecting" /\ root = "absent"
  /\ Waits(r, "downloading")

(* remove_path of what did not verify, a plain file at once.                *)
FoundInvalid(r) ==
  /\ resolver[r] = "inspecting"
  /\ \/ root = "broken" /\ opened' = opened \cup {r} /\ UNCHANGED root
        /\ GoTo(r, "removing")
     \/ root = "foreign" /\ root' = "absent" /\ UNCHANGED opened
        /\ GoTo(r, "downloading")
  /\ cause' = "erase"
  /\ UNCHANGED <<temps, locker, abandoned, littered, kills, corruptions>>

(* The rest of remove_dir_all: what was opened goes, unless another remover *)
(* was faster.                                                              *)
Erased(r) ==
  IF r \in opened
  THEN root' = "absent" /\ cause' = "erase" /\ opened' = {}
  ELSE UNCHANGED <<root, cause, opened>>

RemoveInvalid(r) ==
  /\ resolver[r] = "removing"
  /\ Erased(r)
  /\ GoTo(r, "downloading")
  /\ UNCHANGED <<temps, locker, abandoned, littered, kills, corruptions>>

RemoveFails(r) ==
  /\ resolver[r] = "removing"
  /\ opened' = opened \ {r}
  /\ Release(r, "failed")
  /\ UNCHANGED <<root, cause, temps, littered>>

Undo(r) == Waits(r, "undoing")

(* download_archive up to the creation of the archive, and its copy.        *)
DownloadBegins(r) ==
  /\ resolver[r] = "downloading"
  /\ \/ Undo(r)
     \/ /\ temps' = temps \cup {<<r, "archive">>}
        /\ GoTo(r, "received")
        /\ UNCHANGED <<root, cause, locker, opened, abandoned, littered, kills,
                       corruptions>>

(* The copy fails or lasts too long, or its size or digest is not the       *)
(* pinned one; else extract_runtime begins.                                 *)
DownloadEnds(r) ==
  /\ resolver[r] = "received"
  /\ \/ Undo(r)
     \/ /\ temps' = temps \cup {<<r, "staging">>}
        /\ GoTo(r, "extracting")
        /\ UNCHANGED <<root, cause, locker, opened, abandoned, littered, kills,
                       corruptions>>

\* Mutant: the archive is unpacked where it is used.
ExtractInPlace(r) ==
  /\ resolver[r] = "extracting"
  /\ root' = "broken" /\ cause' = "commit"
  /\ GoTo(r, "committing")
  /\ UNCHANGED <<temps, locker, opened, abandoned, littered, kills, corruptions>>

(* extract_runtime: the locked files and no others, each once.              *)
Extract(r) ==
  /\ resolver[r] = "extracting"
  /\ Undo(r) \/ Waits(r, "committing")

(* The rename: it needs the place to be free.                               *)
Commit(r) ==
  /\ resolver[r] = "committing"
  /\ \/ Undo(r)
     \/ /\ root = "absent"
        /\ root' = "complete" /\ cause' = "commit"
        /\ temps' = temps \ {<<r, "staging">>}
        /\ opened' = {}
        /\ GoTo(r, "cleaning")
        /\ UNCHANGED <<locker, abandoned, littered, kills, corruptions>>

(* cleanup_installation_attempt, after success and failure alike.           *)
Clean(r) ==
  /\ resolver[r] \in {"cleaning", "undoing"}
  /\ temps' = temps \ ({r} \X Kinds)
  /\ Release(r, IF resolver[r] = "cleaning" THEN "verifying" ELSE "failed")
  /\ UNCHANGED <<root, cause, opened, littered>>

CleanFails(r) ==
  /\ resolver[r] \in {"cleaning", "undoing"}
  /\ littered' = littered \cup {r}
  /\ Release(r, "failed")
  /\ UNCHANGED <<root, cause, temps, opened>>

-----------------------------------------------------------------------------
(* resolve, after the installation and without the lock.                    *)

VerifyInstalled(r) ==
  /\ resolver[r] = "verifying"
  /\ Waits(r, IF root = "complete" THEN "launching" ELSE "discarding")

Launch(r) ==
  /\ resolver[r] = "launching"
  /\ \/ root = "complete" /\ Waits(r, "resolved")
     \/ Waits(r, "failed")
     \/ Waits(r, "discarding")

(* cleanup_failed_managed_verification: any error but runtime.version.      *)
Discard(r) ==
  /\ resolver[r] = "discarding"
  /\ \/ /\ root \in {"complete", "broken"}
        /\ root' = "broken" /\ cause' = "erase"
        /\ opened' = opened \cup {r}
        /\ GoTo(r, "erasing")
     \/ /\ root \in {"absent", "foreign"}
        /\ root' = "absent"
        /\ GoTo(r, "failed")
        /\ UNCHANGED <<cause, opened>>
  /\ UNCHANGED <<temps, locker, abandoned, littered, kills, corruptions>>

EraseDiscarded(r) ==
  /\ resolver[r] = "erasing"
  /\ Erased(r)
  /\ GoTo(r, "failed")
  /\ UNCHANGED <<temps, locker, abandoned, littered, kills, corruptions>>

-----------------------------------------------------------------------------
(* What happens to a resolver.                                              *)

(* The future is dropped at an await; spawn_blocking carries on.            *)
DropResolve(r) ==
  \/ /\ resolver[r] \in {"probing", "probed", "verifying", "launching"}
     /\ Waits(r, "dropped")
  \/ /\ resolver[r] \in Locked \cup {"locking"} /\ r \notin abandoned
     /\ abandoned' = abandoned \cup {r}
     /\ UNCHANGED <<resolver, root, cause, temps, locker, opened, littered, kills,
                    corruptions>>

\* Mutant: a lock that is a file outlives its owner.
KillKeepsLock(r) ==
  /\ resolver[r] \notin Ended /\ kills < MaxKills
  /\ kills' = kills + 1
  /\ opened' = opened \ {r}
  /\ littered' = littered \cup {r}
  /\ GoTo(r, "killed")
  /\ UNCHANGED <<root, cause, temps, locker, abandoned, corruptions>>

(* The process dies and the system unlocks its file.                        *)
Kill(r) ==
  /\ resolver[r] \notin Ended /\ kills < MaxKills
  /\ kills' = kills + 1
  /\ locker' = locker \ {r}
  /\ opened' = opened \ {r}
  /\ littered' = littered \cup {r}
  /\ GoTo(r, "killed")
  /\ UNCHANGED <<root, cause, temps, abandoned, corruptions>>

(* Something else damages, removes or replaces the installed root.          *)
Corrupt ==
  /\ corruptions < MaxCorruptions /\ root = "complete"
  /\ corruptions' = corruptions + 1
  /\ root' \in {"broken", "absent", "foreign"}
  /\ cause' = "tamper"
  /\ UNCHANGED <<resolver, temps, locker, opened, abandoned, littered, kills>>

ResolveStep(r) ==
  \/ BeginResolve(r) \/ Probe(r) \/ ProbeLaunch(r) \/ TakeLock(r)
  \/ Sweep(r) \/ SweepFails(r) \/ FoundInstalled(r) \/ FoundAbsent(r)
  \/ FoundInvalid(r) \/ RemoveInvalid(r) \/ RemoveFails(r)
  \/ DownloadBegins(r) \/ DownloadEnds(r) \/ Extract(r) \/ Commit(r)
  \/ Clean(r) \/ CleanFails(r)
  \/ VerifyInstalled(r) \/ Launch(r) \/ Discard(r) \/ EraseDiscarded(r)

InstallNext ==
  \/ \E r \in Resolvers :
       ResolveStep(r) \/ CannotLock(r) \/ DropResolve(r) \/ Kill(r)
  \/ Corrupt

InstallSpec == InstallInit /\ [][InstallNext]_installVars

-----------------------------------------------------------------------------
(* No kill, drop or failure of an installation leaves a root that does not  *)
(* verify: only a removal or something else does (the rename of a staging   *)
(* directory commits it).                                                   *)
NoTornInstall == root = "broken" => cause \in {"tamper", "erase"}

(* One process installs at a time, in a cache without the leavings of       *)
(* others; files outlive their owner's lock only if it was killed or could  *)
(* not remove them.                                                         *)
OneInstallation ==
  /\ \A r \in Resolvers :
       resolver[r] \in Locked \ {"sweeping"}
         => locker = {r} /\ temps \subseteq {r} \X Kinds
  /\ \A t \in temps : t[1] \in locker \cup littered

(* Whatever is killed, dropped or fails, every call of resolve ends.        *)
EveryResolveEnds ==
  \A r \in Resolvers : resolver[r] # "idle" ~> resolver[r] \in Ended
=============================================================================
