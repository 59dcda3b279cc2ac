------------------------- MODULE RuntimeVerification -------------------------
(***************************************************************************)
(* The verification of a runtime package (RuntimePackage::verify and       *)
(* verify_with_deadline, VerificationJob, VerificationProcess,             *)
(* verify_version_with_timeout: runtime.rs), in two stages: the files, by  *)
(* a helper process under a guardian if there is a deadline and by a       *)
(* blocking worker if there is none, and then the version that the         *)
(* entrypoint prints under a guardian of its own.                          *)
(*                                                                         *)
(* What the helper and the entrypoint find is their exit status.  Each     *)
(* guardian is an executable unpacked to a directory made for it.          *)
(***************************************************************************)
EXTENDS Naturals

VARIABLES
  verifier,   \* where the verification is
  stage,      \* files or version
  timed,      \* whether the caller has a deadline
  expired,    \* whether the time of the stage's wait is over
  guardian,   \* per stage: the guardian process
  disk,       \* what is unpacked: <<stage, directory or helper>>
  fault,      \* whether something failed since the guardian was spawned
  reaping,    \* guardians of whose end the parent has been told
  doomed,     \* guardians that were sent a signal that ends them
  stuck       \* whether a removal has failed or was left out

verificationVars == <<verifier, stage, timed, expired, guardian, disk, fault,
                      reaping, doomed, stuck>>

Stages == {"files", "version"}
Parts == {"directory", "helper"}
Verified == {"valid", "invalid", "cancelled"}

VerificationInit ==
  /\ verifier = "idle"
  /\ stage = "files"
  /\ timed \in BOOLEAN
  /\ expired = FALSE
  /\ guardian = [s \in Stages |-> "none"]
  /\ disk = {}
  /\ fault = FALSE
  /\ reaping = {}
  /\ doomed = {}
  /\ stuck = FALSE

VerificationTypeOK ==
  /\ verifier \in {"idle", "making", "unpacking", "spawning", "waiting",
       "draining", "killing", "reaping", "sweeping", "worker"} \cup Verified
  /\ stage \in Stages
  /\ timed \in BOOLEAN /\ expired \in BOOLEAN
  /\ guardian \in [Stages -> {"none", "running", "passed", "refused"}]
  /\ disk \subseteq Stages \X Parts
  /\ fault \in BOOLEAN /\ stuck \in BOOLEAN
  /\ reaping \subseteq Stages /\ doomed \subseteq Stages

(* The end of a job drops its guardian, which is killed if it still runs    *)
(* (kill_on_drop).                                                          *)
Verdict(v) ==
  /\ verifier' = v
  /\ doomed' = doomed \cup {s \in Stages : guardian[s] = "running"}

Fails == Verdict("invalid")

-----------------------------------------------------------------------------
(* VerificationJob::spawn and the version probe up to their guardian.       *)

(* The pinned schema, the host and the deadline come first.                 *)
BeginVerify ==
  /\ verifier = "idle"
  /\ \/ Fails
     \/ ~timed /\ verifier' = "worker" /\ UNCHANGED doomed
     \/ timed /\ ~expired /\ verifier' = "making" /\ UNCHANGED doomed
  /\ UNCHANGED <<stage, timed, expired, guardian, disk, fault, reaping, stuck>>

(* A worker without a deadline: join_verification_handle.                   *)
WorkerEnded ==
  /\ verifier = "worker"
  /\ \/ Fails /\ UNCHANGED stage
     \/ verifier' = "making" /\ stage' = "version" /\ UNCHANGED doomed
  /\ UNCHANGED <<timed, expired, guardian, disk, fault, reaping, stuck>>

MakeDirectory ==
  /\ verifier = "making"
  /\ \/ Fails /\ UNCHANGED disk
     \/ /\ disk' = disk \cup {<<stage, "directory">>}
        /\ verifier' = "unpacking"
        /\ UNCHANGED doomed
  /\ UNCHANGED <<stage, timed, expired, guardian, fault, reaping, stuck>>

(* What is unpacked is removed, the directory only once it is empty; either *)
(* may fail.                                                                *)
Removed(there) ==
  \E left \in SUBSET there :
    /\ <<stage, "helper">> \in left => <<stage, "directory">> \in left
    /\ disk' = left
    /\ stuck' = (stuck \/ left # {})

(* A helper that could not be written is left in its directory, whose       *)
(* removal then fails.                                                      *)
Unpack ==
  /\ verifier = "unpacking"
  /\ \/ /\ disk' = disk \cup {<<stage, "helper">>}
        /\ verifier' = "spawning"
        /\ UNCHANGED <<doomed, stuck>>
     \/ Fails /\ Removed(disk)
     \/ Fails /\ disk' = disk \cup {<<stage, "helper">>} /\ stuck' = TRUE
  /\ UNCHANGED <<stage, timed, expired, guardian, fault, reaping>>

(* No PATH for the version probe: its early return removes nothing.         *)
CannotSpawn ==
  /\ verifier = "spawning"
  /\ Fails
  /\ \/ Removed(disk)
     \/ stage = "version" /\ stuck' = TRUE /\ UNCHANGED disk
  /\ UNCHANGED <<stage, timed, expired, guardian, fault, reaping>>

(* The identity or a pipe of the new guardian is missing: it is killed.     *)
CaptureFails ==
  /\ verifier = "spawning"
  /\ guardian' = [guardian EXCEPT ![stage] = "running"]
  /\ doomed' = doomed \cup {stage}
  /\ verifier' = "invalid"
  /\ Removed(disk)
  /\ UNCHANGED <<stage, timed, expired, fault, reaping>>

SpawnGuardian ==
  /\ verifier = "spawning"
  /\ guardian' = [guardian EXCEPT ![stage] = "running"]
  /\ verifier' = "waiting"
  /\ UNCHANGED <<stage, timed, expired, disk, fault, reaping, doomed, stuck>>

-----------------------------------------------------------------------------
(* The guardian and the time, which are not the caller's.                   *)

GuardianExits ==
  \E s \in Stages, end \in {"passed", "refused"} :
    /\ guardian[s] = "running"
    /\ end = "passed" => s \notin doomed
    /\ guardian' = [guardian EXCEPT ![s] = end]
    /\ UNCHANGED <<verifier, stage, timed, expired, disk, fault, reaping, doomed,
                   stuck>>

TimePasses ==
  /\ ~expired /\ verifier \notin Verified
  /\ timed \/ stage = "version"
  /\ expired' = TRUE
  /\ UNCHANGED <<verifier, stage, timed, guardian, disk, fault, reaping, doomed,
                 stuck>>

-----------------------------------------------------------------------------
(* join_process_with_deadline, finish_process_status and the same of the    *)
(* version probe.                                                           *)

Exited(s) == guardian[s] \in {"passed", "refused"}

(* wait() returns the status, or an error after which the guardian is       *)
(* terminated all the same.                                                 *)
WaitReturns ==
  /\ verifier = "waiting" /\ Exited(stage)
  /\ reaping' = reaping \cup {stage}
  /\ fault' = (guardian[stage] = "refused")
  /\ verifier' = "draining"
  /\ UNCHANGED <<stage, timed, expired, guardian, disk, doomed, stuck>>

WaitErrs ==
  /\ verifier = "waiting"
  /\ verifier' = "killing"
  /\ UNCHANGED <<stage, timed, expired, guardian, disk, fault, reaping, doomed,
                 stuck>>

\* Mutant: a helper that has been started is waited for.
WaitPatiently == FALSE /\ UNCHANGED verificationVars

(* The time is over, perhaps together with the exit.                        *)
WaitExpires ==
  /\ verifier = "waiting" /\ expired
  /\ verifier' = "killing"
  /\ UNCHANGED <<stage, timed, expired, guardian, disk, fault, reaping, doomed,
                 stuck>>

(* The output: read to its end, over its bound, unreadable, not what was    *)
(* asked for, or held open by someone for longer than the grace.            *)
Drain ==
  /\ verifier = "draining"
  /\ fault' = TRUE \/ UNCHANGED fault
  /\ verifier' = "sweeping"
  /\ UNCHANGED <<stage, timed, expired, guardian, disk, reaping, doomed, stuck>>

(* process_tree::terminate: a TERM, which may fail.                         *)
TerminateVerifier ==
  /\ verifier = "killing"
  /\ doomed' \in {doomed, doomed \cup {stage}}
  /\ fault' = TRUE
  /\ verifier' = "reaping"
  /\ UNCHANGED <<stage, timed, expired, guardian, disk, reaping, stuck>>

(* The wait of VERSION_CLEANUP_GRACE, over with or without an exit.         *)
Reap ==
  /\ verifier = "reaping"
  /\ reaping' = IF Exited(stage) THEN reaping \cup {stage} ELSE reaping
  /\ verifier' = "sweeping"
  /\ UNCHANGED <<stage, timed, expired, guardian, disk, fault, doomed, stuck>>

\* Mutant: what cannot be removed is not reported.
SweepForgives ==
  /\ verifier = "sweeping"
  /\ Removed(disk)
  /\ IF fault
     THEN Fails /\ UNCHANGED <<stage, expired>>
     ELSE IF stage = "version" THEN Verdict("valid") /\ UNCHANGED <<stage, expired>>
     ELSE IF expired THEN Fails /\ UNCHANGED <<stage, expired>>
     ELSE verifier' = "making" /\ stage' = "version" /\ UNCHANGED <<doomed, expired>>
  /\ fault' = FALSE
  /\ UNCHANGED <<timed, guardian, reaping>>

(* cleanup_version_artifacts, and the verdict: what remains is an error     *)
(* too.  A deadline that passed with the files leaves none for the version. *)
SweepArtifacts ==
  /\ verifier = "sweeping"
  /\ Removed(disk)
  /\ IF fault \/ disk' # {}
     THEN Fails /\ UNCHANGED <<stage, expired>>
     ELSE IF stage = "version" THEN Verdict("valid") /\ UNCHANGED <<stage, expired>>
     ELSE IF expired THEN Fails /\ UNCHANGED <<stage, expired>>
     ELSE verifier' = "making" /\ stage' = "version" /\ UNCHANGED <<doomed, expired>>
  /\ fault' = FALSE
  /\ UNCHANGED <<timed, guardian, reaping>>

(* The future is dropped at an await.                                       *)
DropVerify ==
  /\ verifier \in {"worker", "waiting", "draining", "reaping"}
  /\ Verdict("cancelled")
  /\ UNCHANGED <<stage, timed, expired, guardian, disk, fault, reaping, stuck>>

VerifyStep ==
  \/ BeginVerify \/ MakeDirectory \/ Unpack \/ CannotSpawn \/ CaptureFails
  \/ SpawnGuardian \/ WaitReturns \/ WaitExpires \/ Drain \/ TerminateVerifier \/ Reap
  \/ SweepArtifacts

VerificationNext ==
  VerifyStep \/ WaitErrs \/ WorkerEnded \/ GuardianExits \/ TimePasses \/ DropVerify

VerificationSpec == VerificationInit /\ [][VerificationNext]_verificationVars

-----------------------------------------------------------------------------
(* A package is reported valid only after both guardians were waited for    *)
(* and passed and nothing they needed is left.  After a failure nothing is  *)
(* left but what could not be (or, for want of a PATH, was not) removed,    *)
(* and no guardian runs on unsignalled, whichever of exit, deadline, output *)
(* and removal came first.                                                  *)
VerificationLeavesNothing ==
  /\ verifier = "valid" =>
       /\ disk = {}
       /\ guardian["version"] = "passed" /\ "version" \in reaping
       /\ timed => guardian["files"] = "passed" /\ "files" \in reaping
  /\ verifier = "invalid" => disk = {} \/ stuck
  /\ verifier \in Verified =>
       \A s \in Stages : guardian[s] = "running" => s \in doomed

(* A verification with a deadline ends, even if a helper blocks on a file   *)
(* for ever.                                                                *)
TimedVerificationEnds ==
  timed /\ verifier # "idle" ~> verifier \in Verified
=============================================================================
