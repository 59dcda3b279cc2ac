------------------------------ MODULE Guardian ------------------------------
(***************************************************************************)
(* The custody of the app-server's process group:                          *)
(* src/native/vergerail_guardian.c.  The host (the Rust program) owns a    *)
(* monitor; the monitor forks a worker in a session of its own; the worker *)
(* forks the leader, which becomes the app-server, watches the host and    *)
(* the monitor, and in the end empties the leader's process group.         *)
(*                                                                         *)
(* A step is a system call and what follows from its result: between two   *)
(* of them signals arrive, processes fork and processes die.  Descendants  *)
(* that leave the group (setsid, setpgid) are out of the guardian's        *)
(* custody and of this model.                                              *)
(***************************************************************************)
EXTENDS Naturals

CONSTANTS
  Members,        \* the processes that may appear in the leader's group
  ScanAttempts    \* SCAN_ATTEMPTS

ASSUME ScanAttemptsAssumption == ScanAttempts \in Nat \ {0}

VARIABLES
  host,         \* the Rust process
  asked,        \* it sent TERM to its guardian (history)
  monitor,      \* where main is
  monitorStop,  \* the monitor's copy of stop_requested
  watched,      \* what getppid returned: the host, or init once it is gone
  tether,       \* the monitor's end of monitor_liveness_pipe is open
  result,       \* the monitor's exit status
  worker,       \* where run_worker is
  stop,         \* the worker's copy of stop_requested
  failed,       \* exec was not confirmed: the worker will report a failure
  force,        \* wait_for_leader_exit runs with force_kill
  tries,        \* the attempts of the loop the worker is in
  code,         \* the worker's exit status
  leader,       \* the leader process; zombie: exited and not reaped
  grouped,      \* setpgid made it the leader of its own group
  members,      \* per member: none, alive, dying (killed) or gone
  stray         \* a group was signalled after its leader was reaped (history)

monitorVars == <<monitor, monitorStop, watched, result>>
workerVars  == <<worker, failed, force, tries, code>>
leaderVars  == <<leader, grouped>>
vars == <<host, asked, monitorVars, tether, workerVars, stop, leaderVars,
          members, stray>>

Init ==
  /\ host = "alive"
  /\ asked = FALSE
  /\ monitor = "start"
  /\ monitorStop = FALSE
  /\ watched = "nobody"
  /\ tether = FALSE
  /\ result = "none"
  /\ worker = "none"
  /\ stop = FALSE
  /\ failed = FALSE
  /\ force = FALSE
  /\ tries = 0
  /\ code = "none"
  /\ leader = "none"
  /\ grouped = FALSE
  /\ members = [m \in Members |-> "none"]
  /\ stray = FALSE

-----------------------------------------------------------------------------
(* The host.                                                               *)

HostDies ==
  /\ host = "alive"
  /\ host' = "dead"
  /\ UNCHANGED <<asked, monitorVars, tether, workerVars, stop, leaderVars,
                 members, stray>>

(* request_stop in the monitor: it passes the signal on to the worker it   *)
(* knows of and lets go of the pipe it knows of.                           *)
RequestStop ==
  /\ monitorStop' = TRUE
  /\ stop' = (stop \/ (/\ monitor \in {"recorded", "waiting"}
                       /\ worker # "exited"))
  /\ tether' = (tether /\ monitor # "waiting")

(* process_tree::terminate: TERM to the guardian the host still owns.      *)
(* Before its handlers are installed it dies of it.                        *)
Terminate ==
  /\ host = "alive"
  /\ monitor \notin {"exited", "killed"}
  /\ asked' = TRUE
  /\ IF monitor = "start"
     THEN monitor' = "killed" /\ UNCHANGED <<monitorStop, stop, tether>>
     ELSE RequestStop /\ UNCHANGED monitor
  /\ UNCHANGED <<host, watched, result, workerVars, leaderVars, members,
                 stray>>

(* The host's Child is dropped (kill_on_drop) or killed.                   *)
KillMonitor ==
  /\ host = "alive"
  /\ monitor \notin {"exited", "killed"}
  /\ monitor' = "killed"
  /\ tether' = FALSE
  /\ UNCHANGED <<host, asked, monitorStop, watched, result, workerVars, stop,
                 leaderVars, members, stray>>

-----------------------------------------------------------------------------
(* The monitor: main.                                                      *)

InstallHandlers ==
  /\ monitor = "start"
  /\ monitor' = "handling"
  /\ UNCHANGED <<host, asked, monitorStop, watched, result, tether, workerVars,
                 stop, leaderVars, members, stray>>

GetParent ==
  /\ monitor = "handling"
  /\ monitor' = "knowing"
  /\ watched' = IF host = "alive" THEN "host" ELSE "init"
  /\ UNCHANGED <<host, asked, monitorStop, result, tether, workerVars, stop,
                 leaderVars, members, stray>>

(* The worker starts with a copy of the monitor's memory.                  *)
ForkWorker ==
  /\ monitor = "knowing"
  /\ monitor' = "forked"
  /\ tether' = TRUE
  /\ worker' = "setup"
  /\ stop' = monitorStop
  /\ UNCHANGED <<host, asked, monitorStop, watched, result, failed, force,
                 tries, code, leaderVars, members, stray>>

ForkWorkerFails ==
  /\ monitor = "knowing"
  /\ monitor' = "exited"
  /\ result' = "failure"
  /\ UNCHANGED <<host, asked, monitorStop, watched, tether, workerVars, stop,
                 leaderVars, members, stray>>

(* worker_pid, then liveness_fd.                                           *)
RecordWorker ==
  /\ \/ monitor = "forked" /\ monitor' = "recorded"
     \/ monitor = "recorded" /\ monitor' = "waiting"
  /\ UNCHANGED <<host, asked, monitorStop, watched, result, tether, workerVars,
                 stop, leaderVars, members, stray>>

(* waitpid, and the monitor's own exit.                                    *)
ReapWorker ==
  /\ monitor = "waiting"
  /\ worker = "exited"
  /\ monitor' = "exited"
  /\ result' = code
  /\ tether' = FALSE
  /\ UNCHANGED <<host, asked, monitorStop, watched, workerVars, stop,
                 leaderVars, members, stray>>

-----------------------------------------------------------------------------
(* The worker: run_worker.                                                 *)

Go(place) == worker' = place /\ UNCHANGED <<failed, force, tries, code>>
Leave(what) ==
  worker' = "exited" /\ code' = what /\ UNCHANGED <<failed, force, tries>>

ParentGone == host = "dead" /\ watched = "host"

(* setsid, kqueue and register_parent_watcher, which fails for a process   *)
(* that is gone; and the failures of any of these calls.                   *)
WatchParent ==
  /\ worker = "setup"
  /\ \/ ~ParentGone /\ Go("spawning")
     \/ Leave("failure")
  /\ UNCHANGED <<host, asked, monitorVars, tether, stop, leaderVars, members,
                 stray>>

ForkLeader ==
  /\ worker = "spawning"
  /\ \/ Go("confirming") /\ leader' = "starting"
     \/ Leave("failure") /\ UNCHANGED leader
  /\ UNCHANGED <<host, asked, monitorVars, tether, stop, grouped, members,
                 stray>>

(* read_exec_result: the end of the exec pipe, or the error in it.         *)
ConfirmExec ==
  /\ worker = "confirming"
  /\ leader # "starting"
  /\ IF failed THEN Go("observing") ELSE Go("watching")
  /\ UNCHANGED <<host, asked, monitorVars, tether, stop, leaderVars, members,
                 stray>>

\* Mutant: the end of the pipe from the monitor is not looked at.
LoopEndsUntethered == leader = "zombie" \/ stop \/ ParentGone

(* What ends the main loop: the leader's exit, a stop, the host's exit, or *)
(* the end of the pipe from the monitor (parent_exited).                   *)
LoopEnds == leader = "zombie" \/ stop \/ ParentGone \/ ~tether
EndLoop ==
  /\ worker = "watching"
  /\ LoopEnds
  /\ Go("observing")
  /\ UNCHANGED <<host, asked, monitorVars, tether, stop, leaderVars, members,
                 stray>>

(* So does an error of any of the loop's calls.                            *)
LoopError ==
  /\ worker = "watching"
  /\ Go("observing")
  /\ UNCHANGED <<host, asked, monitorVars, tether, stop, leaderVars, members,
                 stray>>

-----------------------------------------------------------------------------
(* terminate_private_group.                                                *)

InGroup(m) == members[m] \in {"alive", "dying"}
HasOther == \E m \in Members : InGroup(m)

(* killpg(leader, SIGKILL).                                                *)
KillGroup ==
  /\ leader' = IF leader \in {"running", "failing"} THEN "dying" ELSE leader
  /\ members' =
       [m \in Members |-> IF members[m] = "alive" THEN "dying" ELSE members[m]]
  /\ stray' = (stray \/ leader = "gone")

(* wait_for_leader_exit: the leader may have exited already.               *)
ObserveLeader ==
  /\ worker = "observing"
  /\ worker' = IF leader = "zombie" THEN "scanning" ELSE "signalling"
  /\ tries' = 0
  /\ UNCHANGED <<host, asked, monitorVars, tether, stop, failed, force, code,
                 leaderVars, members, stray>>

(* signal_private_group for a leader that was not seen to exit.  TERM      *)
(* obliges nobody; a leader that exited since, or that never had a group   *)
(* of its own, makes it fail.                                              *)
SignalLeader ==
  /\ worker = "signalling"
  /\ IF leader = "zombie" \/ ~grouped
     THEN Leave("failure") /\ UNCHANGED <<leader, members, stray>>
     ELSE /\ Go("awaiting")
          /\ IF force THEN KillGroup
             ELSE /\ stray' = (stray \/ leader = "gone")
                  /\ UNCHANGED <<leader, members>>
  /\ UNCHANGED <<host, asked, monitorVars, tether, stop, grouped>>

(* Its attempts, first after TERM, then after KILL.                        *)
AwaitLeader ==
  /\ worker = "awaiting"
  /\ \/ /\ leader = "zombie"
        /\ worker' = "scanning" /\ tries' = 0
        /\ UNCHANGED <<force, code>>
     \/ /\ leader # "zombie" /\ tries + 1 < ScanAttempts
        /\ tries' = tries + 1
        /\ UNCHANGED <<worker, force, code>>
     \/ /\ leader # "zombie" /\ tries + 1 = ScanAttempts
        /\ IF force
           THEN worker' = "exited" /\ code' = "failure" /\ UNCHANGED force
           ELSE worker' = "observing" /\ force' = TRUE /\ UNCHANGED code
        /\ UNCHANGED tries
  /\ UNCHANGED <<host, asked, monitorVars, tether, stop, failed, leaderVars,
                 members, stray>>

\* Mutant: the leader is reaped as soon as it is seen to have exited.
ScanAndReap ==
  /\ worker = "scanning"
  /\ Go(IF HasOther THEN "killing" ELSE "rescanning")
  /\ leader' = IF HasOther THEN "gone" ELSE leader
  /\ UNCHANGED <<host, asked, monitorVars, tether, stop, grouped, members,
                 stray>>

(* A round: the scan, and the delayed scan that confirms an empty group.   *)
Scan ==
  /\ worker = "scanning"
  /\ IF leader = "zombie"
     THEN Go(IF HasOther THEN "killing" ELSE "rescanning")
     ELSE Leave("failure")
  /\ UNCHANGED <<host, asked, monitorVars, tether, stop, leaderVars, members,
                 stray>>

Rescan ==
  /\ worker = "rescanning"
  /\ Go(IF HasOther THEN "killing" ELSE "reaping")
  /\ UNCHANGED <<host, asked, monitorVars, tether, stop, leaderVars, members,
                 stray>>

\* Mutant: a KILL counts as the end of the survivors.
NextRoundTrusting ==
  /\ worker' = "reaping"
  /\ UNCHANGED <<tries, code, force, failed>>
NextRound ==
  /\ IF tries + 1 < ScanAttempts
     THEN worker' = "scanning" /\ tries' = tries + 1 /\ UNCHANGED code
     ELSE worker' = "exited" /\ code' = "failure" /\ UNCHANGED tries
  /\ UNCHANGED <<force, failed>>

(* signal_private_group for a leader that has exited looks once more       *)
(* before it signals.                                                      *)
KillSurvivors ==
  /\ worker = "killing"
  /\ IF HasOther THEN KillGroup ELSE UNCHANGED <<leader, members, stray>>
  /\ NextRound
  /\ UNCHANGED <<host, asked, monitorVars, tether, stop, grouped>>

(* reap_leader, and the status the worker ends with.                       *)
ReapLeader ==
  /\ worker = "reaping"
  /\ IF leader = "zombie"
     THEN leader' = "gone" /\ Leave(IF failed THEN "failure" ELSE "status")
     ELSE Leave("failure") /\ UNCHANGED leader
  /\ UNCHANGED <<host, asked, monitorVars, tether, stop, grouped, members,
                 stray>>

(* Every scan, wait and signal may fail; the teardown then does.           *)
TeardownError ==
  /\ worker \in {"observing", "signalling", "awaiting", "scanning",
                 "rescanning", "killing", "reaping"}
  /\ Leave("failure")
  /\ UNCHANGED <<host, asked, monitorVars, tether, stop, leaderVars, members,
                 stray>>

-----------------------------------------------------------------------------
(* The leader and its descendants.                                         *)

(* setpgid and execv, or the error of either in the exec pipe.             *)
Exec ==
  /\ leader = "starting"
  /\ \/ leader' = "running" /\ grouped' = TRUE /\ UNCHANGED failed
     \/ leader' = "failing" /\ grouped' \in BOOLEAN /\ failed' = TRUE
  /\ UNCHANGED <<host, asked, monitorVars, tether, worker, force, tries, code,
                 stop, members, stray>>

ExitLeader ==
  /\ leader = "running"
  /\ leader' = "zombie"
  /\ UNCHANGED <<host, asked, monitorVars, tether, workerVars, stop, grouped,
                 members, stray>>

(* A leader that failed or was killed exits.                               *)
FinishLeader ==
  /\ leader \in {"failing", "dying"}
  /\ leader' = "zombie"
  /\ UNCHANGED <<host, asked, monitorVars, tether, workerVars, stop, grouped,
                 members, stray>>

(* A member is forked by a process of the group that is alive.             *)
Fork(m) ==
  /\ members[m] = "none"
  /\ leader = "running" \/ \E p \in Members : members[p] = "alive"
  /\ members' = [members EXCEPT ![m] = "alive"]
  /\ UNCHANGED <<host, asked, monitorVars, tether, workerVars, stop,
                 leaderVars, stray>>

ExitMember(m) ==
  /\ members[m] = "alive"
  /\ members' = [members EXCEPT ![m] = "gone"]
  /\ UNCHANGED <<host, asked, monitorVars, tether, workerVars, stop,
                 leaderVars, stray>>

FinishMember(m) ==
  /\ members[m] = "dying"
  /\ members' = [members EXCEPT ![m] = "gone"]
  /\ UNCHANGED <<host, asked, monitorVars, tether, workerVars, stop,
                 leaderVars, stray>>

-----------------------------------------------------------------------------
MonitorStep ==
  \/ InstallHandlers \/ GetParent \/ ForkWorker \/ ForkWorkerFails
  \/ RecordWorker \/ ReapWorker
TeardownStep ==
  \/ ObserveLeader \/ SignalLeader \/ AwaitLeader \/ Scan \/ Rescan
  \/ KillSurvivors \/ ReapLeader
WorkerStep ==
  WatchParent \/ ForkLeader \/ ConfirmExec \/ EndLoop \/ TeardownStep

Next ==
  \/ HostDies \/ Terminate \/ KillMonitor
  \/ MonitorStep \/ WorkerStep \/ LoopError \/ TeardownError
  \/ Exec \/ ExitLeader \/ FinishLeader
  \/ \E m \in Members : Fork(m) \/ ExitMember(m) \/ FinishMember(m)

Spec == Init /\ [][Next]_vars

(* Fairness: the operating system runs the guardian's processes, a forked  *)
(* child reaches its exec, and a killed process dies.  Nothing is assumed  *)
(* of the host, the app-server or its descendants.                         *)
Fairness ==
  /\ WF_vars(MonitorStep) /\ WF_vars(WorkerStep)
  /\ WF_vars(Exec) /\ WF_vars(FinishLeader)
  /\ \A m \in Members : WF_vars(FinishMember(m))
FairSpec == Spec /\ Fairness

-----------------------------------------------------------------------------
MonitorType ==
  /\ host \in {"alive", "dead"}
  /\ asked \in BOOLEAN
  /\ monitor \in {"start", "handling", "knowing", "forked", "recorded",
                  "waiting", "exited", "killed"}
  /\ monitorStop \in BOOLEAN
  /\ watched \in {"nobody", "host", "init"}
  /\ tether \in BOOLEAN
  /\ result \in {"none", "status", "failure"}
WorkerType ==
  /\ worker \in {"none", "setup", "spawning", "confirming", "watching",
                 "observing", "signalling", "awaiting", "scanning",
                 "rescanning", "killing", "reaping", "exited"}
  /\ stop \in BOOLEAN
  /\ failed \in BOOLEAN
  /\ force \in BOOLEAN
  /\ code \in {"none", "status", "failure"}
GroupType ==
  /\ leader \in {"none", "starting", "running", "failing", "dying", "zombie",
                 "gone"}
  /\ grouped \in BOOLEAN
  /\ members \in [Members -> {"none", "alive", "dying", "gone"}]
  /\ stray \in BOOLEAN

(* Type invariant; the loops of the teardown stay within SCAN_ATTEMPTS.    *)
TypeOK ==
  /\ MonitorType
  /\ WorkerType
  /\ GroupType
  /\ tries \in 0..(ScanAttempts - 1)

(* A guardian that exits with the app-server's status has reaped it and    *)
(* left nobody behind in its group, whatever forked while it was scanned   *)
(* (VERIFICATION.md:122, a survivor is never a success).                   *)
CleanExit ==
  "status" \in {code, result} =>
    leader = "gone" /\ \A m \in Members : members[m] \in {"none", "gone"}

(* No group is signalled once its leader is reaped and its number may be   *)
(* somebody else's (the comment of signal_private_group).                  *)
NoStraySignal == ~stray

(* The parts of the inductive invariant.                                   *)

(* A worker exists once the monitor has forked it.                         *)
ForkedOnce ==
  monitor \in {"start", "handling", "knowing"} => worker = "none"

(* Only reap_leader reaps the leader, and it is the worker's last call.    *)
Anchored == leader = "gone" => worker = "exited"

(* The group is scanned, killed and reaped under a leader that has exited. *)
ScannedWhileZombie ==
  worker \in {"scanning", "rescanning", "killing", "reaping"} =>
    leader = "zombie"

(* Once the group of an exited leader is empty it stays so.                *)
EmptyBeforeReap == worker = "reaping" => ~HasOther

(* The status is reported last, by the worker and then by the monitor.     *)
Reported ==
  /\ code # "none" => worker = "exited"
  /\ code = "status" => leader = "gone" /\ ~HasOther
  /\ result = "status" => code = "status"

GuardianInv ==
  /\ TypeOK
  /\ NoStraySignal
  /\ ForkedOnce
  /\ Anchored
  /\ ScannedWhileZombie
  /\ EmptyBeforeReap
  /\ Reported

(* The custody is over: the worker has ended, or there never was one.      *)
Over ==
  \/ worker = "exited"
  \/ worker = "none" /\ monitor \in {"exited", "killed"}

(* Once the host is gone after the monitor learnt who it is, the monitor   *)
(* is killed, or a stop has reached the worker, the custody comes to an    *)
(* end, though leader and descendants ignore TERM.                         *)
CustodyEnds ==
  /\ ParentGone ~> Over
  /\ monitor = "killed" ~> Over
  /\ stop ~> Over

(* A TERM the host sends to its guardian ends the custody (VERIFICATION.md *)
(* :120: timeouts, cancellations and partial spawns end the group too).    *)
StopEndsCustody == asked ~> Over
=============================================================================
