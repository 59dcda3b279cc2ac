---------------------------- MODULE ProgramsProofs ----------------------------
(***************************************************************************)
(* Proofs about what runs around a client: the guardian of its process     *)
(* group, the processes that share a runtime cache, the verification of a  *)
(* package, the providers, the screens they accept and the streams that    *)
(* are read.  Their safety properties hold in every behaviour, whatever is *)
(* killed, dropped, refused or late.                                       *)
(***************************************************************************)
EXTENDS Guardian, RuntimeInstall, RuntimeVerification, Providers, ScreenProgram,
        LineReaders, FiniteSetTheorems, WellFoundedInduction, TLAPS

-----------------------------------------------------------------------------
(* Guardian: the custody of the process group is sound, for any number of  *)
(* descendants and any number of attempts.                                 *)

(* The counters of the teardown start and stay in their range.             *)
LEMMA Attempts ==
  /\ 0 \in 0..(ScanAttempts - 1)
  /\ \A n \in 0..(ScanAttempts - 1) :
       n + 1 < ScanAttempts => n + 1 \in 0..(ScanAttempts - 1)
BY ScanAttemptsAssumption

(* The group a worker finds empty stays empty: nobody is left to fork.     *)
LEMMA NobodyForks ==
  ASSUME ~HasOther, leader \in {"zombie", "gone"}, NEW m \in Members, Fork(m)
  PROVE  FALSE
BY DEF Fork, HasOther, InGroup

(* A fresh guardian satisfies the invariant.                               *)
LEMMA GuardianInvInit == Init => GuardianInv
<1> SUFFICES ASSUME Init PROVE GuardianInv
  OBVIOUS
<1>1. TypeOK
  BY Attempts DEF Init, TypeOK, MonitorType, WorkerType, GroupType
<1>2. /\ NoStraySignal /\ ForkedOnce /\ Anchored
      /\ ScannedWhileZombie /\ EmptyBeforeReap
  BY DEF Init, NoStraySignal, ForkedOnce, Anchored, ScannedWhileZombie,
     EmptyBeforeReap
<1>3. Reported
  BY DEF Init, Reported
<1> QED BY <1>1, <1>2, <1>3 DEF GuardianInv

(* Host and monitor: the worker's calls are none of their business, but    *)
(* for the fork that creates it.                                           *)
LEMMA MonitorKeeps ==
  ASSUME GuardianInv, HostDies \/ Terminate \/ KillMonitor \/ MonitorStep
  PROVE  GuardianInv'
<1> USE DEF GuardianInv
<1>1. CASE HostDies
  BY <1>1 DEF HostDies, TypeOK, MonitorType, WorkerType, GroupType,
     NoStraySignal, ForkedOnce, Anchored, ScannedWhileZombie, EmptyBeforeReap,
     Reported, HasOther, InGroup, monitorVars, workerVars, leaderVars
<1>2. CASE Terminate
  <2>1. TypeOK'
    <3>1. MonitorType'
      BY <1>2 DEF Terminate, RequestStop, TypeOK, MonitorType, WorkerType,
         GroupType, workerVars, leaderVars
    <3>2. WorkerType'
      BY <1>2 DEF Terminate, RequestStop, TypeOK, MonitorType, WorkerType,
         GroupType, workerVars, leaderVars
    <3>3. GroupType'
      BY <1>2 DEF Terminate, RequestStop, TypeOK, MonitorType, WorkerType,
         GroupType, workerVars, leaderVars
    <3>4. tries' \in 0..(ScanAttempts - 1)
      BY <1>2 DEF Terminate, RequestStop, TypeOK, workerVars, leaderVars
    <3> QED BY <3>1, <3>2, <3>3, <3>4 DEF TypeOK
  <2>2. NoStraySignal' /\ ForkedOnce' /\ Anchored' /\ ScannedWhileZombie'
    BY <1>2 DEF Terminate, RequestStop, TypeOK, MonitorType, WorkerType,
       GroupType, NoStraySignal, ForkedOnce, Anchored, ScannedWhileZombie,
       workerVars, leaderVars
  <2>3. EmptyBeforeReap' /\ Reported'
    BY <1>2 DEF Terminate, RequestStop, TypeOK, ForkedOnce, Anchored,
       ScannedWhileZombie, EmptyBeforeReap, Reported, HasOther, InGroup,
       workerVars, leaderVars
  <2> QED BY <2>1, <2>2, <2>3
<1>3. CASE KillMonitor
  <2>1. TypeOK'
    <3>1. MonitorType'
      BY <1>3 DEF KillMonitor, TypeOK, MonitorType, WorkerType, GroupType,
         workerVars, leaderVars
    <3>2. WorkerType'
      BY <1>3 DEF KillMonitor, TypeOK, MonitorType, WorkerType, GroupType,
         workerVars, leaderVars
    <3>3. GroupType'
      BY <1>3 DEF KillMonitor, TypeOK, MonitorType, WorkerType, GroupType,
         workerVars, leaderVars
    <3>4. tries' \in 0..(ScanAttempts - 1)
      BY <1>3 DEF KillMonitor, TypeOK, workerVars, leaderVars
    <3> QED BY <3>1, <3>2, <3>3, <3>4 DEF TypeOK
  <2>2. NoStraySignal' /\ ForkedOnce' /\ Anchored' /\ ScannedWhileZombie'
    BY <1>3 DEF KillMonitor, TypeOK, MonitorType, WorkerType, GroupType,
       NoStraySignal, ForkedOnce, Anchored, ScannedWhileZombie, workerVars,
       leaderVars
  <2>3. EmptyBeforeReap' /\ Reported'
    BY <1>3 DEF KillMonitor, TypeOK, ForkedOnce, Anchored, ScannedWhileZombie,
       EmptyBeforeReap, Reported, HasOther, InGroup, workerVars, leaderVars
  <2> QED BY <2>1, <2>2, <2>3
<1>4. CASE ForkWorker
  BY <1>4 DEF ForkWorker, TypeOK, MonitorType, WorkerType, GroupType,
     NoStraySignal, ForkedOnce, Anchored, ScannedWhileZombie, EmptyBeforeReap,
     Reported, HasOther, InGroup, leaderVars
<1>5. CASE InstallHandlers \/ GetParent \/ ForkWorkerFails \/ RecordWorker
  BY <1>5 DEF InstallHandlers, GetParent, ForkWorkerFails, RecordWorker,
     TypeOK, MonitorType, WorkerType, GroupType, NoStraySignal, ForkedOnce,
     Anchored, ScannedWhileZombie, EmptyBeforeReap, Reported, HasOther,
     InGroup, workerVars, leaderVars
<1>6. CASE ReapWorker
  <2>1. TypeOK'
    <3>1. MonitorType'
      BY <1>6 DEF ReapWorker, TypeOK, MonitorType, WorkerType, GroupType,
         workerVars, leaderVars
    <3>2. WorkerType'
      BY <1>6 DEF ReapWorker, TypeOK, MonitorType, WorkerType, GroupType,
         workerVars, leaderVars
    <3>3. GroupType'
      BY <1>6 DEF ReapWorker, TypeOK, MonitorType, WorkerType, GroupType,
         workerVars, leaderVars
    <3>4. tries' \in 0..(ScanAttempts - 1)
      BY <1>6 DEF ReapWorker, TypeOK, workerVars, leaderVars
    <3> QED BY <3>1, <3>2, <3>3, <3>4 DEF TypeOK
  <2>2. NoStraySignal' /\ ForkedOnce' /\ Anchored' /\ ScannedWhileZombie'
    BY <1>6 DEF ReapWorker, TypeOK, MonitorType, WorkerType, GroupType,
       NoStraySignal, ForkedOnce, Anchored, ScannedWhileZombie, workerVars,
       leaderVars
  <2>3. EmptyBeforeReap' /\ Reported'
    BY <1>6 DEF ReapWorker, TypeOK, ForkedOnce, Anchored, ScannedWhileZombie,
       EmptyBeforeReap, Reported, HasOther, InGroup, workerVars, leaderVars
  <2> QED BY <2>1, <2>2, <2>3
<1> QED BY <1>1, <1>2, <1>3, <1>4, <1>5, <1>6 DEF MonitorStep

(* The worker before its teardown.                                         *)
LEMMA WatchKeeps ==
  ASSUME GuardianInv,
         WatchParent \/ ForkLeader \/ ConfirmExec \/ EndLoop \/ LoopError
  PROVE  GuardianInv'
<1> USE DEF GuardianInv
<1>1. CASE WatchParent
  BY <1>1 DEF WatchParent, Go, Leave, TypeOK, MonitorType, WorkerType,
     GroupType, NoStraySignal, ForkedOnce, Anchored, ScannedWhileZombie,
     EmptyBeforeReap, Reported, HasOther, InGroup, monitorVars, leaderVars
<1>2. CASE ForkLeader
  BY <1>2 DEF ForkLeader, Go, Leave, TypeOK, MonitorType, WorkerType,
     GroupType, NoStraySignal, ForkedOnce, Anchored, ScannedWhileZombie,
     EmptyBeforeReap, Reported, HasOther, InGroup, monitorVars
<1>3. CASE ConfirmExec \/ EndLoop \/ LoopError
  BY <1>3 DEF ConfirmExec, EndLoop, LoopError, Go, TypeOK, MonitorType,
     WorkerType, GroupType, NoStraySignal, ForkedOnce, Anchored,
     ScannedWhileZombie, EmptyBeforeReap, Reported, HasOther, InGroup,
     monitorVars, leaderVars
<1> QED BY <1>1, <1>2, <1>3

(* A signal to the group kills processes; it neither revives nor reaps.    *)
LEMMA KillGroupFacts ==
  ASSUME TypeOK, KillGroup
  PROVE  /\ leader' \in {"none", "starting", "running", "failing", "dying",
                         "zombie", "gone"}
         /\ leader' = "gone" <=> leader = "gone"
         /\ leader = "zombie" => leader' = "zombie"
         /\ members' \in [Members -> {"none", "alive", "dying", "gone"}]
         /\ leader # "gone" => stray' = stray
BY DEF KillGroup, TypeOK, GroupType

(* The teardown.                                                           *)
LEMMA TeardownKeeps ==
  ASSUME GuardianInv, TeardownStep \/ TeardownError
  PROVE  GuardianInv'
<1> USE DEF GuardianInv
<1>1. CASE ObserveLeader
  BY <1>1, Attempts DEF ObserveLeader, TypeOK, MonitorType, WorkerType,
     GroupType, NoStraySignal, ForkedOnce, Anchored, ScannedWhileZombie,
     EmptyBeforeReap, Reported, HasOther, InGroup, monitorVars, leaderVars
<1>2. CASE SignalLeader
  BY <1>2, KillGroupFacts DEF SignalLeader, Go, Leave, TypeOK, MonitorType,
     WorkerType, GroupType, NoStraySignal, ForkedOnce, Anchored,
     ScannedWhileZombie, EmptyBeforeReap, Reported, monitorVars
<1>3. CASE AwaitLeader
  <2>1. TypeOK'
    <3>1. MonitorType'
      BY <1>3 DEF AwaitLeader, TypeOK, MonitorType, WorkerType, GroupType,
         monitorVars, leaderVars
    <3>2. WorkerType'
      BY <1>3 DEF AwaitLeader, TypeOK, MonitorType, WorkerType, GroupType,
         monitorVars, leaderVars
    <3>3. GroupType'
      BY <1>3 DEF AwaitLeader, TypeOK, MonitorType, WorkerType, GroupType,
         monitorVars, leaderVars
    <3>4. tries' \in 0..(ScanAttempts - 1)
      BY <1>3, Attempts DEF AwaitLeader, TypeOK, monitorVars, leaderVars
    <3> QED BY <3>1, <3>2, <3>3, <3>4 DEF TypeOK
  <2>2. NoStraySignal' /\ ForkedOnce' /\ Anchored' /\ ScannedWhileZombie'
    BY <1>3 DEF AwaitLeader, TypeOK, MonitorType, WorkerType, GroupType,
       NoStraySignal, ForkedOnce, Anchored, ScannedWhileZombie, monitorVars,
       leaderVars
  <2>3. EmptyBeforeReap' /\ Reported'
    BY <1>3 DEF AwaitLeader, TypeOK, ForkedOnce, Anchored, ScannedWhileZombie,
       EmptyBeforeReap, Reported, HasOther, InGroup, monitorVars, leaderVars
  <2> QED BY <2>1, <2>2, <2>3
<1>4. CASE Scan \/ Rescan
  BY <1>4 DEF Scan, Rescan, Go, Leave, TypeOK, MonitorType, WorkerType, GroupType,
     NoStraySignal, ForkedOnce, Anchored, ScannedWhileZombie, EmptyBeforeReap,
     Reported, HasOther, InGroup, monitorVars, leaderVars
<1>5. CASE KillSurvivors
  <2>1. /\ leader = "zombie" /\ leader' = "zombie"
        /\ members' \in [Members -> {"none", "alive", "dying", "gone"}]
        /\ stray' = stray
    BY <1>5, KillGroupFacts DEF KillSurvivors, ScannedWhileZombie, TypeOK,
       GroupType
  <2>2. /\ tries' \in 0..(ScanAttempts - 1)
        /\ \/ worker' = "scanning" /\ code' = code
           \/ worker' = "exited" /\ code' = "failure"
        /\ UNCHANGED <<failed, force>>
    BY <1>5, Attempts DEF KillSurvivors, NextRound, TypeOK, WorkerType
  <2>3. worker = "killing"
        /\ UNCHANGED <<host, asked, monitorVars, tether, stop, grouped>>
    BY <1>5 DEF KillSurvivors
  <2> QED BY <2>1, <2>2, <2>3 DEF TypeOK, MonitorType, WorkerType, GroupType,
     NoStraySignal, ForkedOnce, Anchored, ScannedWhileZombie, EmptyBeforeReap,
     Reported, monitorVars
<1>6. CASE ReapLeader
  BY <1>6 DEF ReapLeader, Leave, TypeOK, MonitorType, WorkerType, GroupType,
     NoStraySignal, ForkedOnce, Anchored, ScannedWhileZombie, EmptyBeforeReap,
     Reported, HasOther, InGroup, monitorVars
<1>7. CASE TeardownError
  BY <1>7 DEF TeardownError, Leave, TypeOK, MonitorType, WorkerType,
     GroupType, NoStraySignal, ForkedOnce, Anchored, ScannedWhileZombie,
     EmptyBeforeReap, Reported, HasOther, InGroup, monitorVars, leaderVars
<1> QED BY <1>1, <1>2, <1>3, <1>4, <1>5, <1>6, <1>7 DEF TeardownStep

(* The leader and its descendants.                                         *)
LEMMA GroupKeeps ==
  ASSUME GuardianInv,
         \/ Exec \/ ExitLeader \/ FinishLeader
         \/ \E m \in Members : Fork(m) \/ ExitMember(m) \/ FinishMember(m)
  PROVE  GuardianInv'
<1> USE DEF GuardianInv
<1>1. CASE Exec
  <2>1. TypeOK'
    <3>1. MonitorType'
      BY <1>1 DEF Exec, TypeOK, MonitorType, WorkerType, GroupType,
         monitorVars
    <3>2. WorkerType'
      BY <1>1 DEF Exec, TypeOK, MonitorType, WorkerType, GroupType,
         monitorVars
    <3>3. GroupType'
      BY <1>1 DEF Exec, TypeOK, MonitorType, WorkerType, GroupType,
         monitorVars
    <3>4. tries' \in 0..(ScanAttempts - 1)
      BY <1>1 DEF Exec, TypeOK, monitorVars
    <3> QED BY <3>1, <3>2, <3>3, <3>4 DEF TypeOK
  <2>2. NoStraySignal' /\ ForkedOnce' /\ Anchored' /\ ScannedWhileZombie'
    BY <1>1 DEF Exec, TypeOK, MonitorType, WorkerType, GroupType,
       NoStraySignal, ForkedOnce, Anchored, ScannedWhileZombie, monitorVars
  <2>3. EmptyBeforeReap' /\ Reported'
    BY <1>1 DEF Exec, TypeOK, ForkedOnce, Anchored, ScannedWhileZombie,
       EmptyBeforeReap, Reported, HasOther, InGroup, monitorVars
  <2> QED BY <2>1, <2>2, <2>3
<1>2. CASE ExitLeader \/ FinishLeader
  BY <1>2 DEF ExitLeader, FinishLeader, TypeOK, MonitorType, WorkerType,
     GroupType, NoStraySignal, ForkedOnce, Anchored, ScannedWhileZombie,
     EmptyBeforeReap, Reported, HasOther, InGroup, monitorVars, workerVars
<1>3. ASSUME NEW m \in Members, Fork(m)
      PROVE  GuardianInv'
  <2>1. members' \in [Members -> {"none", "alive", "dying", "gone"}]
    BY <1>3 DEF Fork, TypeOK, GroupType
  <2>2. HasOther \/ leader \notin {"zombie", "gone"}
    BY <1>3, NobodyForks
  <2>3. UNCHANGED <<host, asked, monitorVars, tether, workerVars, stop,
                    leaderVars, stray>>
    BY <1>3 DEF Fork
  <2> QED BY <2>1, <2>2, <2>3 DEF TypeOK, MonitorType, WorkerType, GroupType,
     NoStraySignal, ForkedOnce, Anchored, ScannedWhileZombie, EmptyBeforeReap,
     Reported, monitorVars, workerVars, leaderVars
<1>4. ASSUME NEW m \in Members, ExitMember(m) \/ FinishMember(m)
      PROVE  GuardianInv'
  <2>1. /\ members' \in [Members -> {"none", "alive", "dying", "gone"}]
        /\ HasOther' => HasOther
    BY <1>4 DEF ExitMember, FinishMember, TypeOK, GroupType, HasOther, InGroup
  <2>2. UNCHANGED <<host, asked, monitorVars, tether, workerVars, stop,
                    leaderVars, stray>>
    BY <1>4 DEF ExitMember, FinishMember
  <2> QED BY <2>1, <2>2 DEF TypeOK, MonitorType, WorkerType, GroupType,
     NoStraySignal, ForkedOnce, Anchored, ScannedWhileZombie, EmptyBeforeReap,
     Reported, monitorVars, workerVars, leaderVars
<1> QED BY <1>1, <1>2, <1>3, <1>4

(* Every step of every process keeps the invariant.                        *)
LEMMA GuardianInvStep == GuardianInv /\ [Next]_vars => GuardianInv'
<1> SUFFICES ASSUME GuardianInv, [Next]_vars PROVE GuardianInv'
  OBVIOUS
<1>1. CASE UNCHANGED vars
  BY <1>1 DEF vars, monitorVars, workerVars, leaderVars, GuardianInv, TypeOK,
     MonitorType, WorkerType, GroupType, NoStraySignal, ForkedOnce, Anchored,
     ScannedWhileZombie, EmptyBeforeReap, Reported, HasOther, InGroup
<1>2. CASE Next
  BY <1>2, MonitorKeeps, WatchKeeps, TeardownKeeps, GroupKeeps DEF Next,
     WorkerStep
<1> QED BY <1>1, <1>2

-----------------------------------------------------------------------------
(* The inductive invariant of the guardian, its worker and the group.      *)
THEOREM GuardianInvariant == Spec => []GuardianInv
BY GuardianInvInit, GuardianInvStep, PTL DEF Spec

(* Every variable keeps its type: no loop of the teardown runs longer than *)
(* SCAN_ATTEMPTS.                                                          *)
THEOREM GuardianTypes == Spec => []TypeOK
<1>1. GuardianInv => TypeOK
  BY DEF GuardianInv
<1> QED BY <1>1, GuardianInvariant, PTL

(* A guardian that ends with the app-server's status leaves no survivor in *)
(* the group (terminate_private_group, reap_leader).                       *)
THEOREM ExitIsClean == Spec => []CleanExit
<1>1. GuardianInv => CleanExit
  BY DEF GuardianInv, TypeOK, GroupType, Reported, CleanExit, HasOther,
         InGroup
<1> QED BY <1>1, GuardianInvariant, PTL

(* signal_private_group never signals a group whose leader was reaped.     *)
THEOREM SignalsAreAnchored == Spec => []NoStraySignal
<1>1. GuardianInv => NoStraySignal
  BY DEF GuardianInv
<1> QED BY <1>1, GuardianInvariant, PTL

-----------------------------------------------------------------------------
(* RuntimeInstall, for any number of processes, kills and corruptions.     *)
(* OneInstallation is not inductive: that the holder of the lock leaves no *)
(* file behind when it releases it depends on who may own a file at all    *)
(* (TempsOwned) and on the lock being held exactly inside install_managed  *)
(* (LockExact).                                                            *)

(* The lock is held by the one process inside install_managed, or free.    *)
LockExact ==
  /\ \A r \in Resolvers : resolver[r] \in Locked <=> r \in locker
  /\ \A r, q \in locker : r = q

(* Files belong to an installation at work or to a process that could not  *)
(* clean up.                                                               *)
AtWork == {"received", "extracting", "committing", "cleaning", "undoing"}
TempsOwned ==
  \A t \in temps : t[1] \in littered \/ resolver[t[1]] \in AtWork

(* Past the sweep there are no files but one's own.                        *)
Swept ==
  \A r \in Resolvers :
    resolver[r] \in Locked \ {"sweeping"} => \A t \in temps : t[1] = r

InstallInvariant ==
  /\ InstallTypeOK
  /\ LockExact
  /\ TempsOwned
  /\ Swept
  /\ NoTornInstall

LEMMA InstallStarts == InstallInit => InstallInvariant
BY InstallAssumption
   DEF InstallInit, InstallInvariant, InstallTypeOK, LockExact, TempsOwned, Swept,
       NoTornInstall, Locked

(* The steps that change nothing but the place of a resolver outside the   *)
(* lock, or keep it inside.                                                *)
LEMMA MovesKeep ==
  ASSUME InstallInvariant, NEW r \in Resolvers, NEW place,
         Waits(r, place),
         \/ resolver[r] \notin Locked
            /\ place \in {"probing", "probed", "locking", "verifying", "launching",
                          "discarding", "erasing"} \cup Ended
         \/ resolver[r] = "inspecting" /\ place = "downloading"
         \/ resolver[r] \in {"downloading"} \cup AtWork
            /\ place \in {"undoing", "committing"}
  PROVE  InstallInvariant'
<1> USE DEF InstallInvariant, Waits, GoTo, Locked, Ended, AtWork
<1>1. InstallTypeOK'
  BY DEF InstallTypeOK
<1>2. LockExact'
  BY DEF InstallTypeOK, LockExact
<1>3. TempsOwned'
  BY DEF InstallTypeOK, TempsOwned
<1>4. Swept'
  BY DEF InstallTypeOK, Swept
<1>5. NoTornInstall'
  BY DEF NoTornInstall
<1> QED BY <1>1, <1>2, <1>3, <1>4, <1>5

(* The steps out of the lock.                                              *)
LEMMA ReleaseKeeps ==
  ASSUME InstallInvariant, NEW r \in Resolvers,
         NEW place \in {"failed", "verifying"}, Release(r, place),
         resolver[r] \in Locked,
         temps' \subseteq temps,
         littered \subseteq littered', littered' \subseteq Resolvers,
         \A t \in temps' : t[1] = r /\ resolver[r] \in AtWork => r \in littered',
         opened' \subseteq opened,
         UNCHANGED <<root, cause>>
  PROVE  InstallInvariant'
<1> USE DEF InstallInvariant, Release, GoTo, Locked, Ended, AtWork
<1>1. InstallTypeOK'
  BY DEF InstallTypeOK
<1>2. LockExact'
  BY DEF InstallTypeOK, LockExact
<1>3. TempsOwned'
  BY DEF InstallTypeOK, TempsOwned
<1>4. Swept'
  BY <1>2 DEF InstallTypeOK, Swept, LockExact
<1>5. NoTornInstall'
  BY DEF NoTornInstall
<1> QED BY <1>1, <1>2, <1>3, <1>4, <1>5

(* Every step keeps the invariant.                                         *)
LEMMA InstallKept ==
  InstallInvariant /\ [InstallNext]_installVars => InstallInvariant'
<1> SUFFICES ASSUME InstallInvariant, [InstallNext]_installVars
             PROVE  InstallInvariant'
  OBVIOUS
<1>1. CASE UNCHANGED installVars
  BY <1>1 DEF InstallInvariant, InstallTypeOK, LockExact, TempsOwned, Swept,
              NoTornInstall, installVars
<1>2. CASE Corrupt
  BY <1>2, InstallAssumption
     DEF InstallInvariant, InstallTypeOK, LockExact, TempsOwned, Swept,
         NoTornInstall, Corrupt
<1>3. ASSUME NEW r \in Resolvers,
             ResolveStep(r) \/ CannotLock(r) \/ DropResolve(r) \/ Kill(r)
      PROVE  InstallInvariant'
  <2>1. CASE BeginResolve(r)
    BY <2>1, MovesKeep DEF BeginResolve, Locked, Ended
  <2>2. CASE Probe(r) \/ ProbeLaunch(r)
    BY <2>2, MovesKeep DEF Probe, ProbeLaunch, Missing, Locked, Ended
  <2>3. CASE CannotLock(r)
    BY <2>3, MovesKeep DEF CannotLock, Locked, Ended
  <2>4. CASE VerifyInstalled(r) \/ Launch(r)
    BY <2>4, MovesKeep DEF VerifyInstalled, Launch, Locked, Ended
  <2>5. CASE FoundAbsent(r) \/ Extract(r)
    BY <2>5, MovesKeep DEF FoundAbsent, Extract, Undo, AtWork
  <2>6. CASE SweepFails(r)
    BY <2>6, ReleaseKeeps
       DEF SweepFails, Locked, AtWork, InstallInvariant, InstallTypeOK
  <2>7. CASE FoundInstalled(r)
    BY <2>7, ReleaseKeeps
       DEF FoundInstalled, Locked, AtWork, InstallInvariant, InstallTypeOK
  <2>8. CASE RemoveFails(r)
    BY <2>8, ReleaseKeeps
       DEF RemoveFails, Locked, AtWork, InstallInvariant, InstallTypeOK
  <2>9. CASE Clean(r)
    BY <2>9, ReleaseKeeps
       DEF Clean, Locked, AtWork, InstallInvariant, InstallTypeOK, Kinds
  <2>10. CASE CleanFails(r)
    BY <2>10, ReleaseKeeps
       DEF CleanFails, Locked, AtWork, InstallInvariant, InstallTypeOK
  <2>11. CASE TakeLock(r)
    BY <2>11 DEF TakeLock, GoTo, InstallInvariant, InstallTypeOK, LockExact,
                 TempsOwned, Swept, NoTornInstall, Locked, AtWork
  <2>12. CASE Sweep(r)
    BY <2>12 DEF Sweep, GoTo, InstallInvariant, InstallTypeOK, LockExact,
                 TempsOwned, Swept, NoTornInstall, Locked, AtWork
  <2>13. CASE FoundInvalid(r) \/ RemoveInvalid(r)
    BY <2>13 DEF FoundInvalid, RemoveInvalid, Erased, GoTo, InstallInvariant,
                 InstallTypeOK, LockExact, TempsOwned, Swept, NoTornInstall,
                 Locked, AtWork
  <2>14. CASE DownloadBegins(r) \/ DownloadEnds(r)
    <3>1. CASE Undo(r)
      BY <2>14, <3>1, MovesKeep DEF DownloadBegins, DownloadEnds, Undo, AtWork
    <3>2. CASE ~Undo(r)
      BY <2>14, <3>2
         DEF DownloadBegins, DownloadEnds, GoTo, InstallInvariant, InstallTypeOK,
             LockExact, TempsOwned, Swept, NoTornInstall, Locked, AtWork, Kinds
    <3> QED BY <3>1, <3>2
  <2>15. CASE Commit(r)
    <3>1. CASE Undo(r)
      BY <2>15, <3>1, MovesKeep DEF Commit, Undo, AtWork
    <3>2. CASE ~Undo(r)
      BY <2>15, <3>2
         DEF Commit, GoTo, InstallInvariant, InstallTypeOK,
             LockExact, TempsOwned, Swept, NoTornInstall, Locked, AtWork
    <3> QED BY <3>1, <3>2
  <2>16. CASE Discard(r) \/ EraseDiscarded(r)
    BY <2>16 DEF Discard, EraseDiscarded, Erased, GoTo, InstallInvariant,
                 InstallTypeOK, LockExact, TempsOwned, Swept, NoTornInstall,
                 Locked, Ended, AtWork
  <2>17. CASE DropResolve(r)
    <3>1. CASE Waits(r, "dropped") /\ resolver[r] \notin Locked
      BY <3>1, MovesKeep DEF Ended
    <3>2. CASE UNCHANGED resolver
      BY <2>17, <3>2
         DEF DropResolve, Waits, InstallInvariant, InstallTypeOK, LockExact,
             TempsOwned, Swept, NoTornInstall
    <3> QED BY <2>17, <3>1, <3>2 DEF DropResolve, Locked
  <2>18. CASE Kill(r)
    BY <2>18, InstallAssumption
       DEF Kill, GoTo, InstallInvariant, InstallTypeOK, LockExact, TempsOwned,
           Swept, NoTornInstall, Locked, Ended, AtWork
  <2> QED BY <1>3, <2>1, <2>2, <2>3, <2>4, <2>5, <2>6, <2>7, <2>8, <2>9, <2>10,
             <2>11, <2>12, <2>13, <2>14, <2>15, <2>16, <2>17, <2>18
          DEF ResolveStep
<1> QED BY <1>1, <1>2, <1>3 DEF InstallNext

(* However many processes share the cache and are killed in it, its state  *)
(* is one of those the model names.                                        *)
THEOREM InstallTypes == InstallSpec => []InstallTypeOK
BY InstallStarts, InstallKept, PTL DEF InstallSpec, InstallInvariant

(* No kill, drop or failure of install_managed leaves a root that does not *)
(* verify.                                                                 *)
THEOREM InstallNeverTears == InstallSpec => []NoTornInstall
BY InstallStarts, InstallKept, PTL DEF InstallSpec, InstallInvariant

LEMMA InvariantIsOneInstallation == InstallInvariant => OneInstallation
BY DEF InstallInvariant, InstallTypeOK, LockExact, TempsOwned, Swept,
       OneInstallation, Locked, AtWork, Kinds

(* install_managed runs in one process at a time, without the leavings of  *)
(* others, and leaves none unless it is killed or cannot clean up.         *)
THEOREM InstallsOneByOne == InstallSpec => []OneInstallation
BY InstallStarts, InstallKept, InvariantIsOneInstallation, PTL DEF InstallSpec

-----------------------------------------------------------------------------
(* RuntimeVerification.  VerificationLeavesNothing looks at the end only;  *)
(* Tidy says what is there on the way: a stage begins with nothing on the  *)
(* disk and no guardian, and a stage without a fault has one that passed   *)
(* and was waited for.                                                     *)

Passed(s) == guardian[s] = "passed" /\ s \in reaping

Tidy ==
  /\ verifier \in {"idle", "worker"} =>
       disk = {} /\ stage = "files" /\ \A s \in Stages : guardian[s] = "none"
  /\ verifier = "worker" => ~timed
  /\ verifier = "making" => disk = {}
  /\ verifier \in {"making", "unpacking", "spawning"} => guardian[stage] = "none"
  /\ stage = "files" => guardian["version"] = "none"
  /\ stage = "version" => guardian["files"] # "running"
  /\ stage = "version" /\ timed => Passed("files")
  /\ verifier = "reaping" => fault
  /\ verifier \in {"draining", "sweeping"} /\ ~fault => Passed(stage)

VerificationInvariant == VerificationTypeOK /\ Tidy /\ VerificationLeavesNothing

LEMMA VerificationStarts == VerificationInit => VerificationInvariant
BY DEF VerificationInit, VerificationInvariant, VerificationTypeOK, Tidy,
       VerificationLeavesNothing, Stages, Verified, Passed

LEMMA VerificationKept ==
  VerificationInvariant /\ [VerificationNext]_verificationVars
    => VerificationInvariant'
<1> SUFFICES ASSUME VerificationInvariant, [VerificationNext]_verificationVars
             PROVE  VerificationInvariant'
  OBVIOUS
<1> USE DEF VerificationInvariant, Stages, Verified
<1>1. CASE UNCHANGED verificationVars
  <2> USE <1>1 DEF verificationVars
  <2>1. VerificationTypeOK'
    BY DEF VerificationTypeOK, Parts
  <2>2. Tidy'
    BY DEF VerificationTypeOK, Tidy, Passed
  <2>3. VerificationLeavesNothing'
    BY DEF VerificationTypeOK, Tidy, Passed, VerificationLeavesNothing
  <2> QED BY <2>1, <2>2, <2>3
<1>2. CASE BeginVerify
  <2> USE <1>2 DEF BeginVerify, Fails, Verdict
  <2>1. VerificationTypeOK'
    BY DEF VerificationTypeOK, Parts
  <2>2. Tidy'
    BY DEF VerificationTypeOK, Tidy, Passed
  <2>3. VerificationLeavesNothing'
    BY DEF VerificationTypeOK, Tidy, Passed, VerificationLeavesNothing
  <2> QED BY <2>1, <2>2, <2>3
<1>3. CASE WorkerEnded
  <2> USE <1>3 DEF WorkerEnded, Fails, Verdict
  <2>1. VerificationTypeOK'
    BY DEF VerificationTypeOK, Parts
  <2>2. Tidy'
    BY DEF VerificationTypeOK, Tidy, Passed
  <2>3. VerificationLeavesNothing'
    BY DEF VerificationTypeOK, Tidy, Passed, VerificationLeavesNothing
  <2> QED BY <2>1, <2>2, <2>3
<1>4. CASE MakeDirectory
  <2> USE <1>4 DEF MakeDirectory, Fails, Verdict
  <2>1. VerificationTypeOK'
    <3>1. \A part \in Parts : <<stage, part>> \in Stages \X Parts
      BY DEF VerificationTypeOK
    <3>2. disk' \subseteq Stages \X Parts
      BY <3>1 DEF VerificationTypeOK, Parts
    <3> QED BY <3>2 DEF VerificationTypeOK
  <2>2. Tidy'
    BY DEF VerificationTypeOK, Tidy, Passed
  <2>3. VerificationLeavesNothing'
    BY DEF VerificationTypeOK, Tidy, Passed, VerificationLeavesNothing
  <2> QED BY <2>1, <2>2, <2>3
<1>5. CASE Unpack
  <2> USE <1>5 DEF Unpack, Removed, Fails, Verdict
  <2>1. VerificationTypeOK'
    <3>1. \A part \in Parts : <<stage, part>> \in Stages \X Parts
      BY DEF VerificationTypeOK
    <3>2. disk' \subseteq Stages \X Parts
      BY <3>1 DEF VerificationTypeOK, Parts
    <3> QED BY <3>2 DEF VerificationTypeOK
  <2>2. Tidy'
    BY DEF VerificationTypeOK, Tidy, Passed
  <2>3. VerificationLeavesNothing'
    BY DEF VerificationTypeOK, Tidy, Passed, VerificationLeavesNothing
  <2> QED BY <2>1, <2>2, <2>3
<1>6. CASE CannotSpawn
  <2> USE <1>6 DEF CannotSpawn, Removed, Fails, Verdict
  <2>1. VerificationTypeOK'
    BY DEF VerificationTypeOK, Parts
  <2>2. Tidy'
    BY DEF VerificationTypeOK, Tidy, Passed
  <2>3. VerificationLeavesNothing'
    BY DEF VerificationTypeOK, Tidy, Passed, VerificationLeavesNothing
  <2> QED BY <2>1, <2>2, <2>3
<1>7. CASE CaptureFails
  <2> USE <1>7 DEF CaptureFails, Removed
  <2>1. VerificationTypeOK'
    BY DEF VerificationTypeOK, Parts
  <2>2. Tidy'
    BY DEF VerificationTypeOK, Tidy, Passed
  <2>3. VerificationLeavesNothing'
    BY DEF VerificationTypeOK, Tidy, Passed, VerificationLeavesNothing
  <2> QED BY <2>1, <2>2, <2>3
<1>8. CASE SpawnGuardian
  <2> USE <1>8 DEF SpawnGuardian
  <2>1. VerificationTypeOK'
    BY DEF VerificationTypeOK, Parts
  <2>2. Tidy'
    BY DEF VerificationTypeOK, Tidy, Passed
  <2>3. VerificationLeavesNothing'
    BY DEF VerificationTypeOK, Tidy, Passed, VerificationLeavesNothing
  <2> QED BY <2>1, <2>2, <2>3
<1>9. CASE GuardianExits
  <2> USE <1>9 DEF GuardianExits
  <2>1. VerificationTypeOK'
    BY DEF VerificationTypeOK, Parts
  <2>2. Tidy'
    BY DEF VerificationTypeOK, Tidy, Passed
  <2>3. VerificationLeavesNothing'
    BY DEF VerificationTypeOK, Tidy, Passed, VerificationLeavesNothing
  <2> QED BY <2>1, <2>2, <2>3
<1>10. CASE TimePasses
  <2> USE <1>10 DEF TimePasses
  <2>1. VerificationTypeOK'
    BY DEF VerificationTypeOK, Parts
  <2>2. Tidy'
    BY DEF VerificationTypeOK, Tidy, Passed
  <2>3. VerificationLeavesNothing'
    BY DEF VerificationTypeOK, Tidy, Passed, VerificationLeavesNothing
  <2> QED BY <2>1, <2>2, <2>3
<1>11. CASE WaitErrs
  <2> USE <1>11 DEF WaitErrs
  <2>1. VerificationTypeOK'
    BY DEF VerificationTypeOK, Parts
  <2>2. Tidy'
    BY DEF VerificationTypeOK, Tidy, Passed
  <2>3. VerificationLeavesNothing'
    BY DEF VerificationTypeOK, Tidy, Passed, VerificationLeavesNothing
  <2> QED BY <2>1, <2>2, <2>3
<1>12. CASE WaitExpires
  <2> USE <1>12 DEF WaitExpires
  <2>1. VerificationTypeOK'
    BY DEF VerificationTypeOK, Parts
  <2>2. Tidy'
    BY DEF VerificationTypeOK, Tidy, Passed
  <2>3. VerificationLeavesNothing'
    BY DEF VerificationTypeOK, Tidy, Passed, VerificationLeavesNothing
  <2> QED BY <2>1, <2>2, <2>3
<1>13. CASE WaitReturns
  <2> USE <1>13 DEF WaitReturns, Exited
  <2>1. VerificationTypeOK'
    BY DEF VerificationTypeOK, Parts
  <2>2. Tidy'
    BY DEF VerificationTypeOK, Tidy, Passed
  <2>3. VerificationLeavesNothing'
    BY DEF VerificationTypeOK, Tidy, Passed, VerificationLeavesNothing
  <2> QED BY <2>1, <2>2, <2>3
<1>14. CASE Drain
  <2> USE <1>14 DEF Drain
  <2>1. VerificationTypeOK'
    BY DEF VerificationTypeOK, Parts
  <2>2. Tidy'
    BY DEF VerificationTypeOK, Tidy, Passed
  <2>3. VerificationLeavesNothing'
    BY DEF VerificationTypeOK, Tidy, Passed, VerificationLeavesNothing
  <2> QED BY <2>1, <2>2, <2>3
<1>15. CASE TerminateVerifier
  <2> USE <1>15 DEF TerminateVerifier
  <2>1. VerificationTypeOK'
    BY DEF VerificationTypeOK, Parts
  <2>2. Tidy'
    BY DEF VerificationTypeOK, Tidy, Passed
  <2>3. VerificationLeavesNothing'
    BY DEF VerificationTypeOK, Tidy, Passed, VerificationLeavesNothing
  <2> QED BY <2>1, <2>2, <2>3
<1>16. CASE Reap
  <2> USE <1>16 DEF Reap, Exited
  <2>1. VerificationTypeOK'
    BY DEF VerificationTypeOK, Parts
  <2>2. Tidy'
    BY DEF VerificationTypeOK, Tidy, Passed
  <2>3. VerificationLeavesNothing'
    BY DEF VerificationTypeOK, Tidy, Passed, VerificationLeavesNothing
  <2> QED BY <2>1, <2>2, <2>3
<1>17. CASE SweepArtifacts
  <2> USE <1>17 DEF SweepArtifacts, Removed, Fails, Verdict
  <2>1. VerificationTypeOK'
    BY DEF VerificationTypeOK, Parts
  <2>2. Tidy'
    BY DEF VerificationTypeOK, Tidy, Passed
  <2>3. VerificationLeavesNothing'
    BY DEF VerificationTypeOK, Tidy, Passed, VerificationLeavesNothing
  <2> QED BY <2>1, <2>2, <2>3
<1>18. CASE DropVerify
  <2> USE <1>18 DEF DropVerify, Verdict
  <2>1. VerificationTypeOK'
    BY DEF VerificationTypeOK, Parts
  <2>2. Tidy'
    BY DEF VerificationTypeOK, Tidy, Passed
  <2>3. VerificationLeavesNothing'
    BY DEF VerificationTypeOK, Tidy, Passed, VerificationLeavesNothing
  <2> QED BY <2>1, <2>2, <2>3
<1> QED BY <1>1, <1>2, <1>3, <1>4, <1>5, <1>6, <1>7, <1>8, <1>9, <1>10, <1>11, <1>12, <1>13, <1>14, <1>15, <1>16, <1>17, <1>18
        DEF VerificationNext, VerifyStep

(* The jobs, guardians and files of a verification are in states the model *)
(* names.                                                                  *)
THEOREM VerificationTypes == VerificationSpec => []VerificationTypeOK
BY VerificationStarts, VerificationKept, PTL
   DEF VerificationSpec, VerificationInvariant

(* RuntimePackage::verify reports a package valid only after both of its   *)
(* guardians passed and were reaped, and leaves nothing behind that could  *)
(* be removed and no guardian unsignalled.                                 *)
THEOREM VerificationTidy == VerificationSpec => []VerificationLeavesNothing
BY VerificationStarts, VerificationKept, PTL
   DEF VerificationSpec, VerificationInvariant

-----------------------------------------------------------------------------
(* Providers.  SuccessIsClean looks at the answer only; the invariant      *)
(* follows the evidence for it through the operation: what a turn did is   *)
(* known to its events or to its audit until the audit has passed, and an  *)
(* outcome is ok only after everything that could spoil it.                *)

Before == {"idle", "connecting", "checking", "beginning", "staging", "preparing",
           "opening", "starting", "parsing", "imaging"}
InTurn == {"running", "auditing"}

Harmless(e) == program = "ifsc" /\ e[2] = "image"

(* Where each program can be, and when it can have begun how many turns.    *)
Placed ==
  /\ program = "image" =>
       at \in {"idle", "connecting", "beginning", "imaging", "ending", "stopping",
              "teardown", "answering", "done"}
  /\ at = "imaging" => program = "image"
  /\ staging = "given" => program = "model"
  /\ at \in Before \ {"starting", "parsing"} => turns = 0
  /\ at = "starting" => turns < MaxModelAttempts
  /\ at \in InTurn \cup {"parsing"} => turns > 0
  /\ at \in Before \cup InTurn => outcome = "none" /\ original = "none"
  /\ at = "rechecking" => outcome = "ok"
  /\ at # "done" => answer = "none"

(* What the turns did that is not text.                                     *)
Watched ==
  /\ at \in Before => \A e \in effects : Harmless(e)
  /\ at \in InTurn =>
       \A e \in effects :
         Harmless(e) \/ (e[1] = turns /\ (e[2] = "event" => live))
  /\ at = "auditing" /\ program = "model" => ~live

(* What an outcome stands for.                                              *)
Earned ==
  /\ original \in Codes /\ ~cut => outcome = original
  /\ outcome = "ok" =>
       /\ original = "ok"
       /\ \A e \in effects : Harmless(e)
       /\ at # "closing" => staging # "given"
       /\ program = "image" => delivered
       /\ program # "image" => turns > 0
       /\ program # "image" /\ at # "closing" => session = "closed"
       /\ at \in {"answering", "done"} => client = "closed"
  /\ answer = "ok" => at = "done" /\ outcome = "ok"
  /\ answer \in Codes => answer = outcome \/ outcome = "ok"

ProviderInvariant == ProviderTypeOK /\ Placed /\ Watched /\ Earned

LEMMA ProviderStarts == ProviderInit => ProviderInvariant
<1> SUFFICES ASSUME ProviderInit PROVE ProviderInvariant
  OBVIOUS
<1> USE DEF ProviderInit, Codes, Results, MaxModelAttempts
<1>1. ProviderTypeOK
  <2>1. /\ FALSE \in BOOLEAN /\ turns \in 0 .. MaxModelAttempts
        /\ effects \subseteq (1 .. MaxModelAttempts) \X {"event", "audit", "image"}
    OBVIOUS
  <2> QED BY <2>1, Zenon DEF ProviderTypeOK
<1>2. Placed
  BY DEF Placed, Before, InTurn
<1>3. Watched
  BY DEF Watched, InTurn
<1>4. Earned
  BY DEF Earned
<1> QED BY <1>1, <1>2, <1>3, <1>4 DEF ProviderInvariant

LEMMA ProviderKept ==
  ProviderInvariant /\ [ProviderNext]_providerVars => ProviderInvariant'
<1> SUFFICES ASSUME ProviderInvariant, [ProviderNext]_providerVars
             PROVE  ProviderInvariant'
  OBVIOUS
<1> USE DEF ProviderInvariant, Codes, Results, MaxModelAttempts, Kept, Concludes
<1>1. CASE UNCHANGED providerVars
  <2> USE <1>1 DEF providerVars
  <2>1. ProviderTypeOK'
    BY DEF ProviderTypeOK, Placed, Before, InTurn
  <2>2. Placed'
    BY DEF ProviderTypeOK, Placed, Before, InTurn
  <2>3. Watched'
    BY DEF ProviderTypeOK, Placed, Watched, Before, InTurn, Harmless
  <2>4. Earned'
    BY DEF ProviderTypeOK, Placed, Watched, Earned, Before, InTurn, Harmless
  <2> QED BY <2>1, <2>2, <2>3, <2>4
<1>2. CASE ReadRequest
  <2> USE <1>2 DEF ReadRequest
  <2>1. ProviderTypeOK'
    BY DEF ProviderTypeOK, Placed, Before, InTurn
  <2>2. Placed'
    BY DEF ProviderTypeOK, Placed, Before, InTurn
  <2>3. Watched'
    BY DEF ProviderTypeOK, Placed, Watched, Before, InTurn, Harmless
  <2>4. Earned'
    BY DEF ProviderTypeOK, Placed, Watched, Earned, Before, InTurn, Harmless
  <2> QED BY <2>1, <2>2, <2>3, <2>4
<1>3. CASE ConnectClient
  <2> USE <1>3 DEF ConnectClient
  <2>1. ProviderTypeOK'
    BY DEF ProviderTypeOK, Placed, Before, InTurn
  <2>2. Placed'
    BY DEF ProviderTypeOK, Placed, Before, InTurn
  <2>3. Watched'
    BY DEF ProviderTypeOK, Placed, Watched, Before, InTurn, Harmless
  <2>4. Earned'
    BY DEF ProviderTypeOK, Placed, Watched, Earned, Before, InTurn, Harmless
  <2> QED BY <2>1, <2>2, <2>3, <2>4
<1>4. CASE CheckAccount
  <2> USE <1>4 DEF CheckAccount
  <2>1. ProviderTypeOK'
    BY DEF ProviderTypeOK, Placed, Before, InTurn
  <2>2. Placed'
    BY DEF ProviderTypeOK, Placed, Before, InTurn
  <2>3. Watched'
    BY DEF ProviderTypeOK, Placed, Watched, Before, InTurn, Harmless
  <2>4. Earned'
    BY DEF ProviderTypeOK, Placed, Watched, Earned, Before, InTurn, Harmless
  <2> QED BY <2>1, <2>2, <2>3, <2>4
<1>5. CASE BeginOperation
  <2> USE <1>5 DEF BeginOperation
  <2>1. ProviderTypeOK'
    BY DEF ProviderTypeOK, Placed, Before, InTurn
  <2>2. Placed'
    BY DEF ProviderTypeOK, Placed, Before, InTurn
  <2>3. Watched'
    BY DEF ProviderTypeOK, Placed, Watched, Before, InTurn, Harmless
  <2>4. Earned'
    BY DEF ProviderTypeOK, Placed, Watched, Earned, Before, InTurn, Harmless
  <2> QED BY <2>1, <2>2, <2>3, <2>4
<1>6. CASE CreateStaging
  <2> USE <1>6 DEF CreateStaging, FailsWithCleanup, Cleanup
  <2>1. ProviderTypeOK'
    BY DEF ProviderTypeOK, Placed, Before, InTurn
  <2>2. Placed'
    BY DEF ProviderTypeOK, Placed, Before, InTurn
  <2>3. Watched'
    BY DEF ProviderTypeOK, Placed, Watched, Before, InTurn, Harmless
  <2>4. Earned'
    BY DEF ProviderTypeOK, Placed, Watched, Earned, Before, InTurn, Harmless
  <2> QED BY <2>1, <2>2, <2>3, <2>4
<1>7. CASE Prepare
  <2> USE <1>7 DEF Prepare, FailsWithCleanup, Cleanup
  <2>1. ProviderTypeOK'
    BY DEF ProviderTypeOK, Placed, Before, InTurn
  <2>2. Placed'
    BY DEF ProviderTypeOK, Placed, Before, InTurn
  <2>3. Watched'
    BY DEF ProviderTypeOK, Placed, Watched, Before, InTurn, Harmless
  <2>4. Earned'
    BY DEF ProviderTypeOK, Placed, Watched, Earned, Before, InTurn, Harmless
  <2> QED BY <2>1, <2>2, <2>3, <2>4
<1>8. CASE OpenSession
  <2> USE <1>8 DEF OpenSession, FailsWithCleanup, Cleanup
  <2>1. ProviderTypeOK'
    BY DEF ProviderTypeOK, Placed, Before, InTurn
  <2>2. Placed'
    BY DEF ProviderTypeOK, Placed, Before, InTurn
  <2>3. Watched'
    BY DEF ProviderTypeOK, Placed, Watched, Before, InTurn, Harmless
  <2>4. Earned'
    BY DEF ProviderTypeOK, Placed, Watched, Earned, Before, InTurn, Harmless
  <2> QED BY <2>1, <2>2, <2>3, <2>4
<1>9. CASE StartTurn
  <2> USE <1>9 DEF StartTurn
  <2>1. ProviderTypeOK'
    <3>1. turns' \in 0 .. MaxModelAttempts
      BY DEF ProviderTypeOK, Placed
    <3>2. live' \in BOOLEAN
      BY Zenon
    <3> QED BY <3>1, <3>2 DEF ProviderTypeOK
  <2>2. Placed'
    BY DEF ProviderTypeOK, Placed, Before, InTurn
  <2>3. Watched'
    BY DEF ProviderTypeOK, Placed, Watched, Before, InTurn, Harmless
  <2>4. Earned'
    BY DEF ProviderTypeOK, Placed, Watched, Earned, Before, InTurn, Harmless
  <2> QED BY <2>1, <2>2, <2>3, <2>4
<1>10. CASE ForbiddenEvent
  <2> USE <1>10 DEF ForbiddenEvent
  <2>1. ProviderTypeOK'
    BY DEF ProviderTypeOK, Placed, Before, InTurn
  <2>2. Placed'
    BY DEF ProviderTypeOK, Placed, Before, InTurn
  <2>3. Watched'
    BY DEF ProviderTypeOK, Placed, Watched, Before, InTurn, Harmless
  <2>4. Earned'
    BY DEF ProviderTypeOK, Placed, Watched, Earned, Before, InTurn, Harmless
  <2> QED BY <2>1, <2>2, <2>3, <2>4
<1>11. CASE HiddenEffect
  <2> USE <1>11 DEF HiddenEffect
  <2>1. ProviderTypeOK'
    BY DEF ProviderTypeOK, Placed, Before, InTurn
  <2>2. Placed'
    BY DEF ProviderTypeOK, Placed, Before, InTurn
  <2>3. Watched'
    BY DEF ProviderTypeOK, Placed, Watched, Before, InTurn, Harmless
  <2>4. Earned'
    BY DEF ProviderTypeOK, Placed, Watched, Earned, Before, InTurn, Harmless
  <2> QED BY <2>1, <2>2, <2>3, <2>4
<1>12. CASE RunCompletes \/ RunFails
  <2> USE <1>12 DEF RunCompletes, RunFails
  <2>1. ProviderTypeOK'
    BY DEF ProviderTypeOK, Placed, Before, InTurn
  <2>2. Placed'
    BY DEF ProviderTypeOK, Placed, Before, InTurn
  <2>3. Watched'
    BY DEF ProviderTypeOK, Placed, Watched, Before, InTurn, Harmless
  <2>4. Earned'
    BY DEF ProviderTypeOK, Placed, Watched, Earned, Before, InTurn, Harmless
  <2> QED BY <2>1, <2>2, <2>3, <2>4
<1>13. CASE AuditTurn
  <2> USE <1>13 DEF AuditTurn
  <2>1. ProviderTypeOK'
    BY DEF ProviderTypeOK, Placed, Before, InTurn
  <2>2. Placed'
    BY DEF ProviderTypeOK, Placed, Before, InTurn
  <2>3. Watched'
    BY DEF ProviderTypeOK, Placed, Watched, Before, InTurn, Harmless
  <2>4. Earned'
    BY DEF ProviderTypeOK, Placed, Watched, Earned, Before, InTurn, Harmless
  <2> QED BY <2>1, <2>2, <2>3, <2>4
<1>14. CASE ParseOutput
  <2> USE <1>14 DEF ParseOutput
  <2>1. ProviderTypeOK'
    BY DEF ProviderTypeOK, Placed, Before, InTurn
  <2>2. Placed'
    BY DEF ProviderTypeOK, Placed, Before, InTurn
  <2>3. Watched'
    BY DEF ProviderTypeOK, Placed, Watched, Before, InTurn, Harmless
  <2>4. Earned'
    BY DEF ProviderTypeOK, Placed, Watched, Earned, Before, InTurn, Harmless
  <2> QED BY <2>1, <2>2, <2>3, <2>4
<1>15. CASE CloseSession
  <2> USE <1>15 DEF CloseSession, Cleanup
  <2>1. ProviderTypeOK'
    BY DEF ProviderTypeOK, Placed, Before, InTurn
  <2>2. Placed'
    BY DEF ProviderTypeOK, Placed, Before, InTurn
  <2>3. Watched'
    BY DEF ProviderTypeOK, Placed, Watched, Before, InTurn, Harmless
  <2>4. Earned'
    BY DEF ProviderTypeOK, Placed, Watched, Earned, Before, InTurn, Harmless
  <2> QED BY <2>1, <2>2, <2>3, <2>4
<1>16. CASE Recheck
  <2> USE <1>16 DEF Recheck
  <2>1. ProviderTypeOK'
    BY DEF ProviderTypeOK, Placed, Before, InTurn
  <2>2. Placed'
    BY DEF ProviderTypeOK, Placed, Before, InTurn
  <2>3. Watched'
    BY DEF ProviderTypeOK, Placed, Watched, Before, InTurn, Harmless
  <2>4. Earned'
    BY DEF ProviderTypeOK, Placed, Watched, Earned, Before, InTurn, Harmless
  <2> QED BY <2>1, <2>2, <2>3, <2>4
<1>17. CASE OperationTimesOut
  <2> USE <1>17 DEF OperationTimesOut
  <2>1. ProviderTypeOK'
    BY DEF ProviderTypeOK, Placed, Before, InTurn
  <2>2. Placed'
    BY DEF ProviderTypeOK, Placed, Before, InTurn
  <2>3. Watched'
    BY DEF ProviderTypeOK, Placed, Watched, Before, InTurn, Harmless
  <2>4. Earned'
    BY DEF ProviderTypeOK, Placed, Watched, Earned, Before, InTurn, Harmless
  <2> QED BY <2>1, <2>2, <2>3, <2>4
<1>18. CASE GenerateImage
  <2> USE <1>18 DEF GenerateImage
  <2>1. ProviderTypeOK'
    <3>1. delivered' \in BOOLEAN
      BY Zenon DEF ProviderTypeOK
    <3> QED BY <3>1 DEF ProviderTypeOK
  <2>2. Placed'
    BY DEF ProviderTypeOK, Placed, Before, InTurn
  <2>3. Watched'
    BY DEF ProviderTypeOK, Placed, Watched, Before, InTurn, Harmless
  <2>4. Earned'
    BY DEF ProviderTypeOK, Placed, Watched, Earned, Before, InTurn, Harmless
  <2> QED BY <2>1, <2>2, <2>3, <2>4
<1>19. CASE BeginStop \/ DeadlinePasses
  <2> USE <1>19 DEF BeginStop, DeadlinePasses
  <2>1. ProviderTypeOK'
    <3>1. late' \in BOOLEAN
      BY Zenon DEF ProviderTypeOK
    <3> QED BY <3>1 DEF ProviderTypeOK
  <2>2. Placed'
    BY DEF ProviderTypeOK, Placed, Before, InTurn
  <2>3. Watched'
    BY DEF ProviderTypeOK, Placed, Watched, Before, InTurn, Harmless
  <2>4. Earned'
    BY DEF ProviderTypeOK, Placed, Watched, Earned, Before, InTurn, Harmless
  <2> QED BY <2>1, <2>2, <2>3, <2>4
<1>20. CASE ShutdownReturns \/ ShutdownTimesOut \/ TeardownEnds
  <2> USE <1>20 DEF ShutdownReturns, ShutdownTimesOut, TeardownEnds, Stops
  <2>1. ProviderTypeOK'
    BY DEF ProviderTypeOK, Placed, Before, InTurn
  <2>2. Placed'
    BY DEF ProviderTypeOK, Placed, Before, InTurn
  <2>3. Watched'
    BY DEF ProviderTypeOK, Placed, Watched, Before, InTurn, Harmless
  <2>4. Earned'
    BY DEF ProviderTypeOK, Placed, Watched, Earned, Before, InTurn, Harmless
  <2> QED BY <2>1, <2>2, <2>3, <2>4
<1>21. CASE WriteAnswer
  <2> USE <1>21 DEF WriteAnswer
  <2>1. ProviderTypeOK'
    BY DEF ProviderTypeOK, Placed, Before, InTurn
  <2>2. Placed'
    BY DEF ProviderTypeOK, Placed, Before, InTurn
  <2>3. Watched'
    BY DEF ProviderTypeOK, Placed, Watched, Before, InTurn, Harmless
  <2>4. Earned'
    BY DEF ProviderTypeOK, Placed, Watched, Earned, Before, InTurn, Harmless
  <2> QED BY <2>1, <2>2, <2>3, <2>4
<1> QED BY <1>1, <1>2, <1>3, <1>4, <1>5, <1>6, <1>7, <1>8, <1>9, <1>10, <1>11, <1>12, <1>13, <1>14, <1>15, <1>16, <1>17, <1>18, <1>19, <1>20, <1>21
        DEF ProviderNext

(* The program, its client, session and staging directory are in states    *)
(* the model names.                                                        *)
THEOREM ProviderTypes == ProviderSpec => []ProviderTypeOK
BY ProviderStarts, ProviderKept, PTL DEF ProviderSpec, ProviderInvariant

LEMMA EarnedMeans == ProviderInvariant => SuccessIsClean /\ OriginalFailureKept
BY DEF ProviderInvariant, ProviderTypeOK, Placed, Earned, Harmless, SuccessIsClean,
       OriginalFailureKept, Codes, Results

(* Neither provider answers success unless every turn was text only, the   *)
(* session closed, the staging directory gone and the client shut down.    *)
THEOREM ProviderSuccessIsClean == ProviderSpec => []SuccessIsClean
BY ProviderStarts, ProviderKept, EarnedMeans, PTL DEF ProviderSpec

(* A failure of the operation is what async_run_request answers, whatever  *)
(* fails after it.                                                         *)
THEOREM ProviderKeepsFailure == ProviderSpec => []OriginalFailureKept
BY ProviderStarts, ProviderKept, EarnedMeans, PTL DEF ProviderSpec

-----------------------------------------------------------------------------
(* ScreenProgram: what validate_nodes accepts is one tree that fits the    *)
(* viewport, for any nodes.  Walk and Place are recursive; what they       *)
(* compute step by step is all that is used of them.                       *)

(* A set of numbers with 0 that has n + 1 whenever it has n has them all;  *)
(* NatInduction says so of an operator.                                    *)
LEMMA NumbersInduct ==
  ASSUME NEW T, 0 \in T, \A n \in Nat : n \in T => n + 1 \in T
  PROVE  Nat \subseteq T
<1> SUFFICES ASSUME Nat \ T # {} PROVE FALSE
  OBVIOUS
<1>1. \A x, y \in Nat : <<x, y>> \in OpToRel(<, Nat) <=> x < y
  BY DEF OpToRel
<1>2. \E n \in Nat \ T : \A m \in Nat \ T : ~(<<m, n>> \in OpToRel(<, Nat))
  BY NatLessThanWellFounded, WFMin
<1>3. PICK n \in Nat \ T : \A m \in Nat \ T : ~(m < n)
  BY <1>1, <1>2
<1>4. n # 0 /\ n - 1 \in Nat /\ n - 1 \in T
  BY <1>3
<1> QED BY <1>3, <1>4

(* A function over 0..n may be defined by what each value makes of the     *)
(* last one.                                                               *)
Iterates(first, step, n, f) ==
  f = [m \in 0..n |-> IF m = 0 THEN first ELSE step[<<m, f[m - 1]>>]]

(* Such a function exists.                                                 *)
LEMMA IteratesExist ==
  ASSUME NEW n \in Nat, NEW V, NEW first \in V, NEW step \in [(1..n) \X V -> V]
  PROVE  \E f \in [0..n -> V] : Iterates(first, step, n, f)
<1> DEFINE N == {m \in Nat : m <= n =>
                   \E f \in [0..m -> V] : Iterates(first, step, m, f)}
<1>1. 0 \in N
  <2> DEFINE f == [m \in 0..0 |-> first]
  <2>1. f \in [0..0 -> V] /\ Iterates(first, step, 0, f)
    BY DEF Iterates
  <2> QED BY <2>1
<1>2. ASSUME NEW m \in Nat, m \in N, m + 1 <= n PROVE m + 1 \in N
  <2>1. PICK f \in [0..m -> V] : Iterates(first, step, m, f)
    BY <1>2
  <2> DEFINE g == [k \in 0..(m + 1) |->
                     IF k = m + 1 THEN step[<<m + 1, f[m]>>] ELSE f[k]]
  <2>2. step[<<m + 1, f[m]>>] \in V
    <3>1. m + 1 \in 1..n /\ f[m] \in V
      BY <1>2
    <3> QED BY <3>1
  <2>3. g \in [0..(m + 1) -> V]
    BY <2>2
  <2>4. /\ g[0] = first
        /\ \A k \in 1..(m + 1) : g[k] = step[<<k, g[k - 1]>>]
    <3>1. f[0] = first /\ \A k \in 1..m : f[k] = step[<<k, f[k - 1]>>]
      BY <2>1 DEF Iterates
    <3>2. ASSUME NEW k \in 1..(m + 1) PROVE g[k] = step[<<k, g[k - 1]>>]
      <4>1. CASE k = m + 1
        BY <4>1, SMTT(20)
      <4>2. CASE k # m + 1
        <5>1. k \in 1..m /\ g[k] = f[k] /\ g[k - 1] = f[k - 1]
          BY <4>2
        <5> QED BY <3>1, <5>1
      <4> QED BY <4>1, <4>2
    <3>3. g[0] = f[0]
      OBVIOUS
    <3> QED BY <3>1, <3>2, <3>3
  <2> HIDE DEF g
  <2>5. Iterates(first, step, m + 1, g)
    <3>1. \A k \in 0..(m + 1) :
            g[k] = IF k = 0 THEN first ELSE step[<<k, g[k - 1]>>]
      BY <2>4
    <3> QED BY <2>3, <3>1 DEF Iterates
  <2> QED BY <2>3, <2>5
<1>3. ASSUME NEW m \in Nat, m \in N PROVE m + 1 \in N
  <2>1. CASE m + 1 <= n
    BY <1>2, <1>3, <2>1
  <2>2. CASE ~(m + 1 <= n)
    BY <2>2
  <2> QED BY <2>1, <2>2
<1>4. Nat \subseteq N
  <2> HIDE DEF N
  <2> QED BY <1>1, <1>3, NumbersInduct
<1> QED BY <1>4

-----------------------------------------------------------------------------
(* What was accepted passed every check, whatever its nodes.               *)
ScreenInv ==
  /\ IsFiniteSet(DOMAIN byId) /\ DOMAIN byId \subseteq Ids
  /\ \A id \in DOMAIN byId : byId[id] \in ScreenNodes
  /\ screen = "accepted" =>
       RootCovers /\ \A id \in DOMAIN byId : InsideParent(id) /\ ~InCycle(id)

(* The parent of a node; of anything else, none.                           *)
Up(a) == IF a \in DOMAIN byId THEN byId[a].parent ELSE NoParent

(* The walk follows the parents.                                           *)
LEMMA WalkGoesUp ==
  ASSUME ScreenInv, NEW id \in DOMAIN byId
  PROVE  LET n == Cardinality(DOMAIN byId) IN
         /\ n \in Nat
         /\ Walk(id)[0] = id
         /\ \A m \in 1..n : Walk(id)[m] = Up(Walk(id)[m - 1])
<1> DEFINE n == Cardinality(DOMAIN byId)
           A == Ids \cup {NoParent}
           step == [p \in (1..n) \X A |-> Up(p[2])]
<1>1. n \in Nat /\ id \in A
  BY FS_CardinalityType DEF ScreenInv
<1>2. \A a \in A : Up(a) \in A
  BY DEF Up, ScreenInv, ScreenNodes
<1>3. step \in [(1..n) \X A -> A]
  BY <1>2
<1> HIDE DEF n
<1>4. PICK f \in [0..n -> A] : Iterates(id, step, n, f)
  <2> HIDE DEF step, A
  <2> QED BY <1>1, <1>3, IteratesExist
<1>5. \A m \in 1..n : f[m] = Up(f[m - 1])
  <2> SUFFICES ASSUME NEW m \in 1..n PROVE f[m] = Up(f[m - 1])
    OBVIOUS
  <2>1. m \in 0..n /\ m # 0 /\ f[m - 1] \in A
    BY <1>1
  <2>2. f[m] = step[<<m, f[m - 1]>>]
    <3> HIDE DEF step, A
    <3> QED BY <1>4, <2>1 DEF Iterates
  <2> QED BY <2>1, <2>2
<1>6. f[0] = id
  <2> HIDE DEF step, A
  <2> QED BY <1>1, <1>4 DEF Iterates
<1> HIDE DEF step, A
<1> DEFINE Goes(up) ==
      up = [m \in 0..n |->
              IF m = 0 THEN id
              ELSE IF up[m - 1] \in DOMAIN byId THEN byId[up[m - 1]].parent
                   ELSE NoParent]
<1>7. Goes(f)
  BY <1>1, <1>5, <1>6 DEF Up
<1>8. Walk(id) = CHOOSE up : Goes(up)
  BY DEF Walk, n
<1>9. Goes(Walk(id))
  <2> HIDE DEF Goes
  <2> QED BY <1>7, <1>8
<1>10. \A m \in 0..n : Walk(id)[m] =
         IF m = 0 THEN id
         ELSE IF Walk(id)[m - 1] \in DOMAIN byId
              THEN byId[Walk(id)[m - 1]].parent ELSE NoParent
  BY <1>9
<1> QED BY <1>1, <1>10 DEF Up, n

(* What a node adds to the place of those below it.                        *)
Shift(a) == IF a \in DOMAIN byId THEN byId[a].x ELSE 0

(* Place adds up what the walk passes.                                     *)
LEMMA PlacesAdd ==
  ASSUME ScreenInv, NEW id \in DOMAIN byId
  PROVE  LET n == Cardinality(DOMAIN byId) IN
         /\ PlaceUpTo(id)[0] = byId[id].x
         /\ \A m \in 1..n :
              PlaceUpTo(id)[m] = PlaceUpTo(id)[m - 1] + Shift(Walk(id)[m])
<1> DEFINE n == Cardinality(DOMAIN byId)
           first == byId[id].x
           step == [p \in (1..n) \X Int |-> p[2] + Shift(Walk(id)[p[1]])]
<1>1. n \in Nat /\ first \in Int
  BY FS_CardinalityType, ViewportAssumption DEF ScreenInv, ScreenNodes
<1>2. \A a : Shift(a) \in Int
  BY ViewportAssumption DEF Shift, ScreenInv, ScreenNodes
<1>3. step \in [(1..n) \X Int -> Int]
  BY <1>2
<1> HIDE DEF n, first
<1>4. PICK f \in [0..n -> Int] : Iterates(first, step, n, f)
  <2> HIDE DEF step
  <2> QED BY <1>1, <1>3, IteratesExist
<1>5. \A m \in 1..n : f[m] = f[m - 1] + Shift(Walk(id)[m])
  <2> SUFFICES ASSUME NEW m \in 1..n
               PROVE  f[m] = f[m - 1] + Shift(Walk(id)[m])
    OBVIOUS
  <2>1. m \in 0..n /\ m # 0 /\ f[m - 1] \in Int
    BY <1>1
  <2>2. f[m] = step[<<m, f[m - 1]>>]
    <3> HIDE DEF step
    <3> QED BY <1>4, <2>1 DEF Iterates
  <2> QED BY <2>1, <2>2
<1>6. f[0] = first
  <2> HIDE DEF step
  <2> QED BY <1>1, <1>4 DEF Iterates
<1> HIDE DEF step
<1> DEFINE Adds(x) ==
      x = [m \in 0..n |->
             IF m = 0 THEN first
             ELSE x[m - 1] + IF Walk(id)[m] \in DOMAIN byId
                             THEN byId[Walk(id)[m]].x ELSE 0]
<1>7. Adds(f)
  BY <1>1, <1>5, <1>6 DEF Shift
<1>8. PlaceUpTo(id) = CHOOSE x : Adds(x)
  BY DEF PlaceUpTo, n, first
<1>9. Adds(PlaceUpTo(id))
  <2> HIDE DEF Adds
  <2> QED BY <1>7, <1>8
<1>10. \A m \in 0..n : PlaceUpTo(id)[m] =
         IF m = 0 THEN first
         ELSE PlaceUpTo(id)[m - 1] + IF Walk(id)[m] \in DOMAIN byId
                                     THEN byId[Walk(id)[m]].x ELSE 0
  BY <1>9
<1> QED BY <1>1, <1>10 DEF Shift, n, first

-----------------------------------------------------------------------------
(* An accepted program.                                                    *)
Accepted ==
  /\ ScreenInv
  /\ RootCovers
  /\ \A id \in DOMAIN byId : InsideParent(id) /\ ~InCycle(id)

(* Every set of nodes with the root and the children of its members has    *)
(* them all: a node outside would have its ancestors outside, and none of  *)
(* them is the root.                                                       *)
LEMMA AcceptedHangs ==
  ASSUME Accepted, NEW top \in TopNodes
  PROVE  HangsFrom(top)
<1> SUFFICES ASSUME NEW S \in SUBSET DOMAIN byId, top \in S,
                    \A id \in DOMAIN byId : byId[id].parent \in S => id \in S,
                    NEW id \in DOMAIN byId, id \notin S
             PROVE  FALSE
  BY DEF HangsFrom
<1> DEFINE n == Cardinality(DOMAIN byId)
           N == {m \in Nat : m <= n =>
                   Walk(id)[m] \in DOMAIN byId /\ Walk(id)[m] \notin S}
<1>1. /\ n \in Nat /\ Walk(id)[0] = id
      /\ \A m \in 1..n : Walk(id)[m] = Up(Walk(id)[m - 1])
  BY WalkGoesUp DEF Accepted
<1>2. \A other \in TopNodes : other = top
  <2>1. TopNodes \subseteq DOMAIN byId /\ IsFiniteSet(DOMAIN byId)
    BY DEF TopNodes, Accepted, ScreenInv
  <2>2. IsFiniteSet(TopNodes)
    BY <2>1, FS_Subset
  <2>3. Cardinality(TopNodes) = 1
    BY DEF Accepted, RootCovers
  <2>4. \E x : TopNodes = {x}
    BY <2>2, <2>3, FS_Singleton
  <2> QED BY <2>4
<1> HIDE DEF n
<1>3. 0 \in N
  BY <1>1
<1>4. ASSUME NEW m \in Nat, m \in N PROVE m + 1 \in N
  <2> SUFFICES ASSUME m + 1 <= n
               PROVE  Walk(id)[m + 1] \in DOMAIN byId /\ Walk(id)[m + 1] \notin S
    OBVIOUS
  <2> DEFINE a == Walk(id)[m]
  <2>1. a \in DOMAIN byId /\ a \notin S
    BY <1>1, <1>4
  <2>2. m + 1 \in 1..n /\ (m + 1) - 1 = m
    BY <1>1
  <2>3. Walk(id)[m + 1] = Up(a)
    BY <1>1, <2>2
  <2> HIDE DEF a
  <2>4. a \notin TopNodes
    BY <1>2, <2>1
  <2>5. byId[a].parent # NoParent
    BY <2>1, <2>4 DEF TopNodes
  <2>6. byId[a].parent \in DOMAIN byId
    BY <2>1, <2>5 DEF Accepted, InsideParent
  <2> QED BY <2>1, <2>3, <2>6 DEF Up
<1>5. Nat \subseteq N
  <2> HIDE DEF N
  <2> QED BY <1>3, <1>4, NumbersInduct
<1>6. Walk(id)[n] \in DOMAIN byId
  BY <1>1, <1>5
<1>7. Walk(id)[n] = NoParent
  BY DEF Accepted, InCycle, n
<1> QED BY <1>6, <1>7, NoParentAssumption DEF Accepted, ScreenInv

(* On the way up a node stays within what the node that was reached takes. *)
LEMMA AcceptedIsInside ==
  ASSUME Accepted, NEW id \in DOMAIN byId
  PROVE  Place(id) >= 0 /\ Place(id) + byId[id].width <= Viewport
<1> DEFINE n == Cardinality(DOMAIN byId)
           w == byId[id].width
           Space(a) == IF a \in DOMAIN byId THEN byId[a].x + byId[a].width
                      ELSE Viewport
           N == {m \in Nat : m <= n =>
                   /\ PlaceUpTo(id)[m] \in Int /\ PlaceUpTo(id)[m] >= 0
                   /\ PlaceUpTo(id)[m] + w <= Space(Walk(id)[m])}
<1>1. /\ n \in Nat /\ Walk(id)[0] = id
      /\ \A m \in 1..n : Walk(id)[m] = Up(Walk(id)[m - 1])
  BY WalkGoesUp DEF Accepted
<1>2. /\ PlaceUpTo(id)[0] = byId[id].x
      /\ \A m \in 1..n :
           PlaceUpTo(id)[m] = PlaceUpTo(id)[m - 1] + Shift(Walk(id)[m])
  BY PlacesAdd DEF Accepted
<1>3. Viewport \in Nat /\ NoParent \notin DOMAIN byId
  BY ViewportAssumption, NoParentAssumption DEF Accepted, ScreenInv
<1>4. ASSUME NEW a \in DOMAIN byId
      PROVE  /\ byId[a].x \in Int /\ byId[a].width \in Int
             /\ byId[a].x >= 0
             /\ \/ /\ byId[a].parent = NoParent
                   /\ byId[a].x = 0 /\ byId[a].width = Viewport
                \/ /\ byId[a].parent \in DOMAIN byId
                   /\ byId[a].x + byId[a].width <= byId[byId[a].parent].width
  <2>1. byId[a].x \in Int /\ byId[a].width \in Int
    BY <1>3 DEF Accepted, ScreenInv, ScreenNodes
  <2>2. CASE byId[a].parent = NoParent
    <3>1. byId[a].x = 0 /\ byId[a].width = Viewport
      BY <2>2 DEF Accepted, RootCovers, TopNodes
    <3> QED BY <2>1, <2>2, <3>1
  <2>3. CASE byId[a].parent # NoParent
    BY <2>1, <2>3 DEF Accepted, InsideParent
  <2> QED BY <2>2, <2>3
<1> HIDE DEF n, w
<1>5. w \in Int /\ w = byId[id].width
  BY <1>4 DEF w
<1>6. 0 \in N
  <2>1. Space(Walk(id)[0]) = byId[id].x + byId[id].width
    BY <1>1
  <2> QED BY <1>2, <1>4, <1>5, <2>1
<1>7. ASSUME NEW m \in Nat, m \in N PROVE m + 1 \in N
  <2> SUFFICES ASSUME m + 1 <= n
               PROVE  /\ PlaceUpTo(id)[m + 1] \in Int
                      /\ PlaceUpTo(id)[m + 1] >= 0
                      /\ PlaceUpTo(id)[m + 1] + w <= Space(Walk(id)[m + 1])
    OBVIOUS
  <2> DEFINE a == Walk(id)[m]
             b == Walk(id)[m + 1]
             p == PlaceUpTo(id)[m]
             q == PlaceUpTo(id)[m + 1]
  <2>1. m + 1 \in 1..n /\ (m + 1) - 1 = m
    BY <1>1
  <2>2. b = Up(a) /\ q = p + Shift(b)
    BY <1>1, <1>2, <2>1
  <2>3. p \in Int /\ p >= 0 /\ p + w <= Space(a)
    BY <1>1, <1>7
  <2> HIDE DEF a, b, p, q, Space
  <2>4. q \in Int /\ q >= 0 /\ q + w <= Space(b)
    <3>1. CASE a \in DOMAIN byId /\ byId[a].parent = NoParent
      <4>1. b = NoParent /\ Shift(b) = 0 /\ Space(b) = Viewport /\ Space(a) = Viewport
        BY <1>3, <1>4, <2>2, <3>1 DEF Up, Shift, Space
      <4> QED BY <2>2, <2>3, <4>1, <1>3, <1>5
    <3>2. CASE a \in DOMAIN byId /\ byId[a].parent # NoParent
      <4>1. /\ b \in DOMAIN byId /\ b = byId[a].parent
            /\ Space(a) <= byId[b].width
        BY <1>4, <2>2, <3>2 DEF Up, Space
      <4>2. /\ byId[b].x \in Int /\ byId[b].width \in Int /\ byId[b].x >= 0
            /\ byId[a].x \in Int /\ byId[a].width \in Int
        BY <1>4, <3>2, <4>1
      <4>3. /\ Shift(b) = byId[b].x /\ Space(b) = byId[b].x + byId[b].width
            /\ Space(a) = byId[a].x + byId[a].width
        BY <3>2, <4>1 DEF Shift, Space
      <4> QED BY <1>5, <2>2, <2>3, <4>1, <4>2, <4>3
    <3>3. CASE a \notin DOMAIN byId
      <4>1. b = NoParent /\ Shift(b) = 0 /\ Space(b) = Viewport /\ Space(a) = Viewport
        BY <1>3, <2>2, <3>3 DEF Up, Shift, Space
      <4> QED BY <2>2, <2>3, <4>1, <1>3, <1>5
    <3> QED BY <3>1, <3>2, <3>3
  <2> QED BY <2>4 DEF b, q
<1>8. Nat \subseteq N
  <2> HIDE DEF N
  <2> QED BY <1>6, <1>7, NumbersInduct
<1>9. /\ PlaceUpTo(id)[n] >= 0
      /\ PlaceUpTo(id)[n] + w <= Space(Walk(id)[n])
  BY <1>1, <1>8
<1>10. Walk(id)[n] = NoParent
  BY DEF Accepted, InCycle, n
<1>11. Space(Walk(id)[n]) = Viewport
  BY <1>3, <1>10
<1> QED BY <1>5, <1>9, <1>11 DEF Place, n

-----------------------------------------------------------------------------
(* No node is there at first.                                              *)
LEMMA ScreenStarts == ScreenInit => ScreenInv
BY FS_EmptySet DEF ScreenInit, ScreenInv

(* Nothing is added to a screen that was answered.                         *)
LEMMA ScreenKept == ScreenInv /\ [ScreenNext]_screenVars => ScreenInv'
<1> SUFFICES ASSUME ScreenInv, [ScreenNext]_screenVars PROVE ScreenInv'
  OBVIOUS
<1>1. ASSUME NEW id \in Ids, NEW node \in ScreenNodes, AddNode(id, node)
      PROVE  ScreenInv'
  <2>1. DOMAIN byId' = DOMAIN byId \cup {id}
    BY <1>1 DEF AddNode
  <2>2. IsFiniteSet(DOMAIN byId') /\ DOMAIN byId' \subseteq Ids
    BY <2>1, FS_AddElement DEF ScreenInv
  <2>3. \A i \in DOMAIN byId' : byId'[i] \in ScreenNodes
    BY <1>1 DEF AddNode, ScreenInv
  <2>4. screen' # "accepted"
    BY <1>1 DEF AddNode
  <2> QED BY <2>2, <2>3, <2>4 DEF ScreenInv, ScreenNodes
<1>2. CASE RefuseNode
  BY <1>2 DEF RefuseNode, ScreenInv, ScreenNodes
<1>3. CASE CheckNodes
  <2>1. byId' = byId
    BY <1>3 DEF CheckNodes
  <2>2. screen' = "accepted" =>
          RootCovers /\ \A id \in DOMAIN byId : InsideParent(id) /\ ~InCycle(id)
    BY <1>3 DEF CheckNodes
  <2> QED
    BY <2>1, <2>2
       DEF ScreenInv, RootCovers, TopNodes, InsideParent, InCycle, Walk, ScreenNodes
<1>4. CASE UNCHANGED screenVars
  BY <1>4
     DEF ScreenInv, RootCovers, TopNodes, InsideParent, InCycle, Walk,
         ScreenNodes, screenVars
<1> QED BY <1>1, <1>2, <1>3, <1>4 DEF ScreenNext

(* Whatever nodes a model answers with, in any order and with any parents, *)
(* a screen that passes validate_nodes is one tree, without a cycle or a   *)
(* node elsewhere, and every node of it lies within the viewport.          *)
THEOREM AcceptedScreenFits == ScreenSpec => []AcceptedFits
<1>1. ScreenInv => AcceptedFits
  <2> SUFFICES ASSUME ScreenInv, screen = "accepted"
               PROVE  /\ \A id \in DOMAIN byId \ TopNodes :
                           byId[id].parent \in DOMAIN byId
                      /\ \E top \in TopNodes : HangsFrom(top)
                      /\ \A id \in DOMAIN byId :
                           Place(id) >= 0 /\ Place(id) + byId[id].width <= Viewport
    BY DEF AcceptedFits
  <2>1. Accepted
    BY DEF ScreenInv, Accepted
  <2>2. \A id \in DOMAIN byId \ TopNodes : byId[id].parent \in DOMAIN byId
    BY <2>1 DEF Accepted, InsideParent, TopNodes
  <2>3. TopNodes # {}
    BY <2>1, FS_EmptySet DEF Accepted, RootCovers
  <2> QED BY <2>1, <2>2, <2>3, AcceptedHangs, AcceptedIsInside
<1> QED BY <1>1, ScreenStarts, ScreenKept, PTL DEF ScreenSpec

-----------------------------------------------------------------------------
(* LineReaders: what a stream is cut into does not depend on how it was     *)
(* read.                                                                    *)

(* A set of sequences with the empty one, and with each of its members     *)
(* every longer one by one, has them all.                                  *)
LEMMA SequencesInduct ==
  ASSUME NEW S, NEW T, <<>> \in T,
         \A s \in Seq(S), b \in S : s \in T => Append(s, b) \in T
  PROVE  Seq(S) \subseteq T
<1> DEFINE N == {n \in Nat : \A s \in Seq(S) : Len(s) = n => s \in T}
<1>1. 0 \in N
  <2> SUFFICES ASSUME NEW s \in Seq(S), Len(s) = 0 PROVE s \in T
    OBVIOUS
  <2>1. s = <<>>
    OBVIOUS
  <2> QED BY <2>1
<1>2. ASSUME NEW n \in Nat, n \in N PROVE n + 1 \in N
  <2> SUFFICES ASSUME NEW s \in Seq(S), Len(s) = n + 1 PROVE s \in T
    OBVIOUS
  <2> DEFINE front == SubSeq(s, 1, n)
  <2>1. front \in Seq(S) /\ Len(front) = n /\ s[n + 1] \in S
    OBVIOUS
  <2>2. s = Append(front, s[n + 1])
    OBVIOUS
  <2> HIDE DEF front
  <2>3. front \in T
    BY <1>2, <2>1
  <2> QED BY <2>1, <2>2, <2>3
<1>3. Nat \subseteq N
  <2> HIDE DEF N
  <2> QED BY <1>1, <1>2, NumbersInduct
<1>4. ASSUME NEW s \in Seq(S) PROVE s \in T
  <2>1. Len(s) \in N
    BY <1>3
  <2> QED BY <2>1
<1> QED BY <1>4

(* Appending to the later of two sequences.                                *)
LEMMA AppendLater ==
  ASSUME NEW S, NEW a \in Seq(S), NEW b \in Seq(S), NEW x \in S
  PROVE  a \o Append(b, x) = Append(a \o b, x)
OBVIOUS

(* What one more byte makes of a cut.                                      *)
NoCut == [lines |-> <<>>, rest |-> <<>>]
After(c, b) ==
  IF b = "LF" THEN [lines |-> Append(c.lines, c.rest), rest |-> <<>>]
  ELSE [lines |-> c.lines, rest |-> Append(c.rest, b)]
Cuts(s, n, f) ==
  /\ DOMAIN f = 0..n
  /\ f[0] = NoCut
  /\ \A m \in 1..n : f[m] = After(f[m - 1], s[m])
CutType == [lines : Seq(Seq(Bytes)), rest : Seq(Bytes)]

(* One more byte.                                                          *)
LEMMA AfterType ==
  ASSUME NEW c \in CutType, NEW b \in Bytes
  PROVE  After(c, b) \in CutType
<1>1. c.lines \in Seq(Seq(Bytes)) /\ c.rest \in Seq(Bytes)
  BY DEF CutType
<1>2. CASE b = "LF"
  <2>1. Append(c.lines, c.rest) \in Seq(Seq(Bytes)) /\ <<>> \in Seq(Bytes)
    BY <1>1
  <2> QED BY <1>2, <2>1 DEF After, CutType
<1>3. CASE b # "LF"
  <2>1. Append(c.rest, b) \in Seq(Bytes)
    BY <1>1
  <2> QED BY <1>1, <1>3, <2>1 DEF After, CutType
<1> QED BY <1>2, <1>3

(* Cut is what it says, step by step.                                      *)
LEMMA CutCuts ==
  ASSUME NEW s \in Seq(Bytes)
  PROVE  \E f \in [0..Len(s) -> CutType] :
           Cuts(s, Len(s), f) /\ Cut(s) = f[Len(s)]
<1> DEFINE n == Len(s)
           step == [p \in (1..n) \X CutType |-> After(p[2], s[p[1]])]
<1>1. n \in Nat /\ NoCut \in CutType /\ \A m \in 1..n : s[m] \in Bytes
  BY DEF NoCut, CutType
<1>2. step \in [(1..n) \X CutType -> CutType]
  BY <1>1, AfterType
<1> HIDE DEF n
<1>3. PICK f \in [0..n -> CutType] : Iterates(NoCut, step, n, f)
  <2> HIDE DEF step
  <2> QED BY <1>1, <1>2, IteratesExist
<1>4. \A m \in 1..n : f[m] = After(f[m - 1], s[m])
  <2> SUFFICES ASSUME NEW m \in 1..n PROVE f[m] = After(f[m - 1], s[m])
    OBVIOUS
  <2>1. m \in 0..n /\ m # 0 /\ f[m - 1] \in CutType
    BY <1>1
  <2>2. f[m] = step[<<m, f[m - 1]>>]
    <3> HIDE DEF step
    <3> QED BY <1>3, <2>1 DEF Iterates
  <2> QED BY <2>1, <2>2
<1>5. f[0] = NoCut
  <2> HIDE DEF step
  <2> QED BY <1>1, <1>3 DEF Iterates
<1> HIDE DEF step
<1> DEFINE Is(g) ==
      g = [m \in 0..n |-> IF m = 0 THEN NoCut ELSE After(g[m - 1], s[m])]
<1>6. Is(f)
  <2>1. \A m \in 0..n : f[m] = IF m = 0 THEN NoCut ELSE After(f[m - 1], s[m])
    BY <1>1, <1>4, <1>5
  <2> QED BY <2>1
<1> DEFINE c == CHOOSE g : Is(g)
<1>7. Cut(s) = c[n]
  BY DEF Cut, n, After, NoCut
<1>8. Is(c)
  <2> HIDE DEF Is
  <2> QED BY <1>6
<1> HIDE DEF c
<1>9. DOMAIN c = 0..n /\ \A m \in 0..n :
        c[m] = IF m = 0 THEN NoCut ELSE After(c[m - 1], s[m])
  BY <1>8
<1> HIDE DEF Is
<1>10. Cuts(s, n, c)
  BY <1>1, <1>9 DEF Cuts
<1>11. \A m \in 0..n : c[m] \in CutType
  <2> DEFINE N == {m \in Nat : m <= n => c[m] \in CutType}
  <2>1. 0 \in N
    BY <1>1, <1>10 DEF Cuts
  <2>2. ASSUME NEW m \in Nat, m \in N PROVE m + 1 \in N
    <3> SUFFICES ASSUME m + 1 <= n PROVE c[m + 1] \in CutType
      OBVIOUS
    <3>1. m + 1 \in 1..n /\ (m + 1) - 1 = m /\ c[m] \in CutType
      BY <1>1, <2>2
    <3>2. c[m + 1] = After(c[m], s[m + 1])
      BY <1>10, <3>1 DEF Cuts
    <3> QED BY <1>1, <3>1, <3>2, AfterType
  <2>3. Nat \subseteq N
    <3> HIDE DEF N
    <3> QED BY <2>1, <2>2, NumbersInduct
  <2> QED BY <1>1, <2>3
<1>12. c \in [0..n -> CutType]
  BY <1>8, <1>11 DEF Is
<1> QED BY <1>7, <1>10, <1>12 DEF n

(* Two sequences that begin alike are cut alike.                           *)
LEMMA CutsAgree ==
  ASSUME NEW s, NEW t, NEW f, NEW g, NEW j \in Nat, NEW k \in Nat,
         Cuts(s, j, f), Cuts(t, k, g), NEW n \in Nat, n <= j, n <= k,
         \A m \in 1..n : s[m] = t[m]
  PROVE  f[n] = g[n]
<1> DEFINE N == {m \in Nat : m <= n => f[m] = g[m]}
<1>1. 0 \in N
  BY DEF Cuts
<1>2. ASSUME NEW m \in Nat, m \in N PROVE m + 1 \in N
  <2> SUFFICES ASSUME m + 1 <= n PROVE f[m + 1] = g[m + 1]
    OBVIOUS
  <2>1. /\ m + 1 \in 1..n /\ m + 1 \in 1..j /\ m + 1 \in 1..k
        /\ (m + 1) - 1 = m /\ f[m] = g[m]
    BY <1>2
  <2> QED BY <2>1 DEF Cuts
<1>3. Nat \subseteq N
  <2> HIDE DEF N
  <2> QED BY <1>1, <1>2, NumbersInduct
<1> QED BY <1>3

(* Nothing is cut into nothing.                                            *)
LEMMA CutNone == Cut(<<>>) = NoCut
<1>1. <<>> \in Seq(Bytes) /\ Len(<<>>) = 0
  OBVIOUS
<1>2. PICK f : Cuts(<<>>, 0, f) /\ Cut(<<>>) = f[0]
  BY <1>1, CutCuts
<1> QED BY <1>2 DEF Cuts

(* What one more byte makes of what is cut.                                *)
LEMMA CutAppend ==
  ASSUME NEW s \in Seq(Bytes), NEW b \in Bytes
  PROVE  Cut(s) \in CutType /\ Cut(Append(s, b)) = After(Cut(s), b)
<1> DEFINE t == Append(s, b)
           n == Len(s)
<1>1. /\ n \in Nat /\ t \in Seq(Bytes) /\ Len(t) = n + 1 /\ t[n + 1] = b
      /\ \A m \in 1..n : s[m] = t[m]
  OBVIOUS
<1> HIDE DEF t
<1>2. PICK f \in [0..n -> CutType] : Cuts(s, n, f) /\ Cut(s) = f[n]
  BY CutCuts
<1>3. PICK g : Cuts(t, n + 1, g) /\ Cut(t) = g[n + 1]
  BY <1>1, CutCuts
<1> HIDE DEF n
<1>4. f[n] = g[n]
  <2>1. n <= n /\ n <= n + 1 /\ n + 1 \in Nat
    BY <1>1
  <2> QED BY <1>1, <1>2, <1>3, <2>1, CutsAgree
<1>5. g[n + 1] = After(g[n], t[n + 1])
  <2>1. n + 1 \in 1..(n + 1) /\ (n + 1) - 1 = n
    BY <1>1
  <2> QED BY <1>3, <2>1 DEF Cuts
<1>6. f[n] \in CutType
  BY <1>1, <1>2
<1> QED BY <1>1, <1>2, <1>3, <1>4, <1>5, <1>6 DEF t

(* The lines and the rest, one byte at a time.                             *)
LEMMA LinesGrow ==
  ASSUME NEW s \in Seq(Bytes), NEW b \in Bytes
  PROVE  /\ Complete(s) \in Seq(Seq(Bytes)) /\ Rest(s) \in Seq(Bytes)
         /\ b = "LF" => /\ Complete(Append(s, b)) = Append(Complete(s), Rest(s))
                        /\ Rest(Append(s, b)) = <<>>
         /\ b # "LF" => /\ Complete(Append(s, b)) = Complete(s)
                        /\ Rest(Append(s, b)) = Append(Rest(s), b)
BY CutAppend DEF Complete, Rest, After, CutType

(* The same of its lines and of its rest.                                  *)
LEMMA NoLines == Complete(<<>>) = <<>> /\ Rest(<<>>) = <<>>
BY CutNone DEF Complete, Rest, NoCut

(* Lines and rest are bytes.                                               *)
LEMMA LinesType ==
  ASSUME NEW s \in Seq(Bytes)
  PROVE  Complete(s) \in Seq(Seq(Bytes)) /\ Rest(s) \in Seq(Bytes)
<1>1. "LF" \in Bytes
  BY DEF Bytes
<1> QED BY <1>1, LinesGrow

(* A sequence that got one more member.                                    *)
LEMMA Appended ==
  ASSUME NEW S, NEW a \in Seq(S), NEW x \in S
  PROVE  /\ Append(a, x) \in Seq(S) /\ Append(a, x) # <<>>
         /\ a = <<>> => Append(a, x) = <<x>>
         /\ a # <<>> => /\ Append(a, x)[1] = a[1]
                        /\ Tail(Append(a, x)) = Append(Tail(a), x)
<1>1. Append(a, x) \in Seq(S) /\ Len(Append(a, x)) = Len(a) + 1 /\ Len(a) \in Nat
  OBVIOUS
<1>2. Append(a, x) # <<>>
  BY <1>1
<1>3. ASSUME a = <<>> PROVE Append(a, x) = <<x>>
  BY <1>3
<1>4. ASSUME a # <<>>
      PROVE  /\ Append(a, x)[1] = a[1]
             /\ Tail(Append(a, x)) = Append(Tail(a), x)
  <2>1. Len(a) \in Nat \ {0}
    BY <1>4
  <2>2. Append(a, x)[1] = a[1]
    BY <2>1
  <2>3. /\ Tail(a) \in Seq(S) /\ Len(Tail(a)) = Len(a) - 1
        /\ \A i \in 1..(Len(a) - 1) : Tail(a)[i] = a[i + 1]
    BY <1>4, <2>1
  <2>4. /\ Tail(Append(a, x)) \in Seq(S) /\ Len(Tail(Append(a, x))) = Len(a)
        /\ \A i \in 1..Len(a) : Tail(Append(a, x))[i] = Append(a, x)[i + 1]
    BY <1>1, <1>2
  <2>5. /\ Append(Tail(a), x) \in Seq(S) /\ Len(Append(Tail(a), x)) = Len(a)
        /\ \A i \in 1..(Len(a) - 1) : Append(Tail(a), x)[i] = Tail(a)[i]
        /\ Append(Tail(a), x)[Len(a)] = x
    BY <2>1, <2>3
  <2>6. ASSUME NEW i \in 1..Len(a)
        PROVE  Tail(Append(a, x))[i] = Append(Tail(a), x)[i]
    <3>1. CASE i = Len(a)
      <4>1. Append(a, x)[i + 1] = x
        BY <3>1
      <4> QED BY <2>4, <2>5, <3>1, <4>1
    <3>2. CASE i # Len(a)
      <4>1. i \in 1..(Len(a) - 1) /\ i + 1 \in 1..Len(a)
        BY <2>1, <3>2
      <4>2. Append(a, x)[i + 1] = a[i + 1]
        BY <4>1
      <4> QED BY <2>3, <2>4, <2>5, <4>1, <4>2
    <3> QED BY <3>1, <3>2
  <2>7. Tail(Append(a, x)) = Append(Tail(a), x)
    <3> DEFINE p == Tail(Append(a, x))
               q == Append(Tail(a), x)
    <3>1. /\ p \in Seq(S) /\ q \in Seq(S) /\ Len(p) = Len(q)
          /\ \A i \in 1..Len(p) : p[i] = q[i]
      BY <2>4, <2>5, <2>6
    <3> HIDE DEF p, q
    <3>2. p = q
      BY <3>1
    <3> QED BY <3>2 DEF p, q
  <2> QED BY <2>2, <2>7
<1> QED BY <1>1, <1>2, <1>3, <1>4

(* What follows the last line feed holds none.                             *)
LEMMA RestIsPlain ==
  ASSUME NEW s \in Seq(Bytes)
  PROVE  /\ Complete(Rest(s)) = <<>> /\ Rest(Rest(s)) = Rest(s)
         /\ Complete(s) = <<>> => Rest(s) = s
<1> DEFINE T == {t \in Seq(Bytes) : /\ Complete(Rest(t)) = <<>>
                                    /\ Complete(t) = <<>> => Rest(t) = t}
<1>1. <<>> \in T
  BY NoLines
<1>2. ASSUME NEW t \in Seq(Bytes), NEW b \in Bytes, t \in T
      PROVE  Append(t, b) \in T
  <2>1. /\ Complete(t) \in Seq(Seq(Bytes)) /\ Rest(t) \in Seq(Bytes)
        /\ Append(t, b) \in Seq(Bytes)
    BY LinesType
  <2>2. CASE b = "LF"
    <3>1. /\ Complete(Append(t, b)) = Append(Complete(t), Rest(t))
          /\ Rest(Append(t, b)) = <<>>
      BY <2>2, LinesGrow
    <3>2. Append(Complete(t), Rest(t)) # <<>>
      BY <2>1, Appended
    <3> QED BY <2>1, <3>1, <3>2, NoLines
  <2>3. CASE b # "LF"
    <3>1. /\ Complete(Append(t, b)) = Complete(t)
          /\ Rest(Append(t, b)) = Append(Rest(t), b)
      BY <2>3, LinesGrow
    <3>2. Complete(Append(Rest(t), b)) = Complete(Rest(t))
      BY <2>1, <2>3, LinesGrow
    <3> QED BY <1>2, <2>1, <3>1, <3>2
  <2> QED BY <2>2, <2>3
<1>3. Seq(Bytes) \subseteq T
  <2> HIDE DEF T
  <2> QED BY <1>1, <1>2, SequencesInduct
<1>4. Rest(s) \in Seq(Bytes)
  BY LinesType
<1> QED BY <1>3, <1>4

(* Cut where one likes and go on with the rest: the lines are the same.    *)
LEMMA LinesJoin ==
  ASSUME NEW s \in Seq(Bytes), NEW t \in Seq(Bytes)
  PROVE  /\ Complete(s \o t) = Complete(s) \o Complete(Rest(s) \o t)
         /\ Rest(s \o t) = Rest(Rest(s) \o t)
<1> DEFINE r == Rest(s)
           l == Complete(s)
           T == {u \in Seq(Bytes) : /\ Complete(s \o u) = l \o Complete(r \o u)
                                    /\ Rest(s \o u) = Rest(r \o u)}
<1>1. r \in Seq(Bytes) /\ l \in Seq(Seq(Bytes))
  BY LinesType
<1>2. <<>> \in T
  <2>1. s \o <<>> = s /\ r \o <<>> = r /\ l \o <<>> = l
    BY <1>1
  <2>2. Complete(r) = <<>> /\ Rest(r) = Rest(s) /\ <<>> \in Seq(Bytes)
    BY RestIsPlain
  <2> QED BY <2>1, <2>2
<1> HIDE DEF r, l
<1>3. ASSUME NEW u \in Seq(Bytes), NEW b \in Bytes, u \in T
      PROVE  Append(u, b) \in T
  <2> DEFINE su == s \o u
             ru == r \o u
  <2>1. /\ s \o Append(u, b) = Append(su, b) /\ su \in Seq(Bytes)
        /\ r \o Append(u, b) = Append(ru, b) /\ ru \in Seq(Bytes)
        /\ Append(u, b) \in Seq(Bytes)
    BY <1>1
  <2>2. Complete(su) = l \o Complete(ru) /\ Rest(su) = Rest(ru)
    BY <1>3
  <2>3. Complete(ru) \in Seq(Seq(Bytes)) /\ Rest(ru) \in Seq(Bytes)
    BY <2>1, LinesType
  <2> HIDE DEF su, ru
  <2>4. CASE b = "LF"
    <3>1. /\ Complete(Append(su, b)) = Append(l \o Complete(ru), Rest(ru))
          /\ Rest(Append(su, b)) = <<>>
      <4>1. /\ Complete(Append(su, b)) = Append(Complete(su), Rest(su))
            /\ Rest(Append(su, b)) = <<>>
        BY <2>1, <2>4, LinesGrow
      <4> QED BY ONLY <2>2, <4>1
    <3>2. /\ Complete(Append(ru, b)) = Append(Complete(ru), Rest(ru))
          /\ Rest(Append(ru, b)) = <<>>
      BY <2>1, <2>4, LinesGrow
    <3>3. l \o Append(Complete(ru), Rest(ru)) = Append(l \o Complete(ru), Rest(ru))
      BY <1>1, <2>3, AppendLater
    <3> HIDE DEF su, ru
    <3>4. /\ Complete(s \o Append(u, b)) = l \o Complete(r \o Append(u, b))
          /\ Rest(s \o Append(u, b)) = Rest(r \o Append(u, b))
      BY <2>1, <3>1, <3>2, <3>3
    <3> QED BY <2>1, <3>4
  <2>5. CASE b # "LF"
    <3>1. /\ Complete(Append(su, b)) = l \o Complete(ru)
          /\ Rest(Append(su, b)) = Append(Rest(ru), b)
      <4>1. /\ Complete(Append(su, b)) = Complete(su)
            /\ Rest(Append(su, b)) = Append(Rest(su), b)
        BY <2>1, <2>5, LinesGrow
      <4> QED BY ONLY <2>2, <4>1
    <3>2. /\ Complete(Append(ru, b)) = Complete(ru)
          /\ Rest(Append(ru, b)) = Append(Rest(ru), b)
      BY <2>1, <2>5, LinesGrow
    <3>3. /\ Complete(s \o Append(u, b)) = l \o Complete(r \o Append(u, b))
          /\ Rest(s \o Append(u, b)) = Rest(r \o Append(u, b))
      BY <2>1, <2>2, <3>1, <3>2
    <3> QED BY <2>1, <3>3
  <2> QED BY <2>4, <2>5
<1>4. Seq(Bytes) \subseteq T
  <2> HIDE DEF T
  <2> QED BY <1>2, <1>3, SequencesInduct
<1> QED BY <1>4 DEF r, l

(* The first line is all of the sequence up to its line feed.              *)
LEMMA FirstLine ==
  ASSUME NEW s \in Seq(Bytes), Complete(s) # <<>>
  PROVE  LET n == Len(Complete(s)[1]) + 1 IN
         /\ Complete(s)[1] \in Seq(Bytes)
         /\ n \in 1..Len(s)
         /\ Complete(SubSeq(s, 1, n)) = <<Complete(s)[1]>>
         /\ Rest(SubSeq(s, 1, n)) = <<>>
<1> DEFINE First(t) ==
      LET n == Len(Complete(t)[1]) + 1 IN
      /\ n \in 1..Len(t)
      /\ Complete(SubSeq(t, 1, n)) = <<Complete(t)[1]>>
      /\ Rest(SubSeq(t, 1, n)) = <<>>
           T == {t \in Seq(Bytes) : Complete(t) # <<>> => First(t)}
<1>1. <<>> \in T
  BY NoLines
<1>2. ASSUME NEW t \in Seq(Bytes), NEW b \in Bytes, t \in T
      PROVE  Append(t, b) \in T
  <2> DEFINE u == Append(t, b)
  <2>0. /\ Complete(t) \in Seq(Seq(Bytes)) /\ Rest(t) \in Seq(Bytes)
        /\ u \in Seq(Bytes) /\ Len(u) = Len(t) + 1 /\ Len(t) \in Nat
    BY LinesType
  <2>1. CASE Complete(t) # <<>>
    <3> DEFINE n == Len(Complete(t)[1]) + 1
    <3>1. Complete(u)[1] = Complete(t)[1]
      <4>1. CASE b = "LF"
        <5>1. Complete(u) = Append(Complete(t), Rest(t))
          BY <4>1, LinesGrow
        <5> HIDE DEF u
        <5> QED BY <2>0, <2>1, <5>1, Appended
      <4>2. CASE b # "LF"
        BY <4>2, LinesGrow
      <4> QED BY <4>1, <4>2
    <3>2. /\ n \in 1..Len(t)
          /\ Complete(SubSeq(t, 1, n)) = <<Complete(t)[1]>>
          /\ Rest(SubSeq(t, 1, n)) = <<>>
      BY <1>2, <2>1
    <3> HIDE DEF n
    <3>3. SubSeq(u, 1, n) = SubSeq(t, 1, n)
      BY <2>0, <3>2
    <3>4. n \in 1..Len(u)
      BY <2>0, <3>2
    <3> HIDE DEF u
    <3>5. First(u)
      BY <3>1, <3>2, <3>3, <3>4 DEF n
    <3> QED BY <2>0, <3>5 DEF u
  <2>2. CASE Complete(t) = <<>>
    <3>1. CASE b = "LF"
      <4>1. Rest(t) = t
        BY <2>2, RestIsPlain
      <4>2. Complete(u) = <<t>> /\ Rest(u) = <<>>
        <5>1. Complete(u) = Append(Complete(t), Rest(t)) /\ Rest(u) = <<>>
          BY <3>1, LinesGrow
        <5> HIDE DEF u
        <5> QED BY <2>0, <2>2, <4>1, <5>1, Appended
      <4>3. SubSeq(u, 1, Len(t) + 1) = u /\ Len(t) + 1 \in 1..Len(u)
        BY <2>0
      <4>4. Complete(u)[1] = t
        BY <4>2
      <4> HIDE DEF u
      <4>5. First(u)
        BY <4>2, <4>3, <4>4
      <4> QED BY <2>0, <4>5 DEF u
    <3>2. CASE b # "LF"
      <4>1. Complete(u) = <<>>
        BY <2>2, <3>2, LinesGrow
      <4> HIDE DEF u
      <4> QED BY <2>0, <4>1 DEF u
    <3> QED BY <3>1, <3>2
  <2> QED BY <2>1, <2>2
<1>3. Seq(Bytes) \subseteq T
  <2> HIDE DEF T
  <2> QED BY <1>1, <1>2, SequencesInduct
<1>4. First(s)
  BY <1>3
<1>5. Complete(s)[1] \in Seq(Bytes)
  <2>1. Complete(s) \in Seq(Seq(Bytes)) /\ Len(Complete(s)) \in Nat \ {0}
    BY LinesType
  <2> QED BY <2>1
<1> QED BY <1>4, <1>5

(* Bytes before a line only make its first line longer.                    *)
LEMMA LineGrowsInFront ==
  ASSUME NEW r \in Seq(Bytes), Complete(r) = <<>>, NEW s \in Seq(Bytes)
  PROVE  /\ Complete(s) = <<>> =>
              Complete(r \o s) = <<>> /\ Rest(r \o s) = r \o s
         /\ Complete(s) # <<>> =>
              /\ Complete(r \o s) = <<r \o Complete(s)[1]>> \o Tail(Complete(s))
              /\ Rest(r \o s) = Rest(s)
<1> DEFINE Grows(t) ==
      /\ Complete(t) = <<>> => Complete(r \o t) = <<>> /\ Rest(r \o t) = r \o t
      /\ Complete(t) # <<>> =>
           /\ Complete(r \o t) = <<r \o Complete(t)[1]>> \o Tail(Complete(t))
           /\ Rest(r \o t) = Rest(t)
           T == {t \in Seq(Bytes) : Grows(t)}
<1>1. <<>> \in T
  <2>1. r \o <<>> = r /\ Rest(r) = r
    BY RestIsPlain
  <2> QED BY <2>1, NoLines
<1>2. ASSUME NEW t \in Seq(Bytes), NEW b \in Bytes, t \in T
      PROVE  Append(t, b) \in T
  <2> DEFINE u == Append(t, b)
             rt == r \o t
  <2>0. /\ Complete(t) \in Seq(Seq(Bytes)) /\ Rest(t) \in Seq(Bytes)
        /\ u \in Seq(Bytes) /\ rt \in Seq(Bytes) /\ r \o u = Append(rt, b)
    BY LinesType
  <2>1. Grows(t)
    BY <1>2
  <2>2. CASE Complete(t) = <<>>
    <3>1. Complete(rt) = <<>> /\ Rest(rt) = rt /\ Rest(t) = t
      BY <2>1, <2>2, RestIsPlain
    <3>2. CASE b = "LF"
      <4>1. Complete(u) = <<t>> /\ Rest(u) = <<>>
        <5>1. Complete(u) = Append(Complete(t), Rest(t)) /\ Rest(u) = <<>>
          BY <3>2, LinesGrow
        <5> HIDE DEF u
        <5> QED BY <2>0, <2>2, <3>1, <5>1, Appended
      <4>2. Complete(Append(rt, b)) = <<rt>> /\ Rest(Append(rt, b)) = <<>>
        <5> HIDE DEF rt
        <5>1. /\ Complete(Append(rt, b)) = Append(Complete(rt), Rest(rt))
              /\ Rest(Append(rt, b)) = <<>>
          BY <2>0, <3>2, LinesGrow
        <5>2. Append(<<>>, rt) = <<rt>>
          OBVIOUS
        <5> QED BY <3>1, <5>1, <5>2
      <4>3. Complete(u)[1] = t /\ Tail(Complete(u)) = <<>> /\ Complete(u) # <<>>
        BY <4>1
      <4>4. <<rt>> \o <<>> = <<rt>>
        OBVIOUS
      <4> HIDE DEF u
      <4>5. Grows(u)
        BY <2>0, <4>1, <4>2, <4>3, <4>4
      <4> QED BY <2>0, <4>5 DEF u
    <3>3. CASE b # "LF"
      <4>1. Complete(u) = <<>>
        BY <2>2, <3>3, LinesGrow
      <4>2. Complete(Append(rt, b)) = <<>> /\ Rest(Append(rt, b)) = Append(rt, b)
        BY <2>0, <3>1, <3>3, LinesGrow
      <4> HIDE DEF u, rt
      <4>3. Grows(u)
        BY <2>0, <4>1, <4>2
      <4> QED BY <2>0, <4>3 DEF u
    <3> QED BY <3>2, <3>3
  <2>3. CASE Complete(t) # <<>>
    <3> DEFINE l == r \o Complete(t)[1]
               m == Tail(Complete(t))
    <3>1. Complete(rt) = <<l>> \o m /\ Rest(rt) = Rest(t)
      BY <2>1, <2>3
    <3>2. l \in Seq(Bytes) /\ m \in Seq(Seq(Bytes))
      <4>1. Complete(t)[1] \in Seq(Bytes)
        BY <2>0, <2>3
      <4> QED BY <2>0, <2>3, <4>1
    <3>3. CASE b = "LF"
      <4>1. Complete(u) = Append(Complete(t), Rest(t)) /\ Rest(u) = <<>>
        BY <3>3, LinesGrow
      <4>2. /\ Complete(Append(rt, b)) = Append(<<l>> \o m, Rest(t))
            /\ Rest(Append(rt, b)) = <<>>
        BY <2>0, <3>1, <3>3, LinesGrow
      <4>3. /\ Complete(u)[1] = Complete(t)[1] /\ Complete(u) # <<>>
            /\ Tail(Complete(u)) = Append(m, Rest(t))
        <5> HIDE DEF u
        <5>1. /\ Append(Complete(t), Rest(t)) # <<>>
              /\ Append(Complete(t), Rest(t))[1] = Complete(t)[1]
              /\ Tail(Append(Complete(t), Rest(t)))
                   = Append(Tail(Complete(t)), Rest(t))
          BY <2>0, <2>3, Appended
        <5> QED BY <4>1, <5>1
      <4>4. <<l>> \o Append(m, Rest(t)) = Append(<<l>> \o m, Rest(t))
        <5>1. <<l>> \in Seq(Seq(Bytes))
          BY <3>2
        <5> HIDE DEF l, m
        <5>2. m \in Seq(Seq(Bytes)) /\ Rest(t) \in Seq(Bytes)
          BY <2>0, <3>2
        <5> QED BY ONLY <5>1, <5>2, AppendLater
      <4> HIDE DEF u, m, rt
      <4>5. Grows(u)
        BY <2>0, <4>1, <4>2, <4>3, <4>4
      <4> QED BY <2>0, <4>5 DEF u
    <3>4. CASE b # "LF"
      <4>1. Complete(u) = Complete(t) /\ Rest(u) = Append(Rest(t), b)
        BY <3>4, LinesGrow
      <4>2. /\ Complete(Append(rt, b)) = <<l>> \o m
            /\ Rest(Append(rt, b)) = Append(Rest(t), b)
        BY <2>0, <3>1, <3>4, LinesGrow
      <4> HIDE DEF u, rt
      <4>3. Grows(u)
        BY <2>0, <2>3, <4>1, <4>2
      <4> QED BY <2>0, <4>3 DEF u
    <3> QED BY <3>3, <3>4
  <2> QED BY <2>2, <2>3
<1>3. Seq(Bytes) \subseteq T
  <2> HIDE DEF T
  <2> QED BY <1>1, <1>2, SequencesInduct
<1> QED BY <1>3

(* Sequences with the same members are the same.                           *)
LEMMA SameMembers ==
  ASSUME NEW S, NEW p \in Seq(S), NEW q \in Seq(S), Len(p) = Len(q),
         \A k \in 1..Len(p) : p[k] = q[k]
  PROVE  p = q
OBVIOUS

(* The members of two sequences put one after the other.                   *)
LEMMA JoinMembers ==
  ASSUME NEW S, NEW a \in Seq(S), NEW b \in Seq(S)
  PROVE  /\ a \o b \in Seq(S) /\ Len(a \o b) = Len(a) + Len(b)
         /\ Len(a) \in Nat /\ Len(b) \in Nat
         /\ \A k \in 1..Len(a) : (a \o b)[k] = a[k]
         /\ \A k \in 1..Len(b) : (a \o b)[Len(a) + k] = b[k]
<1>1. Len(a) \in Nat /\ Len(b) \in Nat /\ Len(a \o b) = Len(a) + Len(b)
  OBVIOUS
<1>2. ASSUME NEW k \in 1..Len(a) PROVE (a \o b)[k] = a[k]
  <2>1. k \in 1..(Len(a) + Len(b))
    BY <1>1
  <2> QED BY <1>1, <2>1
<1>3. ASSUME NEW k \in 1..Len(b) PROVE (a \o b)[Len(a) + k] = b[k]
  <2>1. Len(a) + k \in 1..(Len(a) + Len(b)) /\ ~(Len(a) + k <= Len(a))
        /\ Len(a) + k - Len(a) = k
    BY <1>1
  <2> QED BY <1>1, <2>1
<1> QED BY <1>1, <1>2, <1>3

(* What a function makes of each member of a sequence.                     *)
Each(f, s) == [k \in DOMAIN s |-> f[s[k]]]
Maps(f, S, T) == f \in [S -> T]

(* It makes a sequence as long, member by member.                          *)
LEMMA EachType ==
  ASSUME NEW S, NEW T, NEW f, Maps(f, S, T), NEW s \in Seq(S)
  PROVE  /\ Each(f, s) \in Seq(T) /\ Len(Each(f, s)) = Len(s)
         /\ \A k \in 1..Len(s) : Each(f, s)[k] = f[s[k]]
<1>1. DOMAIN s = 1..Len(s) /\ Len(s) \in Nat /\ \A k \in 1..Len(s) : s[k] \in S
  OBVIOUS
<1> QED BY <1>1 DEF Each, Maps

(* It does so one part after the other.                                    *)
LEMMA EachJoin ==
  ASSUME NEW S, NEW T, NEW f, Maps(f, S, T), NEW a \in Seq(S), NEW b \in Seq(S)
  PROVE  Each(f, a \o b) = Each(f, a) \o Each(f, b)
<1> DEFINE p == Each(f, a \o b)
           fa == Each(f, a)
           fb == Each(f, b)
           q == fa \o fb
<1>0. ASSUME NEW s \in Seq(S)
      PROVE  /\ Each(f, s) \in Seq(T) /\ Len(Each(f, s)) = Len(s)
             /\ \A k \in 1..Len(s) : Each(f, s)[k] = f[s[k]]
  BY ONLY Maps(f, S, T), s \in Seq(S), EachType
<1>1. /\ a \o b \in Seq(S) /\ Len(a \o b) = Len(a) + Len(b)
      /\ Len(a) \in Nat /\ Len(b) \in Nat
      /\ \A k \in 1..Len(a) : (a \o b)[k] = a[k]
      /\ \A k \in 1..Len(b) : (a \o b)[Len(a) + k] = b[k]
  BY JoinMembers
<1>2. /\ p \in Seq(T) /\ Len(p) = Len(a) + Len(b)
      /\ \A k \in 1..Len(p) : p[k] = f[(a \o b)[k]]
  <2>1. PICK ab \in Seq(S) : ab = a \o b
    BY <1>1
  <2>2. /\ Each(f, ab) \in Seq(T) /\ Len(Each(f, ab)) = Len(ab)
        /\ \A k \in 1..Len(ab) : Each(f, ab)[k] = f[ab[k]]
    BY <1>0
  <2> QED BY <1>1, <2>1, <2>2
<1>3. /\ fa \in Seq(T) /\ Len(fa) = Len(a)
      /\ \A k \in 1..Len(a) : fa[k] = f[a[k]]
  BY <1>0
<1>4. /\ fb \in Seq(T) /\ Len(fb) = Len(b)
      /\ \A k \in 1..Len(b) : fb[k] = f[b[k]]
  BY <1>0
<1> HIDE DEF p, fa, fb
<1>5. /\ q \in Seq(T) /\ Len(q) = Len(a) + Len(b)
      /\ \A k \in 1..Len(a) : q[k] = fa[k]
      /\ \A k \in 1..Len(b) : q[Len(a) + k] = fb[k]
  <2>1. /\ fa \o fb \in Seq(T) /\ Len(fa \o fb) = Len(fa) + Len(fb)
        /\ \A k \in 1..Len(fa) : (fa \o fb)[k] = fa[k]
        /\ \A k \in 1..Len(fb) : (fa \o fb)[Len(fa) + k] = fb[k]
    <3>1. fa \in Seq(T) /\ fb \in Seq(T)
      BY <1>3, <1>4
    <3> QED BY ONLY <3>1, JoinMembers
  <2> QED BY <1>3, <1>4, <2>1
<1> HIDE DEF q
<1>6. ASSUME NEW k \in 1..Len(p) PROVE p[k] = q[k]
  <2>1. k \in Nat /\ k >= 1 /\ k <= Len(a) + Len(b)
    BY <1>1, <1>2
  <2>2. CASE k <= Len(a)
    <3>1. k \in 1..Len(a)
      BY <1>1, <2>1, <2>2
    <3> QED BY <1>1, <1>2, <1>3, <1>5, <3>1
  <2>3. CASE ~(k <= Len(a))
    <3>1. k - Len(a) \in 1..Len(b) /\ k = Len(a) + (k - Len(a))
      BY <1>1, <2>1, <2>3
    <3>2. (a \o b)[k] = b[k - Len(a)] /\ q[k] = fb[k - Len(a)]
      BY <1>1, <1>5, <3>1
    <3> QED BY <1>2, <1>4, <3>1, <3>2
  <2> QED BY <2>2, <2>3
<1>7. p = q
  <2>1. p \in Seq(T) /\ q \in Seq(T) /\ Len(p) = Len(q)
    BY <1>2, <1>5
  <2> QED BY <1>6, <2>1, SameMembers
<1> QED BY <1>7 DEF p, q, fa, fb

(* The frames of some lines.                                               *)
TrimmedAll(lines) == [k \in DOMAIN lines |-> Trimmed(lines[k])]
Trim == [line \in Seq(Bytes) |-> Trimmed(line)]

(* Trimmed is such a function, on lines.                                   *)
LEMMA TrimmedEach ==
  /\ Maps(Trim, Seq(Bytes), Seq(Bytes))
  /\ \A lines \in Seq(Seq(Bytes)) : TrimmedAll(lines) = Each(Trim, lines)
<1>1. \A line \in Seq(Bytes) : Trimmed(line) \in Seq(Bytes)
  BY DEF Trimmed
<1>2. ASSUME NEW lines \in Seq(Seq(Bytes))
      PROVE  \A k \in DOMAIN lines : Trim[lines[k]] = Trimmed(lines[k])
  BY DEF Trim
<1> QED BY <1>1, <1>2 DEF Trim, TrimmedAll, Each, Maps

(* There are as many frames as lines.                                      *)
LEMMA TrimmedType ==
  ASSUME NEW lines \in Seq(Seq(Bytes))
  PROVE  /\ TrimmedAll(lines) \in Seq(Seq(Bytes))
         /\ Len(TrimmedAll(lines)) = Len(lines)
         /\ \A k \in DOMAIN lines : TrimmedAll(lines)[k] = Trimmed(lines[k])
<1>1. \A k \in DOMAIN lines : TrimmedAll(lines)[k] = Trimmed(lines[k])
  BY DEF TrimmedAll
<1> QED BY <1>1, TrimmedEach, EachType

(* The frames of more lines follow.                                        *)
LEMMA TrimmedJoin ==
  ASSUME NEW a \in Seq(Seq(Bytes)), NEW b \in Seq(Seq(Bytes))
  PROVE  TrimmedAll(a \o b) = TrimmedAll(a) \o TrimmedAll(b)
<1>1. a \o b \in Seq(Seq(Bytes))
  BY JoinMembers
<1>2. Each(Trim, a \o b) = Each(Trim, a) \o Each(Trim, b)
  <2>1. /\ Maps(Trim, Seq(Bytes), Seq(Bytes))
        /\ a \in Seq(Seq(Bytes)) /\ b \in Seq(Seq(Bytes))
    BY TrimmedEach
  <2> QED BY ONLY <2>1, EachJoin
<1> QED BY <1>1, <1>2, TrimmedEach

(* The frame of one line.                                                  *)
LEMMA TrimmedOne ==
  ASSUME NEW line \in Seq(Bytes)
  PROVE  TrimmedAll(<<line>>) = <<Trimmed(line)>>
BY DEF TrimmedAll

(* The first frame that is none is found where it is.                      *)
LEMMA FirstBadIs ==
  ASSUME NEW frames \in Seq(Seq(Bytes)), NEW k, IsFirstBad(frames, k)
  PROVE  FirstBad(frames) = k /\ ~AllGood(frames)
         /\ GoodFrames(frames) = SubSeq(frames, 1, k - 1)
<1>1. \A j : IsFirstBad(frames, j) => j = k
  <2> SUFFICES ASSUME NEW j, IsFirstBad(frames, j) PROVE j = k
    OBVIOUS
  <2>1. k \in 1..Len(frames) /\ j \in 1..Len(frames) /\ Len(frames) \in Nat
    BY DEF IsFirstBad
  <2>2. ~(j \in 1..(k - 1)) /\ ~(k \in 1..(j - 1))
    BY DEF IsFirstBad
  <2> QED BY <2>1, <2>2
<1>2. k \in DOMAIN frames
  BY DEF IsFirstBad
<1>3. FirstBad(frames) = k
  BY <1>1, <1>2 DEF FirstBad
<1>4. ~AllGood(frames)
  BY DEF IsFirstBad, AllGood
<1> QED BY <1>3, <1>4 DEF GoodFrames

(* Frames that are not all good have a first one that is not.              *)
LEMMA FirstBadExists ==
  ASSUME NEW frames \in Seq(Seq(Bytes)), ~AllGood(frames)
  PROVE  \E k : IsFirstBad(frames, k)
<1> SUFFICES ASSUME \A k : ~IsFirstBad(frames, k) PROVE FALSE
  OBVIOUS
<1> DEFINE N == {n \in Nat : \A k \in 1..n : k \in DOMAIN frames =>
                               FrameVerdict(frames[k]) = "no"}
<1>1. 0 \in N
  OBVIOUS
<1>2. ASSUME NEW n \in Nat, n \in N PROVE n + 1 \in N
  <2> SUFFICES ASSUME NEW k \in 1..(n + 1), k \in DOMAIN frames
               PROVE  FrameVerdict(frames[k]) = "no"
    OBVIOUS
  <2>1. CASE k \in 1..n
    BY <1>2, <2>1
  <2>2. CASE k = n + 1
    <3>1. \A j \in 1..(k - 1) : j \in DOMAIN frames
      BY <2>2
    <3>2. \A j \in 1..(k - 1) : FrameVerdict(frames[j]) = "no"
      BY <1>2, <2>2, <3>1
    <3> QED BY <3>2 DEF IsFirstBad
  <2> QED BY <2>1, <2>2
<1>3. Nat \subseteq N
  <2> HIDE DEF N
  <2> QED BY <1>1, <1>2, NumbersInduct
<1>4. Len(frames) \in Nat /\ DOMAIN frames = 1..Len(frames)
  OBVIOUS
<1>5. Len(frames) \in N
  <2> HIDE DEF N
  <2> QED BY <1>3, <1>4
<1>6. \A k \in 1..Len(frames) : FrameVerdict(frames[k]) = "no"
  BY <1>4, <1>5
<1> QED BY <1>4, <1>6 DEF AllGood

-----------------------------------------------------------------------------
(* JsonLinesReader: what was read is split between the lines whose frames  *)
(* were returned and what is still in the buffer.                          *)
Handled(read) ==
  /\ input = read \o unread /\ Rest(read) = <<>>
  /\ kept = TrimmedAll(Complete(read))
  /\ \A k \in DOMAIN kept : FrameVerdict(kept[k]) = "no"
FramesDone ==
  /\ kept = GoodFrames(Frames(input))
  /\ ended = HowItEnds(Frames(input), Rest(input))
FramesInv ==
  /\ input \in Seq(Bytes) /\ unread \in Seq(Bytes) /\ kept \in Seq(Seq(Bytes))
  /\ Len(unread) <= MaxLine + 2
  /\ ended \in {"no", "eof"} => \E read \in Seq(Bytes) : Handled(read)
  /\ ended \notin {"no", "eof"} => FramesDone

(* All frames are those returned and those of the buffer.                  *)
LEMMA FramesSplit ==
  ASSUME FramesInv, NEW read \in Seq(Bytes), Handled(read)
  PROVE  /\ Frames(input) = kept \o TrimmedAll(Complete(unread))
         /\ Rest(input) = Rest(unread)
         /\ Frames(input) \in Seq(Seq(Bytes))
         /\ Complete(unread) \in Seq(Seq(Bytes)) /\ Complete(read) \in Seq(Seq(Bytes))
<1>1. <<>> \o unread = unread /\ unread \in Seq(Bytes)
  BY DEF FramesInv
<1>2. /\ Complete(input) = Complete(read) \o Complete(unread)
      /\ Rest(input) = Rest(unread)
  <2>1. /\ Complete(read \o unread) = Complete(read) \o Complete(Rest(read) \o unread)
        /\ Rest(read \o unread) = Rest(Rest(read) \o unread)
    BY <1>1, LinesJoin
  <2>2. Rest(read) = <<>> /\ input = read \o unread
    BY DEF Handled
  <2> QED BY <1>1, <2>1, <2>2
<1>3. Complete(read) \in Seq(Seq(Bytes)) /\ Complete(unread) \in Seq(Seq(Bytes))
  BY <1>1, LinesType
<1>4. Frames(input) = TrimmedAll(Complete(input))
  BY DEF Frames, TrimmedAll
<1>5. Frames(input) = kept \o TrimmedAll(Complete(unread))
  BY <1>2, <1>3, <1>4, TrimmedJoin DEF Handled
<1>6. TrimmedAll(Complete(unread)) \in Seq(Seq(Bytes)) /\ kept \in Seq(Seq(Bytes))
  BY <1>3, TrimmedType DEF FramesInv
<1>7. Frames(input) \in Seq(Seq(Bytes))
  <2> DEFINE b == TrimmedAll(Complete(unread))
  <2> HIDE DEF b
  <2> QED BY <1>5, <1>6 DEF b
<1> QED BY <1>2, <1>3, <1>5, <1>7

(* What was returned begins what is to be returned.                        *)
LEMMA FramesMean == FramesInv => FramesExact
<1> SUFFICES ASSUME FramesInv PROVE FramesExact
  OBVIOUS
<1>1. CASE ended \in {"no", "eof"}
  <2>1. PICK read \in Seq(Bytes) : Handled(read)
    BY <1>1 DEF FramesInv
  <2> DEFINE b == TrimmedAll(Complete(unread))
             frames == Frames(input)
  <2>2. frames = kept \o b /\ b \in Seq(Seq(Bytes)) /\ kept \in Seq(Seq(Bytes))
        /\ frames \in Seq(Seq(Bytes))
    BY <2>1, FramesSplit, TrimmedType DEF FramesInv
  <2> HIDE DEF b, frames
  <2>3. /\ Len(kept) \in Nat /\ Len(kept) <= Len(frames) /\ Len(frames) \in Nat
        /\ \A k \in 1..Len(kept) : frames[k] = kept[k]
        /\ DOMAIN kept = 1..Len(kept)
    BY <2>2
  <2>4. \A m \in Len(kept)..Len(frames) :
          kept = SubSeq(SubSeq(frames, 1, m), 1, Len(kept))
    <3> SUFFICES ASSUME NEW m \in Len(kept)..Len(frames)
                 PROVE  kept = SubSeq(SubSeq(frames, 1, m), 1, Len(kept))
      OBVIOUS
    <3> DEFINE q == SubSeq(frames, 1, m)
               p == SubSeq(q, 1, Len(kept))
    <3>1. /\ q \in Seq(Seq(Bytes)) /\ Len(q) = m
          /\ \A k \in 1..m : q[k] = frames[k]
      BY <2>2, <2>3
    <3> HIDE DEF q
    <3>2. /\ p \in Seq(Seq(Bytes)) /\ Len(p) = Len(kept)
          /\ \A k \in 1..Len(kept) : p[k] = q[k]
      BY <2>3, <3>1
    <3> HIDE DEF p
    <3>3. ASSUME NEW k \in 1..Len(kept) PROVE p[k] = kept[k]
      <4>1. k \in 1..m
        BY <2>3
      <4> QED BY <2>3, <3>1, <3>2, <4>1
    <3>4. p = kept
      <4>1. kept \in Seq(Seq(Bytes))
        BY <2>2
      <4> QED BY <3>2, <3>3, <4>1, SameMembers
    <3> QED BY <3>4 DEF p, q
  <2>5. /\ Len(kept) <= Len(GoodFrames(frames))
        /\ kept = SubSeq(GoodFrames(frames), 1, Len(kept))
    <3>1. CASE AllGood(frames)
      <4>1. GoodFrames(frames) = frames /\ SubSeq(frames, 1, Len(frames)) = frames
        BY <2>2, <3>1 DEF GoodFrames
      <4>2. Len(frames) \in Len(kept)..Len(frames)
        BY <2>3
      <4> QED BY <2>3, <2>4, <4>1, <4>2
    <3>2. CASE ~AllGood(frames)
      <4>1. PICK k : IsFirstBad(frames, k)
        BY <2>2, <3>2, FirstBadExists
      <4>2. GoodFrames(frames) = SubSeq(frames, 1, k - 1)
        BY <2>2, <4>1, FirstBadIs
      <4>3. k \in 1..Len(frames) /\ ~(k \in 1..Len(kept))
        <5>1. k \in 1..Len(frames) /\ FrameVerdict(frames[k]) # "no"
          BY <2>2, <4>1 DEF IsFirstBad
        <5> QED BY <2>1, <2>3, <5>1 DEF Handled
      <4>4. k - 1 \in Len(kept)..Len(frames)
        BY <2>3, <4>3
      <4>5. Len(SubSeq(frames, 1, k - 1)) = k - 1
        BY <2>2, <4>3
      <4> QED BY <2>3, <2>4, <4>2, <4>4, <4>5
    <3> QED BY <3>1, <3>2
  <2> QED BY <1>1, <2>5 DEF FramesExact, FramesInv, frames
<1>2. CASE ended \notin {"no", "eof"}
  <2>1. kept = SubSeq(kept, 1, Len(kept)) /\ Len(kept) <= Len(kept)
    BY DEF FramesInv
  <2> QED BY <1>2, <2>1 DEF FramesExact, FramesInv, FramesDone
<1> QED BY <1>1, <1>2

(* A sequence taken apart and put together again.                          *)
LEMMA SplitAt ==
  ASSUME NEW S, NEW s \in Seq(S), NEW n \in 1..Len(s)
  PROVE  /\ SubSeq(s, 1, n) \in Seq(S) /\ SubSeq(s, n + 1, Len(s)) \in Seq(S)
         /\ s = SubSeq(s, 1, n) \o SubSeq(s, n + 1, Len(s))
         /\ Len(SubSeq(s, n + 1, Len(s))) = Len(s) - n
<1> DEFINE a == SubSeq(s, 1, n)
           b == SubSeq(s, n + 1, Len(s))
<1>1. n \in Nat /\ Len(s) \in Nat /\ 1 <= n /\ n <= Len(s)
  OBVIOUS
<1>2. a \in Seq(S) /\ Len(a) = n /\ \A k \in 1..n : a[k] = s[k]
  BY <1>1
<1>3. /\ b \in Seq(S) /\ Len(b) = Len(s) - n
      /\ \A k \in 1..(Len(s) - n) : b[k] = s[n + k]
  <2>1. \A k \in (n + 1)..Len(s) : s[k] \in S
    BY <1>1
  <2> QED BY <1>1, <2>1
<1> HIDE DEF a, b
<1>4. /\ a \o b \in Seq(S) /\ Len(a \o b) = Len(s)
      /\ \A k \in 1..n : (a \o b)[k] = a[k]
      /\ \A k \in 1..(Len(s) - n) : (a \o b)[n + k] = b[k]
  <2>1. /\ a \o b \in Seq(S) /\ Len(a \o b) = Len(a) + Len(b)
        /\ \A k \in 1..Len(a) : (a \o b)[k] = a[k]
        /\ \A k \in 1..Len(b) : (a \o b)[Len(a) + k] = b[k]
    <3>1. a \in Seq(S) /\ b \in Seq(S)
      BY <1>2, <1>3
    <3> QED BY ONLY <3>1, JoinMembers
  <2> QED BY <1>1, <1>2, <1>3, <2>1
<1>5. ASSUME NEW k \in 1..Len(s) PROVE (a \o b)[k] = s[k]
  <2>1. CASE k \in 1..n
    BY <1>2, <1>4, <2>1
  <2>2. CASE k \notin 1..n
    <3>1. k - n \in 1..(Len(s) - n) /\ n + (k - n) = k
      BY <1>1, <2>2
    <3> QED BY <1>3, <1>4, <3>1
  <2> QED BY <2>1, <2>2
<1>6. a \o b = s
  BY <1>4, <1>5, SameMembers
<1> QED BY <1>2, <1>3, <1>6 DEF a, b

(* Three sequences may be joined in either order.                          *)
LEMMA JoinTwice ==
  ASSUME NEW S, NEW a \in Seq(S), NEW b \in Seq(S), NEW c \in Seq(S)
  PROVE  (a \o b) \o c = a \o (b \o c)
<1> DEFINE p == (a \o b) \o c
           q == a \o (b \o c)
<1>1. p \in Seq(S) /\ q \in Seq(S) /\ Len(p) = Len(q)
  OBVIOUS
<1>2. \A k \in 1..Len(p) : p[k] = q[k]
  OBVIOUS
<1> HIDE DEF p, q
<1>3. p = q
  BY <1>1, <1>2, SameMembers
<1> QED BY <1>3 DEF p, q

(* The frame reader starts with nothing read.                              *)
LEMMA FramesStart == ReaderInit => FramesInv
<1> SUFFICES ASSUME ReaderInit PROVE FramesInv
  OBVIOUS
<1>1. input = <<>> /\ unread = <<>> /\ kept = <<>> /\ ended = "no"
  BY DEF ReaderInit
<1>2. <<>> \in Seq(Bytes) /\ <<>> \in Seq(Seq(Bytes)) /\ <<>> \o <<>> = <<>>
      /\ Len(<<>>) = 0 /\ DOMAIN <<>> = {}
  OBVIOUS
<1>3. TrimmedAll(<<>>) = <<>>
  BY DEF TrimmedAll
<1>4. Handled(<<>>)
  BY <1>1, <1>2, <1>3, NoLines DEF Handled
<1>5. Len(unread) <= MaxLine + 2
  BY <1>1, <1>2, LineAssumption
<1>6. \E read \in Seq(Bytes) : Handled(read)
  BY <1>2, <1>4
<1> QED BY <1>1, <1>2, <1>5, <1>6 DEF FramesInv

(* A frame is taken from the buffer: it follows those returned before, or  *)
(* is the first that is none.                                              *)
LEMMA FrameTaken ==
  ASSUME FramesInv, TakeFrame
  PROVE  FramesInv'
<1> DEFINE line == Complete(unread)[1]
           frame == Trimmed(line)
           n == Len(line) + 1
<1>1. /\ ended \in {"no", "eof"} /\ Complete(unread) # <<>>
      /\ input' = input
      /\ IF FrameVerdict(frame) = "no"
         THEN kept' = Append(kept, frame) /\ ended' = ended
         ELSE ended' = FrameVerdict(frame) /\ kept' = kept
      /\ unread' = IF ended' \in {"too large", "empty"} THEN unread
                   ELSE SubSeq(unread, Len(line) + 2, Len(unread))
  BY DEF TakeFrame
<1>2. /\ input \in Seq(Bytes) /\ unread \in Seq(Bytes) /\ kept \in Seq(Seq(Bytes))
      /\ Len(unread) <= MaxLine + 2 /\ MaxLine \in Nat
  BY LineAssumption DEF FramesInv
<1>3. PICK read \in Seq(Bytes) : Handled(read)
  BY <1>1 DEF FramesInv
<1>4. /\ line \in Seq(Bytes) /\ n \in 1..Len(unread)
      /\ Complete(SubSeq(unread, 1, n)) = <<line>>
      /\ Rest(SubSeq(unread, 1, n)) = <<>>
  BY <1>1, <1>2, FirstLine
<1>5. frame \in Seq(Bytes) /\ <<line>> \in Seq(Seq(Bytes))
  BY <1>4 DEF Trimmed
<1>6. PICK head \in Seq(Bytes), tail \in Seq(Bytes) :
        /\ unread = head \o tail
        /\ head = SubSeq(unread, 1, n) /\ tail = SubSeq(unread, n + 1, Len(unread))
        /\ Len(tail) = Len(unread) - n
  BY <1>2, <1>4, SplitAt
<1>7. Len(line) + 2 = n + 1 /\ n \in Nat /\ Len(unread) \in Nat
  BY <1>2, <1>4
<1> HIDE DEF line, frame, n
<1>8. /\ unread' \in Seq(Bytes) /\ Len(unread') <= MaxLine + 2
      /\ ended' \notin {"too large", "empty"} => unread' = tail
  <2>1. unread' = unread \/ unread' = tail
    BY <1>1, <1>6, <1>7
  <2>2. Len(tail) <= MaxLine + 2 /\ tail \in Seq(Bytes)
    <3>1. Len(tail) = Len(unread) - n /\ 1 <= n
      BY <1>4, <1>6, <1>7
    <3> QED BY <1>2, <1>7, <3>1
  <2>3. ended' \notin {"too large", "empty"} => unread' = tail
    BY <1>1, <1>6, <1>7
  <2> QED BY <1>2, <2>1, <2>2, <2>3
<1>9. CASE FrameVerdict(frame) = "no"
  <2>1. kept' = Append(kept, frame) /\ ended' = ended /\ unread' = tail
    BY <1>1, <1>8, <1>9
  <2>2. PICK more \in Seq(Bytes) : more = read \o head
    <3>1. read \o head \in Seq(Bytes)
      BY JoinMembers
    <3> QED BY <3>1
  <2>3. input' = more \o unread'
    <3>1. (read \o head) \o tail = read \o (head \o tail)
      BY JoinTwice
    <3> QED BY <1>1, <1>3, <1>6, <2>1, <2>2, <3>1 DEF Handled
  <2>4. Complete(more) = Complete(read) \o <<line>> /\ Rest(more) = <<>>
    <3>1. <<>> \o head = head /\ Rest(read) = <<>>
      BY <1>3 DEF Handled
    <3>2. /\ Complete(read \o head) = Complete(read) \o Complete(Rest(read) \o head)
          /\ Rest(read \o head) = Rest(Rest(read) \o head)
      BY LinesJoin
    <3> QED BY <1>4, <1>6, <2>2, <3>1, <3>2
  <2>5. TrimmedAll(Complete(more)) = kept'
    <3>1. TrimmedAll(Complete(read) \o <<line>>)
            = TrimmedAll(Complete(read)) \o TrimmedAll(<<line>>)
      BY <1>5, LinesType, TrimmedJoin
    <3>2. TrimmedAll(<<line>>) = <<frame>>
      BY <1>4, TrimmedOne DEF frame
    <3>3. kept \o <<frame>> = Append(kept, frame)
      <4> HIDE DEF frame
      <4> QED BY <1>2, <1>5
    <3> QED BY <1>3, <2>1, <2>4, <3>1, <3>2, <3>3 DEF Handled
  <2>6. kept' \in Seq(Seq(Bytes)) /\ \A k \in DOMAIN kept' : FrameVerdict(kept'[k]) = "no"
    <3> HIDE DEF frame
    <3>1. \A k \in 1..Len(kept) : FrameVerdict(kept[k]) = "no"
      BY <1>2, <1>3 DEF Handled
    <3>2. /\ Len(kept) \in Nat /\ Len(kept') = Len(kept) + 1
          /\ kept' \in Seq(Seq(Bytes))
          /\ \A k \in 1..Len(kept) : kept'[k] = kept[k]
          /\ kept'[Len(kept) + 1] = frame
      BY <1>2, <1>5, <2>1
    <3>3. \A k \in 1..(Len(kept) + 1) : FrameVerdict(kept'[k]) = "no"
      <4>1. FrameVerdict(kept'[Len(kept) + 1]) = "no"
        BY <1>9, <3>2
      <4>2. \A k \in 1..Len(kept) : FrameVerdict(kept'[k]) = "no"
        BY <3>1, <3>2
      <4>3. \A k \in 1..(Len(kept) + 1) : k \in 1..Len(kept) \/ k = Len(kept) + 1
        BY <3>2
      <4> QED BY ONLY <4>1, <4>2, <4>3
    <3>4. DOMAIN kept' = 1..(Len(kept) + 1)
      BY <3>2
    <3> QED BY <3>2, <3>3, <3>4
  <2>7. Handled(more)'
    BY <2>3, <2>4, <2>5, <2>6 DEF Handled
  <2> QED BY <1>1, <1>2, <1>8, <2>1, <2>6, <2>7 DEF FramesInv
<1>10. CASE FrameVerdict(frame) # "no"
  <2>1. kept' = kept /\ ended' = FrameVerdict(frame)
    BY <1>1, <1>10
  <2>2. ended' \notin {"no", "eof"}
    BY <1>10, <2>1 DEF FrameVerdict
  <2> DEFINE frames == Frames(input)
             b == TrimmedAll(Complete(unread))
             k == Len(kept) + 1
  <2>3. /\ frames = kept \o b /\ frames \in Seq(Seq(Bytes))
        /\ Complete(unread) \in Seq(Seq(Bytes))
    BY <1>3, FramesSplit
  <2>4. /\ b \in Seq(Seq(Bytes)) /\ Len(b) \in Nat \ {0} /\ b[1] = frame
    <3>1. Len(Complete(unread)) \in Nat \ {0} /\ 1 \in DOMAIN Complete(unread)
      <4> DEFINE c == Complete(unread)
      <4>1. c \in Seq(Seq(Bytes)) /\ c # <<>>
        BY <1>1, <2>3
      <4> HIDE DEF c
      <4>2. Len(c) \in Nat \ {0} /\ 1 \in DOMAIN c
        BY <4>1
      <4> QED BY <4>2 DEF c
    <3>2. /\ b \in Seq(Seq(Bytes)) /\ Len(b) = Len(Complete(unread))
          /\ \A j \in DOMAIN Complete(unread) : b[j] = Trimmed(Complete(unread)[j])
      BY <2>3, TrimmedType
    <3> QED BY <3>1, <3>2 DEF frame, line
  <2> HIDE DEF frames, b, frame
  <2>5. /\ Len(kept) \in Nat /\ k \in 1..Len(frames) /\ frames[k] = frame
        /\ \A j \in 1..Len(kept) : frames[j] = kept[j]
        /\ DOMAIN kept = 1..Len(kept) /\ DOMAIN frames = 1..Len(frames)
    <3>1. /\ Len(frames) = Len(kept) + Len(b) /\ Len(kept) \in Nat
          /\ \A j \in 1..Len(kept) : frames[j] = kept[j]
          /\ \A j \in 1..Len(b) : frames[Len(kept) + j] = b[j]
      BY <1>2, <2>3, <2>4, JoinMembers
    <3>2. 1 \in 1..Len(b) /\ k \in 1..Len(frames)
      BY <2>4, <3>1
    <3>3. frames[k] = frame
      BY <2>4, <3>1, <3>2
    <3> QED BY <1>2, <2>3, <3>1, <3>2, <3>3
  <2>6. IsFirstBad(frames, k)
    <3>1. \A j \in 1..(k - 1) : FrameVerdict(frames[j]) = "no"
      BY <1>3, <2>5 DEF Handled
    <3> QED BY <1>10, <2>5, <3>1 DEF IsFirstBad
  <2>7. /\ FirstBad(frames) = k /\ ~AllGood(frames)
        /\ GoodFrames(frames) = SubSeq(frames, 1, Len(kept))
    <3>1. FirstBad(frames) = k /\ ~AllGood(frames)
          /\ GoodFrames(frames) = SubSeq(frames, 1, k - 1)
      <4> HIDE DEF k
      <4> QED BY <2>3, <2>6, FirstBadIs
    <3> QED BY <2>5, <3>1
  <2>8. SubSeq(frames, 1, Len(kept)) = kept
    <3> DEFINE p == SubSeq(frames, 1, Len(kept))
    <3>1. /\ p \in Seq(Seq(Bytes)) /\ Len(p) = Len(kept)
          /\ \A j \in 1..Len(kept) : p[j] = frames[j]
      BY <2>3, <2>5
    <3> HIDE DEF p
    <3>2. \A j \in 1..Len(p) : p[j] = kept[j]
      BY <2>5, <3>1
    <3>3. p = kept
      BY <1>2, <3>1, <3>2, SameMembers
    <3> QED BY <3>3 DEF p
  <2>9. HowItEnds(frames, Rest(input)) = FrameVerdict(frame)
    BY <2>5, <2>7 DEF HowItEnds
  <2>10. FramesDone'
    <3>1. kept = GoodFrames(Frames(input))
          /\ FrameVerdict(frame) = HowItEnds(Frames(input), Rest(input))
      BY <2>7, <2>8, <2>9 DEF frames
    <3> QED BY <1>1, <2>1, <3>1 DEF FramesDone
  <2> QED BY <1>1, <1>2, <1>8, <2>1, <2>2, <2>10 DEF FramesInv
<1> QED BY <1>9, <1>10

(* No line is complete: all that were are frames that were returned, and   *)
(* what is left is what reading ends with.                                 *)
LEMMA FramesEnd ==
  ASSUME FramesInv, NoFrame
  PROVE  FramesInv'
<1>1. /\ ended \in {"no", "eof"} /\ Complete(unread) = <<>>
      /\ ended' = IF TooLong THEN "too large" ELSE IF unread = <<>> THEN "done"
                  ELSE "cut off"
      /\ input' = input /\ unread' = unread /\ kept' = kept
  BY DEF NoFrame
<1>2. /\ input \in Seq(Bytes) /\ unread \in Seq(Bytes) /\ kept \in Seq(Seq(Bytes))
      /\ Len(unread) <= MaxLine + 2 /\ MaxLine \in Nat
  BY LineAssumption DEF FramesInv
<1>3. PICK read \in Seq(Bytes) : Handled(read)
  BY <1>1 DEF FramesInv
<1>4. Frames(input) = kept /\ Rest(input) = unread
  <2>1. Frames(input) = kept \o TrimmedAll(Complete(unread))
        /\ Rest(input) = Rest(unread)
    BY <1>3, FramesSplit
  <2>2. TrimmedAll(<<>>) = <<>> /\ kept \o <<>> = kept
    BY <1>2 DEF TrimmedAll
  <2>3. Rest(unread) = unread
    BY <1>1, <1>2, RestIsPlain
  <2> QED BY <1>1, <2>1, <2>2, <2>3
<1>5. AllGood(kept)
  BY <1>3 DEF AllGood, Handled
<1>6. kept = GoodFrames(Frames(input)) /\ ended' = HowItEnds(Frames(input), Rest(input))
  BY <1>1, <1>4, <1>5 DEF GoodFrames, HowItEnds, TooLong
<1>7. FramesDone'
  BY <1>1, <1>6 DEF FramesDone
<1>8. ended' \notin {"no", "eof"}
  BY <1>1
<1> QED BY <1>1, <1>2, <1>7, <1>8 DEF FramesInv

(* A read adds to the buffer what it adds to the input.                    *)
LEMMA FramesRead ==
  ASSUME FramesInv, NEW chunk \in Seq(Bytes), ReadFrames(chunk)
  PROVE  FramesInv'
<1>1. /\ ended = "no" /\ Len(chunk) <= MaxLine + 2 - Len(unread)
      /\ input' = input \o chunk /\ unread' = unread \o chunk
      /\ ended' \in {"no", "eof"} /\ kept' = kept
  BY DEF ReadFrames, Room
<1>2. /\ input \in Seq(Bytes) /\ unread \in Seq(Bytes) /\ kept \in Seq(Seq(Bytes))
      /\ MaxLine \in Nat
  BY LineAssumption DEF FramesInv
<1>3. PICK read \in Seq(Bytes) : Handled(read)
  BY <1>1 DEF FramesInv
<1>4. input' \in Seq(Bytes) /\ unread' \in Seq(Bytes) /\ Len(unread') <= MaxLine + 2
  BY <1>1, <1>2
<1>5. input' = read \o unread'
  <2>1. (read \o unread) \o chunk = read \o (unread \o chunk)
    BY <1>2, JoinTwice
  <2> QED BY <1>1, <1>3, <2>1 DEF Handled
<1>6. Handled(read)'
  BY <1>1, <1>3, <1>5 DEF Handled
<1> QED BY <1>1, <1>2, <1>4, <1>6 DEF FramesInv

(* Sums is what it says, step by step.                                     *)
LEMMA SumsAre ==
  ASSUME NEW added \in Seq(Int), NEW first \in Int
  PROVE  /\ Sums(first, added)[0] = first
         /\ \A k \in 1..Len(added) :
              Sums(first, added)[k] = Sums(first, added)[k - 1] + added[k]
         /\ \A k \in 0..Len(added) : Sums(first, added)[k] \in Int
<1> DEFINE n == Len(added)
           step == [p \in (1..n) \X Int |-> p[2] + added[p[1]]]
<1>1. n \in Nat /\ \A m \in 1..n : added[m] \in Int
  OBVIOUS
<1>2. step \in [(1..n) \X Int -> Int]
  BY <1>1
<1> HIDE DEF n
<1>3. PICK f \in [0..n -> Int] : Iterates(first, step, n, f)
  <2> HIDE DEF step
  <2> QED BY <1>1, <1>2, IteratesExist
<1>4. \A m \in 1..n : f[m] = f[m - 1] + added[m]
  <2> SUFFICES ASSUME NEW m \in 1..n PROVE f[m] = f[m - 1] + added[m]
    OBVIOUS
  <2>1. m \in 0..n /\ m # 0 /\ f[m - 1] \in Int
    BY <1>1
  <2>2. f[m] = step[<<m, f[m - 1]>>]
    <3> HIDE DEF step
    <3> QED BY <1>3, <2>1 DEF Iterates
  <2> QED BY <2>1, <2>2
<1>5. f[0] = first
  <2> HIDE DEF step
  <2> QED BY <1>1, <1>3 DEF Iterates
<1> HIDE DEF step
<1> DEFINE Is(g) ==
      g = [m \in 0..n |-> IF m = 0 THEN first ELSE g[m - 1] + added[m]]
<1>6. Is(f)
  <2>1. \A m \in 0..n : f[m] = IF m = 0 THEN first ELSE f[m - 1] + added[m]
    BY <1>1, <1>4, <1>5
  <2> QED BY <2>1
<1> DEFINE c == CHOOSE g : Is(g)
<1>7. Sums(first, added) = c
  BY DEF Sums, n
<1>8. Is(c)
  <2> HIDE DEF Is
  <2> QED BY <1>6
<1> HIDE DEF c
<1>9. DOMAIN c = 0..n /\ \A m \in 0..n :
        c[m] = IF m = 0 THEN first ELSE c[m - 1] + added[m]
  BY <1>8
<1> HIDE DEF Is
<1>10. /\ c[0] = first
       /\ \A m \in 1..n : c[m] = c[m - 1] + added[m]
  BY <1>1, <1>9
<1>11. \A m \in 0..n : c[m] \in Int
  <2> DEFINE N == {m \in Nat : m <= n => c[m] \in Int}
  <2>1. 0 \in N
    BY <1>10
  <2>2. ASSUME NEW m \in Nat, m \in N PROVE m + 1 \in N
    <3> SUFFICES ASSUME m + 1 <= n PROVE c[m + 1] \in Int
      OBVIOUS
    <3>1. m + 1 \in 1..n /\ (m + 1) - 1 = m /\ c[m] \in Int
      BY <1>1, <2>2
    <3>2. c[m + 1] = c[m] + added[m + 1] /\ added[m + 1] \in Int
      BY <1>1, <1>10, <3>1
    <3> QED BY <3>1, <3>2
  <2>3. Nat \subseteq N
    <3> HIDE DEF N
    <3> QED BY <2>1, <2>2, NumbersInduct
  <2> QED BY <1>1, <2>3
<1> QED BY <1>7, <1>10, <1>11 DEF n

(* The length of joined lines, line by line, and what pop_front leaves.    *)
Joins(ls, f) ==
  /\ f[0] = 0 /\ \A k \in 0..Len(ls) : f[k] \in Int
  /\ \A k \in 1..Len(ls) : f[k] = f[k - 1] + ls[k] + IF k > 1 THEN 1 ELSE 0
  /\ Joined(ls) = f[Len(ls)]
Leaves(ls, n, g) ==
  /\ g[0] = n /\ \A k \in 0..Len(ls) : g[k] \in Int
  /\ \A k \in 1..Len(ls) : g[k] = g[k - 1] - ls[k] - IF k < Len(ls) THEN 1 ELSE 0

(* Both sums exist, whatever the lines.                                    *)
LEMMA JoinedIs ==
  ASSUME NEW ls \in Seq(Nat)
  PROVE  \E f : Joins(ls, f)
<1> DEFINE n == Len(ls)
           added == [k \in 1..n |-> ls[k] + IF k > 1 THEN 1 ELSE 0]
           f == Sums(0, added)
<1>1. n \in Nat /\ \A k \in 1..n : ls[k] \in Nat
  OBVIOUS
<1>2. added \in Seq(Int) /\ Len(added) = n
  BY <1>1
<1>3. Joined(ls) = f[n]
  BY DEF Joined
<1>4. \A k \in 1..n : added[k] = ls[k] + IF k > 1 THEN 1 ELSE 0
  OBVIOUS
<1> HIDE DEF n, added
<1>5. /\ f[0] = 0 /\ \A k \in 1..n : f[k] = f[k - 1] + added[k]
      /\ \A k \in 0..n : f[k] \in Int
  <2>1. 0 \in Int /\ added \in Seq(Int)
    BY <1>2
  <2>2. /\ f[0] = 0 /\ \A k \in 1..Len(added) : f[k] = f[k - 1] + added[k]
        /\ \A k \in 0..Len(added) : f[k] \in Int
    BY ONLY <2>1, SumsAre
  <2> QED BY ONLY <1>2, <2>2
<1> HIDE DEF f
<1>6. \A k \in 1..n : f[k] = f[k - 1] + ls[k] + IF k > 1 THEN 1 ELSE 0
  <2> SUFFICES ASSUME NEW k \in 1..n
               PROVE  f[k] = f[k - 1] + ls[k] + IF k > 1 THEN 1 ELSE 0
    OBVIOUS
  <2>1. f[k - 1] \in Int /\ ls[k] \in Nat
    BY <1>1, <1>5
  <2> QED BY <1>4, <1>5, <2>1
<1>7. Joins(ls, f)
  BY <1>3, <1>5, <1>6 DEF Joins, n
<1> QED BY <1>7

(* The same of what pop_front leaves.                                      *)
LEMMA LeftIs ==
  ASSUME NEW ls \in Seq(Nat), NEW n \in Int
  PROVE  Leaves(ls, n, Left(ls, n))
<1> DEFINE m == Len(ls)
           added == [k \in 1..m |-> -(ls[k] + IF k < m THEN 1 ELSE 0)]
           g == Sums(n, added)
<1>1. m \in Nat /\ \A k \in 1..m : ls[k] \in Nat
  OBVIOUS
<1>2. added \in Seq(Int) /\ Len(added) = m
  BY <1>1
<1>3. Left(ls, n) = g
  BY DEF Left
<1>4. \A k \in 1..m : added[k] = -(ls[k] + IF k < m THEN 1 ELSE 0)
  OBVIOUS
<1> HIDE DEF m, added
<1>5. /\ g[0] = n /\ \A k \in 1..m : g[k] = g[k - 1] + added[k]
      /\ \A k \in 0..m : g[k] \in Int
  BY <1>2, SumsAre
<1> HIDE DEF g
<1>6. \A k \in 1..m : g[k] = g[k - 1] - ls[k] - IF k < m THEN 1 ELSE 0
  <2> SUFFICES ASSUME NEW k \in 1..m
               PROVE  g[k] = g[k - 1] - ls[k] - IF k < m THEN 1 ELSE 0
    OBVIOUS
  <2>1. g[k - 1] \in Int /\ ls[k] \in Nat
    BY <1>1, <1>5
  <2> QED BY <1>4, <1>5, <2>1
<1> QED BY <1>3, <1>5, <1>6 DEF Leaves, m

(* What pop_front leaves of joined lines is what the lines left join to.   *)
LEMMA LeftIsTheRest ==
  ASSUME NEW ls \in Seq(Nat), NEW f, NEW g, Joins(ls, f), Leaves(ls, Joined(ls), g)
  PROVE  /\ g[Len(ls)] = 0
         /\ \A k \in 0..(Len(ls) - 1) :
              g[k] = f[Len(ls)] - f[k] - IF k > 0 THEN 1 ELSE 0
<1> DEFINE n == Len(ls)
           Rem(k) == f[n] - f[k] - IF k > 0 THEN 1 ELSE 0
           N == {k \in Nat : k <= n => IF k = n THEN g[k] = 0 ELSE g[k] = Rem(k)}
<1>1. n \in Nat /\ \A k \in 1..n : ls[k] \in Nat
  OBVIOUS
<1>2. f[0] = 0 /\ g[0] = f[n] /\ \A k \in 0..n : f[k] \in Int /\ g[k] \in Int
  BY DEF Joins, Leaves
<1>3. 0 \in N
  BY <1>1, <1>2
<1>4. ASSUME NEW k \in Nat, k \in N PROVE k + 1 \in N
  <2> SUFFICES ASSUME k + 1 <= n
               PROVE  IF k + 1 = n THEN g[k + 1] = 0 ELSE g[k + 1] = Rem(k + 1)
    OBVIOUS
  <2>1. /\ k + 1 \in 1..n /\ k \in 0..n /\ (k + 1) - 1 = k /\ k # n
        /\ g[k] = Rem(k) /\ f[n] \in Int
    BY <1>1, <1>2, <1>4
  <2>2. /\ f[k + 1] = f[k] + ls[k + 1] + IF k + 1 > 1 THEN 1 ELSE 0
        /\ g[k + 1] = g[k] - ls[k + 1] - IF k + 1 < n THEN 1 ELSE 0
    BY <2>1 DEF Joins, Leaves
  <2>3. f[k] \in Int /\ g[k] \in Int /\ ls[k + 1] \in Nat /\ f[k + 1] \in Int
    BY <1>1, <1>2, <2>1
  <2>4. f[k + 1] = f[k] + ls[k + 1] + IF k > 0 THEN 1 ELSE 0
    <3>1. (k + 1 > 1) <=> (k > 0)
      OBVIOUS
    <3> QED BY <2>2, <3>1
  <2>5. g[k] - ls[k + 1] = f[n] - f[k + 1]
    <3>1. PICK d \in Int : d = IF k > 0 THEN 1 ELSE 0
      OBVIOUS
    <3>2. g[k] = f[n] - f[k] - d /\ f[k + 1] = f[k] + ls[k + 1] + d
      BY <2>1, <2>4, <3>1
    <3>3. f[n] \in Int
      BY <2>1
    <3> QED BY ONLY <2>3, <3>2, <3>3, SMTT(20)
  <2>6. CASE k + 1 = n
    <3>1. g[k + 1] = g[k] - ls[k + 1]
      BY <2>2, <2>3, <2>6
    <3>2. f[n] - f[k + 1] = 0
      BY <2>1, <2>6
    <3> QED BY <2>5, <2>6, <3>1, <3>2
  <2>7. CASE k + 1 # n
    <3>1. g[k + 1] = g[k] - ls[k + 1] - 1 /\ k + 1 > 0
      BY <1>1, <2>1, <2>2, <2>3, <2>7
    <3> QED BY <2>5, <2>7, <3>1
  <2> QED BY <2>6, <2>7
<1>5. Nat \subseteq N
  <2> HIDE DEF N
  <2> QED BY <1>3, <1>4, NumbersInduct
<1>6. n \in N /\ \A k \in 0..(n - 1) : k \in N
  <2> HIDE DEF N
  <2> QED BY <1>1, <1>5
<1>7. g[n] = 0
  BY <1>1, <1>6
<1>8. \A k \in 0..(n - 1) : k <= n /\ k # n
  BY <1>1
<1> QED BY <1>6, <1>7, <1>8

(* The ring without its first lines and with one more.                     *)
LEMMA RingJoins ==
  ASSUME NEW ls \in Seq(Nat), NEW k \in 0..Len(ls), NEW size \in Nat
  PROVE  LET more == Append(SubSeq(ls, k + 1, Len(ls)), size) IN
         /\ more \in Seq(Nat)
         /\ Joined(more) = Left(ls, Joined(ls))[k] + size
                             + IF k = Len(ls) THEN 0 ELSE 1
         /\ Left(ls, Joined(ls))[Len(ls)] = 0
         /\ Left(ls, Joined(ls))[k] \in Int
<1> DEFINE n == Len(ls)
           kept2 == SubSeq(ls, k + 1, n)
           more == Append(kept2, size)
<1>1. n \in Nat /\ k \in 0..n /\ \A j \in 1..n : ls[j] \in Nat
  OBVIOUS
<1>2. /\ kept2 \in Seq(Nat) /\ Len(kept2) = n - k
      /\ \A j \in 1..(n - k) : kept2[j] = ls[k + j]
  <2>1. k \in Nat /\ k + 1 <= n + 1 /\ \A j \in (k + 1)..n : ls[j] \in Nat
    BY <1>1
  <2> QED BY <1>1, <2>1
<1> HIDE DEF n, kept2
<1>3. /\ more \in Seq(Nat) /\ Len(more) = n - k + 1
      /\ \A j \in 1..(n - k) : more[j] = ls[k + j]
      /\ more[n - k + 1] = size
  <2>1. /\ more \in Seq(Nat) /\ Len(more) = Len(kept2) + 1
        /\ \A j \in 1..Len(kept2) : more[j] = kept2[j]
        /\ more[Len(kept2) + 1] = size
    BY <1>2
  <2> QED BY <1>2, <2>1
<1> HIDE DEF more
<1>4. PICK f : Joins(ls, f)
  BY JoinedIs
<1>5. PICK h : Joins(more, h)
  BY <1>3, JoinedIs
<1>6. Joined(ls) = f[n] /\ f[n] \in Int /\ f[0] = 0 /\ \A j \in 0..n : f[j] \in Int
  BY <1>1, <1>4 DEF Joins, n
<1>7. PICK g : g = Left(ls, Joined(ls))
  OBVIOUS
<1>8. Leaves(ls, Joined(ls), g)
  BY <1>6, <1>7, LeftIs
<1>9. /\ g[n] = 0 /\ \A j \in 0..n : g[j] \in Int
      /\ \A j \in 0..(n - 1) : g[j] = f[n] - f[j] - IF j > 0 THEN 1 ELSE 0
  <2>1. \A j \in 0..n : g[j] \in Int
    BY <1>8 DEF Leaves, n
  <2> QED BY <1>4, <1>8, <2>1, LeftIsTheRest DEF n
<1>10. /\ h[0] = 0 /\ \A j \in 0..(n - k + 1) : h[j] \in Int
       /\ \A j \in 1..(n - k + 1) :
            h[j] = h[j - 1] + more[j] + IF j > 1 THEN 1 ELSE 0
       /\ Joined(more) = h[n - k + 1]
  BY <1>3, <1>5 DEF Joins
<1> DEFINE N == {j \in Nat : j + 1 <= n - k =>
                   h[j + 1] = f[k + (j + 1)] - f[k] - IF k > 0 THEN 1 ELSE 0}
<1>11. ASSUME NEW j \in 1..n
       PROVE  f[j] = f[j - 1] + ls[j] + IF j > 1 THEN 1 ELSE 0
  BY <1>4 DEF Joins, n
<1>12. 0 \in N
  <2> SUFFICES ASSUME 1 <= n - k
               PROVE  h[1] = f[k + 1] - f[k] - IF k > 0 THEN 1 ELSE 0
    OBVIOUS
  <2>1. k + 1 \in 1..n /\ k \in 0..n /\ (k + 1) - 1 = k /\ 1 \in 1..(n - k)
    BY <1>1
  <2>2. f[k + 1] = f[k] + ls[k + 1] + IF k + 1 > 1 THEN 1 ELSE 0
    BY <1>11, <2>1
  <2>3. h[1] = h[0] + ls[k + 1]
    <3>1. 1 \in 1..(n - k + 1) /\ more[1] = ls[k + 1] /\ ls[k + 1] \in Nat
      BY <1>1, <1>3, <2>1
    <3> QED BY <1>10, <3>1
  <2>4. f[k] \in Int /\ ls[k + 1] \in Nat
    BY <1>1, <1>6, <2>1
  <2> QED BY <1>1, <1>10, <2>2, <2>3, <2>4
<1>13. ASSUME NEW j \in Nat, j \in N PROVE j + 1 \in N
  <2> SUFFICES ASSUME (j + 1) + 1 <= n - k
               PROVE  h[(j + 1) + 1] = f[k + ((j + 1) + 1)] - f[k]
                                         - IF k > 0 THEN 1 ELSE 0
    OBVIOUS
  <2> DEFINE i == j + 1
  <2>1. /\ i \in Nat /\ i >= 1 /\ i + 1 \in 1..(n - k) /\ i + 1 \in 1..(n - k + 1)
        /\ k + (i + 1) \in 1..n /\ k + i \in 0..n /\ i \in 0..(n - k + 1)
        /\ (i + 1) - 1 = i /\ (k + (i + 1)) - 1 = k + i /\ k \in 0..n
    BY <1>1
  <2>2. h[i] = f[k + i] - f[k] - IF k > 0 THEN 1 ELSE 0
    BY <1>1, <1>13
  <2> HIDE DEF i
  <2>3. f[k + (i + 1)] = f[k + i] + ls[k + (i + 1)] + 1
    <3>1. k + (i + 1) > 1
      BY <1>1, <2>1
    <3> QED BY <1>11, <2>1, <3>1
  <2>4. h[i + 1] = h[i] + ls[k + (i + 1)] + 1
    <3>1. i + 1 > 1 /\ more[i + 1] = ls[k + (i + 1)]
      BY <1>3, <2>1
    <3> QED BY <1>10, <2>1, <3>1
  <2>5. /\ f[k + i] \in Int /\ f[k] \in Int /\ h[i] \in Int
        /\ ls[k + (i + 1)] \in Nat
    BY <1>1, <1>6, <1>10, <2>1
  <2>6. h[i + 1] = f[k + (i + 1)] - f[k] - IF k > 0 THEN 1 ELSE 0
    <3>1. PICK d \in Int : d = IF k > 0 THEN 1 ELSE 0
      OBVIOUS
    <3>2. h[i] = f[k + i] - f[k] - d
      BY <2>2, <3>1
    <3>3. h[i + 1] = f[k + (i + 1)] - f[k] - d
      BY ONLY <2>3, <2>4, <2>5, <3>2, d \in Int, SMTT(20)
    <3> QED BY <3>1, <3>3
  <2> QED BY <2>6 DEF i
<1>14. Nat \subseteq N
  <2> HIDE DEF N
  <2> QED BY <1>12, <1>13, NumbersInduct
<1>15. Joined(more) = g[k] + size + IF k = n THEN 0 ELSE 1
  <2>1. CASE k = n
    <3>1. 1 \in 1..(n - k + 1) /\ n - k + 1 = 1 /\ more[1] = size
      BY <1>1, <1>3, <2>1
    <3>2. h[1] = h[0] + size + 0
      BY <1>10, <3>1
    <3> QED BY <1>9, <1>10, <2>1, <3>1, <3>2
  <2>2. CASE k # n
    <3> DEFINE i == n - k
    <3>1. /\ i \in Nat /\ i >= 1 /\ i + 1 \in 1..(n - k + 1) /\ (i + 1) - 1 = i
          /\ k + ((i - 1) + 1) = n /\ (i - 1) + 1 = i /\ i - 1 \in Nat
          /\ k \in 0..(n - 1) /\ i \in 0..(n - k + 1)
      BY <1>1, <2>2
    <3>2. i - 1 \in N
      <4> HIDE DEF N
      <4> QED BY <1>14, <3>1
    <3>3. h[i] = f[n] - f[k] - IF k > 0 THEN 1 ELSE 0
      BY <3>1, <3>2
    <3>4. g[k] = h[i]
      BY <1>9, <3>1, <3>3
    <3>5. h[i + 1] = h[i] + size + 1
      <4>1. more[i + 1] = size /\ i + 1 > 1
        BY <1>3, <3>1
      <4>2. h[i + 1] = h[(i + 1) - 1] + more[i + 1] + IF i + 1 > 1 THEN 1 ELSE 0
        BY <1>10, <3>1
      <4> QED BY <3>1, <4>1, <4>2
    <3> QED BY <1>10, <2>2, <3>4, <3>5
  <2> QED BY <2>1, <2>2
<1> QED BY <1>1, <1>3, <1>7, <1>9, <1>15 DEF n, kept2, more

-----------------------------------------------------------------------------
RingInv == lengths \in Seq(Nat) /\ RingExact

(* An empty ring holds no byte.                                            *)
LEMMA RingStart == ReaderInit => RingInv
<1> SUFFICES ASSUME ReaderInit PROVE RingInv
  OBVIOUS
<1>1. lengths = <<>> /\ bytes = 0 /\ <<>> \in Seq(Nat) /\ Len(<<>>) = 0
  BY DEF ReaderInit
<1>2. PICK f : Joins(<<>>, f)
  BY <1>1, JoinedIs
<1>3. Joined(<<>>) = 0
  BY <1>1, <1>2 DEF Joins
<1> QED BY <1>1, <1>3, LineAssumption DEF RingInv, RingExact

(* The while loop of push ends, at the first moment when the line fits.    *)
LEMMA PopsEnd ==
  ASSUME NEW ls \in Seq(Nat), NEW n \in Int, NEW cost \in Int
  PROVE  /\ Pops(ls, n, cost) \in 0..Len(ls)
         /\ \/ Left(ls, n)[Pops(ls, n, cost)] + cost <= MaxLine
            \/ Pops(ls, n, cost) = Len(ls)
<1> DEFINE m == Len(ls)
           Fits(k) == Left(ls, n)[k] + cost <= MaxLine
           Ends(k) == Fits(k) \/ k = m
           First(k) == Ends(k) /\ \A j \in 0..(k - 1) : ~Fits(j)
<1>1. m \in Nat /\ MaxLine \in Nat /\ \A k \in 0..m : Left(ls, n)[k] \in Int
  BY LineAssumption, LeftIs DEF Leaves
<1>2. \E k \in 0..m : First(k)
  <2> SUFFICES ASSUME \A k \in 0..m : ~First(k) PROVE FALSE
    OBVIOUS
  <2> DEFINE N == {k \in Nat : \A j \in 0..k : j <= m => ~Fits(j) /\ j # m}
  <2> HIDE DEF Fits
  <2>1. 0 \in N
    <3>1. ~First(0) /\ \A j \in 0..(0 - 1) : FALSE
      BY <1>1
    <3>2. ~Ends(0)
      BY <3>1
    <3> QED BY <3>2
  <2>2. ASSUME NEW k \in Nat, k \in N PROVE k + 1 \in N
    <3> SUFFICES ASSUME NEW j \in 0..(k + 1), j <= m PROVE ~Fits(j) /\ j # m
      OBVIOUS
    <3>1. CASE j \in 0..k
      BY <2>2, <3>1
    <3>2. CASE j = k + 1
      <4>1. j \in 0..m /\ \A i \in 0..(j - 1) : i \in 0..k /\ i <= m
        BY <1>1, <3>2
      <4>2. \A i \in 0..(j - 1) : ~Fits(i)
        BY <2>2, <4>1
      <4>3. ~Ends(j)
        BY <4>1, <4>2
      <4> QED BY <4>3
    <3> QED BY <3>1, <3>2
  <2>3. Nat \subseteq N
    <3> HIDE DEF N
    <3> QED BY <2>1, <2>2, NumbersInduct
  <2>4. m \in N
    <3> HIDE DEF N
    <3> QED BY <1>1, <2>3
  <2> QED BY <1>1, <2>4
<1> DEFINE p == CHOOSE k \in 0..m : First(k)
<1>3. Pops(ls, n, cost) = p
  BY DEF Pops
<1>4. p \in 0..m /\ First(p)
  <2> HIDE DEF First
  <2> QED BY <1>2
<1> HIDE DEF p
<1> QED BY <1>3, <1>4

(* push keeps the count of the bytes right, and within the capacity.       *)
LEMMA RingStep ==
  ASSUME RingInv, NEW length \in Nat, PushLine(length)
  PROVE  RingInv'
<1> DEFINE size == IF length > MaxLine THEN MaxLine ELSE length
           cost == size + IF lengths = <<>> THEN 0 ELSE 1
           pops == Pops(lengths, bytes, cost)
<1>1. /\ lengths' = Append(SubSeq(lengths, pops + 1, Len(lengths)), size)
      /\ bytes' = Left(lengths, bytes)[pops] + size + IF pops = Len(lengths) THEN 0 ELSE 1
  BY DEF PushLine
<1>2. /\ lengths \in Seq(Nat) /\ bytes = Joined(lengths) /\ bytes <= MaxLine
      /\ MaxLine \in Nat /\ size \in Nat /\ size <= MaxLine
  BY LineAssumption DEF RingInv, RingExact
<1>3. bytes \in Int
  <2>1. PICK f : Joins(lengths, f)
    BY <1>2, JoinedIs
  <2>2. Len(lengths) \in 0..Len(lengths)
    BY <1>2
  <2> QED BY <1>2, <2>1, <2>2 DEF Joins
<1> HIDE DEF size
<1>4. cost \in Int
  BY <1>2
<1>5. /\ pops \in 0..Len(lengths)
      /\ Left(lengths, bytes)[pops] + cost <= MaxLine \/ pops = Len(lengths)
  <2> HIDE DEF cost
  <2> QED BY <1>2, <1>3, <1>4, PopsEnd
<1> HIDE DEF pops
<1>6. /\ lengths' \in Seq(Nat) /\ Joined(lengths') = bytes'
      /\ Left(lengths, bytes)[Len(lengths)] = 0
      /\ Left(lengths, bytes)[pops] \in Int
  <2> HIDE DEF cost
  <2> QED BY <1>1, <1>2, <1>5, RingJoins
<1>7. bytes' <= MaxLine
  <2>1. CASE pops = Len(lengths)
    BY <1>1, <1>2, <1>6, <2>1
  <2>2. CASE pops # Len(lengths)
    <3>1. lengths # <<>>
      BY <1>2, <1>5, <2>2
    <3> QED BY <1>1, <1>2, <1>5, <1>6, <2>2, <3>1
  <2> QED BY <2>1, <2>2
<1> QED BY <1>6, <1>7, LineAssumption DEF RingInv, RingExact

(* What is kept of some lines of stderr.                                   *)
LineKinds == Seq(Bytes) \cup {Oversized}
Capture == [line \in Seq(Bytes) |-> Captured(line)]

(* Captured is such a function, on lines.                                  *)
LEMMA CapturedEach ==
  /\ Maps(Capture, Seq(Bytes), LineKinds)
  /\ \A lines \in Seq(Seq(Bytes)) : CapturedAll(lines) = Each(Capture, lines)
<1>1. \A line \in Seq(Bytes) : Captured(line) \in LineKinds
  <2>1. \A line \in Seq(Bytes) : Trimmed(line) \in Seq(Bytes)
    BY DEF Trimmed
  <2> QED BY <2>1 DEF Captured, LineKinds
<1>2. ASSUME NEW lines \in Seq(Seq(Bytes))
      PROVE  \A k \in DOMAIN lines : Capture[lines[k]] = Captured(lines[k])
  BY DEF Capture
<1> QED BY <1>1, <1>2 DEF Capture, CapturedAll, Each, Maps

(* What is kept of more lines follows.                                     *)
LEMMA CapturedJoin ==
  ASSUME NEW a \in Seq(Seq(Bytes)), NEW b \in Seq(Seq(Bytes))
  PROVE  /\ CapturedAll(a) \in Seq(LineKinds)
         /\ CapturedAll(a \o b) = CapturedAll(a) \o CapturedAll(b)
<1>1. a \o b \in Seq(Seq(Bytes))
  BY JoinMembers
<1>2. /\ Each(Capture, a \o b) = Each(Capture, a) \o Each(Capture, b)
      /\ Each(Capture, a) \in Seq(LineKinds)
  <2>1. /\ Maps(Capture, Seq(Bytes), LineKinds)
        /\ a \in Seq(Seq(Bytes)) /\ b \in Seq(Seq(Bytes))
    BY CapturedEach
  <2>2. Each(Capture, a \o b) = Each(Capture, a) \o Each(Capture, b)
    BY ONLY <2>1, EachJoin
  <2>3. Each(Capture, a) \in Seq(LineKinds)
    BY ONLY <2>1, EachType
  <2> QED BY <2>2, <2>3
<1> QED BY <1>1, <1>2, CapturedEach

(* What is kept of one line.                                               *)
LEMMA CapturedOne ==
  ASSUME NEW line \in Seq(Bytes)
  PROVE  CapturedAll(<<line>>) = <<Captured(line)>>
BY DEF CapturedAll

(* capture_stderr: while it reads, it discards a line exactly as long as   *)
(* what follows the last line feed is too long, and holds it otherwise.    *)
StderrHeld ==
  LET long == Len(Rest(input)) > MaxLine IN
  discarding = long /\ unread = IF long THEN <<>> ELSE Rest(input)
StderrInv ==
  /\ input \in Seq(Bytes) /\ ended \in {"no", "done"}
  /\ StderrExact
  /\ ended = "no" => StderrHeld

(* Nothing is captured before the first read.                              *)
LEMMA StderrStart == ReaderInit => StderrInv
<1> SUFFICES ASSUME ReaderInit PROVE StderrInv
  OBVIOUS
<1>1. /\ input = <<>> /\ unread = <<>> /\ kept = <<>> /\ ended = "no"
      /\ discarding = FALSE /\ <<>> \in Seq(Bytes)
  BY DEF ReaderInit
<1>2. Complete(<<>>) = <<>> /\ Rest(<<>>) = <<>> /\ ~(Len(<<>>) > MaxLine)
  BY NoLines, LineAssumption
<1>3. CapturedAll(<<>>) = <<>> /\ <<>> \o <<>> = <<>>
  BY DEF CapturedAll
<1>4. StderrExact
  BY <1>1, <1>2, <1>3 DEF StderrExact
<1>5. StderrHeld
  <2>1. (Len(Rest(input)) > MaxLine) = FALSE
    BY <1>1, <1>2
  <2> QED BY <1>1, <1>2, <2>1 DEF StderrHeld
<1> QED BY <1>1, <1>4, <1>5 DEF StderrInv

(* The mark of a line that is too long so far.                             *)
Mark(long) == IF long THEN <<Oversized>> ELSE <<>>

(* A read completes lines, starts to discard one or goes on with it.       *)
LEMMA StderrRead ==
  ASSUME StderrInv, NEW chunk \in Seq(Bytes), ReadStderr(chunk)
  PROVE  StderrInv'
<1> DEFINE lines == Complete(input)
           rest == Rest(input)
           long == Len(rest) > MaxLine
           pending == unread \o chunk
           joint == rest \o chunk
           held == Rest(pending)
           long2 == Len(held) > MaxLine
           skipped == discarding /\ Complete(pending) # <<>>
           taken == IF skipped THEN Tail(Complete(pending)) ELSE Complete(pending)
<1>1. /\ ended = "no" /\ ended' = "no" /\ input' = input \o chunk
      /\ IF discarding /\ ~skipped
         THEN unread' = <<>> /\ kept' = kept /\ discarding' = discarding
         ELSE /\ kept' = kept \o CapturedAll(taken) \o Mark(long2)
              /\ unread' = IF long2 THEN <<>> ELSE held
              /\ discarding' = long2
  BY DEF ReadStderr, StderrInv, Mark
<1>2. /\ input \in Seq(Bytes) /\ discarding = long /\ MaxLine \in Nat
      /\ unread = IF long THEN <<>> ELSE rest
      /\ kept = CapturedAll(lines) \o Mark(long)
  BY <1>1, LineAssumption DEF StderrInv, StderrHeld, StderrExact, Mark
<1>3. lines \in Seq(Seq(Bytes)) /\ rest \in Seq(Bytes)
  BY <1>2, LinesType
<1>4. /\ Complete(input') = lines \o Complete(joint)
      /\ Rest(input') = Rest(joint)
  BY <1>1, <1>2, LinesJoin
<1>5. joint \in Seq(Bytes) /\ input' \in Seq(Bytes)
  BY <1>1, <1>2, <1>3
<1>6. Complete(joint) \in Seq(Seq(Bytes)) /\ Rest(joint) \in Seq(Bytes)
  BY <1>5, LinesType
<1>7. CapturedAll(Complete(input')) = CapturedAll(lines) \o CapturedAll(Complete(joint))
  BY <1>3, <1>4, <1>6, CapturedJoin
<1>8. /\ Mark(TRUE) = <<Oversized>> /\ Mark(FALSE) = <<>>
      /\ Mark(TRUE) \in Seq(LineKinds) /\ Mark(FALSE) \in Seq(LineKinds)
  BY DEF Mark, LineKinds
<1>9. CapturedAll(lines) \in Seq(LineKinds)
  BY <1>3, CapturedJoin
<1>10. ASSUME kept' = CapturedAll(Complete(input')) \o Mark(Len(Rest(input')) > MaxLine)
       PROVE  StderrExact'
  BY <1>1, <1>10 DEF StderrExact, Mark
<1>11. CASE ~long
  <2>1. pending = joint /\ ~discarding /\ taken = Complete(joint) /\ held = Rest(joint)
    BY <1>2, <1>11
  <2>2. CapturedAll(Complete(joint)) \in Seq(LineKinds)
    BY <1>6, CapturedJoin
  <2>3. kept = CapturedAll(lines)
    <3>1. kept = CapturedAll(lines) \o <<>>
      BY <1>2, <1>11 DEF Mark
    <3> QED BY <1>9, <3>1
  <2>4. kept' = kept \o CapturedAll(taken) \o Mark(long2)
    BY <1>1, <2>1
  <2>5. StderrExact'
    BY <1>4, <1>7, <1>10, <2>1, <2>3, <2>4
  <2>6. StderrHeld'
    BY <1>1, <1>4, <2>1 DEF StderrHeld
  <2> QED BY <1>1, <1>5, <2>5, <2>6 DEF StderrInv
<1>12. CASE long
  <2>1. discarding /\ unread = <<>> /\ pending = chunk
    <3>1. discarding /\ unread = <<>>
      BY <1>2, <1>12
    <3> QED BY <3>1
  <2>2. kept = CapturedAll(lines) \o <<Oversized>>
    BY <1>2, <1>8, <1>12
  <2>3. Complete(rest) = <<>>
    BY <1>2, RestIsPlain
  <2>4. CASE Complete(chunk) = <<>>
    <3>1. Complete(joint) = <<>> /\ Rest(joint) = joint
      BY <1>3, <2>3, <2>4, LineGrowsInFront
    <3>2. Len(joint) > MaxLine
      BY <1>2, <1>3, <1>12
    <3>3. unread' = <<>> /\ kept' = kept /\ discarding'
      BY <1>1, <2>1, <2>4
    <3>4. CapturedAll(<<>>) = <<>> /\ CapturedAll(lines) \o <<>> = CapturedAll(lines)
      BY <1>9 DEF CapturedAll
    <3>5. kept' = CapturedAll(Complete(input')) \o Mark(Len(Rest(input')) > MaxLine)
      BY <1>4, <1>7, <1>8, <2>2, <3>1, <3>2, <3>3, <3>4
    <3>6. StderrExact'
      BY <1>10, <3>5
    <3>7. StderrHeld'
      BY <1>4, <3>1, <3>2, <3>3 DEF StderrHeld
    <3> QED BY <1>1, <1>5, <3>6, <3>7 DEF StderrInv
  <2>5. CASE Complete(chunk) # <<>>
    <3> DEFINE first == Complete(chunk)[1]
               others == Tail(Complete(chunk))
    <3>1. /\ Complete(joint) = <<rest \o first>> \o others
          /\ Rest(joint) = Rest(chunk)
      BY <1>3, <2>3, <2>5, LineGrowsInFront
    <3>2. taken = others /\ held = Rest(joint) /\ skipped
      BY <2>1, <2>5, <3>1
    <3>3. first \in Seq(Bytes) /\ others \in Seq(Seq(Bytes))
      <4>1. first \in Seq(Bytes)
        BY <2>5, FirstLine
      <4>2. Complete(chunk) \in Seq(Seq(Bytes))
        BY LinesType
      <4> QED BY <2>5, <4>1, <4>2
    <3> HIDE DEF first, others
    <3>4. /\ rest \o first \in Seq(Bytes) /\ Len(rest \o first) > MaxLine
          /\ <<rest \o first>> \in Seq(Seq(Bytes))
      BY <1>2, <1>3, <1>12, <3>3
    <3>5. CapturedAll(Complete(joint)) = <<Oversized>> \o CapturedAll(others)
      <4>1. Captured(rest \o first) = Oversized
        BY <3>4 DEF Captured
      <4>2. CapturedAll(<<rest \o first>>) = <<Oversized>>
        BY <3>4, <4>1, CapturedOne
      <4>3. CapturedAll(<<rest \o first>> \o others)
              = CapturedAll(<<rest \o first>>) \o CapturedAll(others)
        BY <3>3, <3>4, CapturedJoin
      <4> QED BY <3>1, <4>2, <4>3
    <3>6. CapturedAll(others) \in Seq(LineKinds)
      BY <3>3, CapturedJoin
    <3>7. kept \o CapturedAll(others) = CapturedAll(Complete(input'))
      <4>1. (CapturedAll(lines) \o <<Oversized>>) \o CapturedAll(others)
              = CapturedAll(lines) \o (<<Oversized>> \o CapturedAll(others))
        <5>1. <<Oversized>> \in Seq(LineKinds)
          BY <1>8
        <5> QED BY ONLY <1>9, <3>6, <5>1, JoinTwice
      <4> QED BY <1>7, <2>2, <3>5, <4>1
    <3>8. kept' = kept \o CapturedAll(others) \o Mark(long2)
      BY <1>1, <3>2
    <3>9. kept' = CapturedAll(Complete(input')) \o Mark(Len(Rest(input')) > MaxLine)
      BY <1>4, <3>2, <3>7, <3>8
    <3>10. StderrExact'
      BY <1>10, <3>9
    <3>11. StderrHeld'
      BY <1>1, <1>4, <3>2 DEF StderrHeld
    <3> QED BY <1>1, <1>5, <3>10, <3>11 DEF StderrInv
  <2> QED BY <2>4, <2>5
<1> QED BY <1>11, <1>12

(* The last line needs no line feed.                                       *)
LEMMA StderrEnds ==
  ASSUME StderrInv, EndStderr
  PROVE  StderrInv'
<1> DEFINE rest == Rest(input)
           long == Len(rest) > MaxLine
           lines == CapturedAll(Complete(input))
<1>1. /\ ended = "no" /\ ended' = "done" /\ input' = input
      /\ kept' = IF ~discarding /\ unread # <<>> THEN Append(kept, unread) ELSE kept
  BY DEF EndStderr
<1>2. /\ input \in Seq(Bytes) /\ discarding = long
      /\ unread = IF long THEN <<>> ELSE rest
      /\ kept = lines \o IF long THEN <<Oversized>> ELSE <<>>
  BY <1>1 DEF StderrInv, StderrHeld, StderrExact
<1>3. lines \in Seq(LineKinds) /\ rest \in LineKinds
  BY <1>2, LinesType, CapturedJoin DEF LineKinds
<1> HIDE DEF lines
<1>4. kept' = lines \o IF long THEN <<Oversized>>
                       ELSE IF rest # <<>> THEN <<rest>> ELSE <<>>
  <2>1. CASE long
    BY <1>1, <1>2, <2>1
  <2>2. CASE ~long
    <3>1. lines \o <<>> = lines /\ Append(lines, rest) = lines \o <<rest>>
      <4> HIDE DEF rest
      <4> QED BY <1>3
    <3> QED BY <1>1, <1>2, <2>2, <3>1
  <2> QED BY <2>1, <2>2
<1>5. StderrExact'
  BY <1>1, <1>4 DEF StderrExact, lines
<1> QED BY <1>1, <1>2, <1>5 DEF StderrInv

-----------------------------------------------------------------------------
(* All three readers.                                                      *)
LinesInv ==
  /\ reader = "frames" => FramesInv
  /\ reader = "stderr" => StderrInv
  /\ reader = "ring" => RingInv

(* Every step is one of the reader that this behaviour is about.           *)
LEMMA LinesKept ==
  ASSUME LinesInv, [ReaderNext]_readerVars
  PROVE  LinesInv'
<1>1. ASSUME NEW n \in 0..MaxChunk, NEW chunk \in [1..n -> Bytes]
      PROVE  chunk \in Seq(Bytes)
  <2>1. n \in Nat
    BY LineAssumption
  <2> QED BY <2>1
<1>2. ASSUME NEW n \in 0..MaxChunk, NEW chunk \in [1..n -> Bytes],
             ReadFrames(chunk) \/ ReadStderr(chunk)
      PROVE  LinesInv'
  <2>1. CASE ReadFrames(chunk)
    <3>1. reader = "frames" /\ reader' = reader
      BY <2>1 DEF ReadFrames
    <3> QED BY <1>1, <2>1, <3>1, FramesRead DEF LinesInv
  <2>2. CASE ReadStderr(chunk)
    <3>1. reader = "stderr" /\ reader' = reader
      BY <2>2 DEF ReadStderr
    <3> QED BY <1>1, <2>2, <3>1, StderrRead DEF LinesInv
  <2> QED BY <1>2, <2>1, <2>2
<1>3. CASE TakeFrame
  <2>1. reader = "frames" /\ reader' = reader
    BY <1>3 DEF TakeFrame
  <2> QED BY <1>3, <2>1, FrameTaken DEF LinesInv
<1>4. CASE NoFrame
  <2>1. reader = "frames" /\ reader' = reader
    BY <1>4 DEF NoFrame
  <2> QED BY <1>4, <2>1, FramesEnd DEF LinesInv
<1>5. CASE EndStderr
  <2>1. reader = "stderr" /\ reader' = reader
    BY <1>5 DEF EndStderr
  <2> QED BY <1>5, <2>1, StderrEnds DEF LinesInv
<1>6. ASSUME NEW length \in 0..(MaxLine + 1), PushLine(length)
      PROVE  LinesInv'
  <2>1. reader = "ring" /\ reader' = reader /\ length \in Nat
    BY <1>6, LineAssumption DEF PushLine
  <2> QED BY <1>6, <2>1, RingStep DEF LinesInv
<1>7. CASE UNCHANGED readerVars
  <2>1. /\ reader' = reader /\ input' = input /\ unread' = unread /\ kept' = kept
        /\ discarding' = discarding /\ ended' = ended /\ lengths' = lengths
        /\ bytes' = bytes
    BY <1>7 DEF readerVars
  <2>2. FramesInv => FramesInv'
    BY <2>1 DEF FramesInv, Handled, FramesDone
  <2>3. StderrInv => StderrInv'
    BY <2>1 DEF StderrInv, StderrExact, StderrHeld
  <2>4. RingInv => RingInv'
    BY <2>1 DEF RingInv, RingExact
  <2> QED BY <2>1, <2>2, <2>3, <2>4 DEF LinesInv
<1> QED BY <1>2, <1>3, <1>4, <1>5, <1>6, <1>7 DEF ReaderNext

(* However a stream is cut into reads, what JsonLinesReader returns is what *)
(* its lines are up to the first that is no frame, what capture_stderr      *)
(* keeps has one entry for every line, and the ring stays within its        *)
(* capacity and counts its bytes right: for every limit and every input.    *)
THEOREM LinesStayExact == ReaderSpec => []LinesAreExact
<1>1. ReaderInit => LinesInv
  BY FramesStart, StderrStart, RingStart DEF LinesInv
<1>2. LinesInv /\ [ReaderNext]_readerVars => LinesInv'
  BY LinesKept
<1>3. LinesInv => LinesAreExact
  BY FramesMean DEF LinesInv, LinesAreExact, StderrInv, RingInv
<1> QED BY <1>1, <1>2, <1>3, PTL DEF ReaderSpec
=============================================================================
