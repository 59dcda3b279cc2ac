------------------------------ MODULE MCPrograms ------------------------------
(* Small instances for TLC of what runs around a client: the guardian, the  *)
(* processes that share a runtime cache, the verification of a package, the *)
(* providers, the screens they accept and the readers of lines.  They share *)
(* no state, so a behaviour exercises one.                                  *)
EXTENDS Guardian, RuntimeInstall, RuntimeVerification, Providers, ScreenProgram,
        LineReaders

VARIABLE focus

programsVars == <<vars, installVars, verificationVars, providerVars, screenVars,
                  readerVars, focus>>

ProgramsInit ==
  /\ focus \in {"guardian", "install", "verification", "providers", "screen", "readers"}
  /\ Init
  /\ InstallInit
  /\ VerificationInit
  /\ ProviderInit
  /\ ScreenInit
  /\ ReaderInit
  /\ focus = "verification" \/ timed
  /\ focus = "providers" \/ (program = "model" /\ staging = "given")
  /\ focus = "readers" \/ reader = "frames"

OfGuardian(A) ==
  /\ focus = "guardian" /\ A
  /\ UNCHANGED <<installVars, verificationVars, providerVars,
                 screenVars, readerVars, focus>>
OfInstall(A) ==
  /\ focus = "install" /\ A
  /\ UNCHANGED <<vars, verificationVars, providerVars,
                 screenVars, readerVars, focus>>
OfVerification(A) ==
  /\ focus = "verification" /\ A
  /\ UNCHANGED <<vars, installVars, providerVars,
                 screenVars, readerVars, focus>>
OfProviders(A) ==
  /\ focus = "providers" /\ A
  /\ UNCHANGED <<vars, installVars, verificationVars, screenVars, readerVars, focus>>
OfScreen(A) ==
  /\ focus = "screen" /\ A
  /\ UNCHANGED <<vars, installVars, verificationVars, providerVars,
                 readerVars, focus>>
OfReaders(A) ==
  /\ focus = "readers" /\ A
  /\ UNCHANGED <<vars, installVars, verificationVars, providerVars,
                 screenVars, focus>>

ProgramsNext ==
  \/ OfGuardian(Next)
  \/ OfInstall(InstallNext)
  \/ OfVerification(VerificationNext)
  \/ OfProviders(ProviderNext)
  \/ OfScreen(ScreenNext)
  \/ OfReaders(ReaderNext)

(* The fairness of Guardian.  A process that is not killed goes on, and who *)
(* waits for the lock gets it once it is free.  Time passes, and a wait     *)
(* with a deadline ends with it.                                            *)
GuardianFairness ==
  /\ WF_programsVars(OfGuardian(MonitorStep))
  /\ WF_programsVars(OfGuardian(WorkerStep))
  /\ WF_programsVars(OfGuardian(Exec))
  /\ WF_programsVars(OfGuardian(FinishLeader))
  /\ \A m \in Members : WF_programsVars(OfGuardian(FinishMember(m)))
ProgramsFairness ==
  /\ \A r \in Resolvers : WF_programsVars(OfInstall(ResolveStep(r)))
  /\ WF_programsVars(OfVerification(VerifyStep))
  /\ WF_programsVars(OfVerification(TimePasses))
  /\ WF_programsVars(OfProviders(ProviderStep))
  /\ WF_programsVars(OfProviders(DeadlineStep))
  /\ WF_programsVars(OfProviders(DeadlinePasses))

ProgramsSpec ==
  /\ ProgramsInit /\ [][ProgramsNext]_programsVars
  /\ GuardianFairness /\ ProgramsFairness
=============================================================================
