------------------------------ MODULE MCServices ------------------------------
(* Small instances of the client's services for TLC.  They share nothing    *)
(* but the connection, so a behaviour exercises one of them: the focus.     *)
EXTENDS LoginRegistry, SessionRegistry

VARIABLE focus

vars == <<link, loginVars, sessionVars, focus>>

Init ==
  /\ focus \in {"logins", "sessions"}
  /\ LinkInit
  /\ LoginInit
  /\ SessionInit

OfLogins(A) ==
  focus = "logins" /\ A /\ UNCHANGED <<sessionVars, focus>>
OfSessions(A) ==
  focus = "sessions" /\ A /\ UNCHANGED <<loginVars, focus>>

Next == OfLogins(LoginNext) \/ OfSessions(SessionNext)

(* Tasks that may go on do, a request that is not answered times out, and   *)
(* disconnect is carried through.  The app-server owes nothing.             *)
SessionFairness ==
  /\ WF_vars(OfSessions(Fence))
  /\ WF_vars(OfSessions(Cut))
  /\ WF_vars(OfSessions(ShutdownStep))
  /\ \A t \in Threads :
       /\ WF_vars(OfSessions(CreateStep(t)))
       /\ WF_vars(OfSessions(StartStep(t)))
       /\ WF_vars(OfSessions(CloseStep(t)))
       /\ WF_vars(OfSessions(CleanStep(t)))

FairSpec == Init /\ [][Next]_vars /\ SessionFairness
=============================================================================
