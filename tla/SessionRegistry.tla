--------------------------- MODULE SessionRegistry ---------------------------
(***************************************************************************)
(* The sessions of a client: SessionRegistry and Session (session.rs),     *)
(* create, resume, close, the clean-up of an abandoned one-shot run and    *)
(* shutdown (client.rs).                                                   *)
(*                                                                         *)
(* Two locks order them.  The lifecycle lock of the registry is held over  *)
(* requests; the lock of a session is taken before it.  Both are fair: who *)
(* waits is in a queue, whose head holds the lock.  A step is what a task  *)
(* does between two awaits.  A caller may be dropped at any of them; what  *)
(* becomes of its request then, and of the turn of a dropped start, is     *)
(* RequestRegistry's and RunRoute's matter: here it ends the connection    *)
(* (fence) if the request creates something, and nothing otherwise.  What  *)
(* the app-server does with a request it does in the step that ends the    *)
(* call, or that drops it: nothing else in this module can tell.           *)
(***************************************************************************)
EXTENDS Naturals, Sequences, Queues, Connection

CONSTANTS
  Threads,    \* thread ids
  OneShot     \* the ones Codex::run creates

ASSUME OneShotAssumption == OneShot \subseteq Threads

VARIABLES
  closing,      \* ConnectionLifecycle::closing
  expired,      \* the operation's absolute deadline has passed
  fence,        \* a spawned task is about to disconnect
  lifecycle,    \* the lifecycle lock: its holder, then those who wait
  sessionLock,  \* per thread: Session::lifecycle, likewise
  loaded,       \* SessionRegistry::ids
  session,      \* per thread: its Session
  create,       \* per thread: the call of session, resume or run
  start,        \* per thread: the call of Session::start
  close,        \* per thread: the call of Session::close
  clean,        \* per thread: cleanup_abandoned_ephemeral_session
  turn,         \* per thread: its route (RunRoute)
  remote,       \* per thread: what the app-server makes of it
  shutdown,     \* the task of Codex::shutdown
  todo,         \* the sessions it has not visited, and
  visited,      \* the one it visits, in a set
  failures,     \* its failures
  givenUp       \* threads unsubscribed by a close that was given up (history)

lockVars == <<lifecycle, sessionLock>>
stateVars == <<loaded, session, turn, remote>>
shutVars == <<closing, shutdown, todo, visited, failures>>
sessionVars == <<lockVars, stateVars, shutVars, fence, create, start, close,
                 clean, givenUp, expired>>

SessionInit ==
  /\ closing = FALSE
  /\ expired = FALSE
  /\ fence = FALSE
  /\ lifecycle = <<>>
  /\ sessionLock = [t \in Threads |-> <<>>]
  /\ loaded = {}
  /\ session = [t \in Threads |-> "none"]
  /\ create = [t \in Threads |-> "idle"]
  /\ start = [t \in Threads |-> "idle"]
  /\ close = [t \in Threads |-> "idle"]
  /\ clean = [t \in Threads |-> "idle"]
  /\ turn = [t \in Threads |-> "none"]
  /\ remote = [t \in Threads |-> "none"]
  /\ shutdown = "idle"
  /\ todo = {}
  /\ visited = {}
  /\ failures = FALSE
  /\ givenUp = {}

-----------------------------------------------------------------------------
(* The locks.                                                              *)

Shutter == <<"shutdown", "all">>

Enter(task) == lifecycle' = Append(lifecycle, task)
Holds(task) == lifecycle # <<>> /\ Head(lifecycle) = task
Exit(task)  == lifecycle' = Without(lifecycle, task)

EnterSession(t, role) ==
  sessionLock' = [sessionLock EXCEPT ![t] = Append(@, role)]
HoldsSession(t, role) == sessionLock[t] # <<>> /\ Head(sessionLock[t]) = role
ExitSession(t, role) ==
  sessionLock' = [sessionLock EXCEPT ![t] = Without(@, role)]

(* What request_internal refuses before it sends anything.                 *)
Refuses == closing \/ IsDisconnected \/ expired

(* Calls made after the disconnect are refused; the model leaves them out. *)
Calling == link # "cut"

(* Codex::run starts and closes its session once, in this order.           *)
Advance(t, stage) ==
  IF t \in OneShot THEN [session EXCEPT ![t] = stage] ELSE session

-----------------------------------------------------------------------------
(* create_session and resume_session.                                      *)

BeginCreate(t) ==
  /\ Calling
  /\ \/ create[t] = "idle"
     \/ /\ create[t] = "done" /\ t \notin OneShot
        /\ session[t] \in {"closed", "dropped"}
        /\ start[t] = "idle" /\ close[t] = "idle"
  /\ create' = [create EXCEPT ![t] = "queued"]
  /\ Enter(<<"create", t>>)
  /\ UNCHANGED <<link, sessionLock, stateVars, shutVars, fence, start, close,
                 clean, givenUp, expired>>

ReturnCreate(t) ==
  create' = [create EXCEPT ![t] = "done"] /\ Exit(<<"create", t>>)

\* Mutant: the lifecycle lock is not held over the request.
SendCreateUnlocked(t) ==
  /\ create[t] = "queued"
  /\ Holds(<<"create", t>>)
  /\ IF Refuses \/ t \in loaded
     THEN ReturnCreate(t)
     ELSE create' = [create EXCEPT ![t] = "sent"] /\ Exit(<<"create", t>>)
  /\ UNCHANGED <<link, sessionLock, stateVars, shutVars, fence, start, close,
                 clean, givenUp, expired>>

(* A thread that is loaded is not resumed.                                 *)
SendCreate(t) ==
  /\ create[t] = "queued"
  /\ Holds(<<"create", t>>)
  /\ IF Refuses \/ t \in loaded
     THEN ReturnCreate(t)
     ELSE create' = [create EXCEPT ![t] = "sent"] /\ UNCHANGED lifecycle
  /\ UNCHANGED <<link, sessionLock, stateVars, shutVars, fence, start, close,
                 clean, givenUp, expired>>

(* The app-server has loaded the thread, and the caller has the answer.     *)
FinishCreate(t) ==
  /\ create[t] = "sent"
  /\ link # "cut"
  /\ remote' = [remote EXCEPT ![t] = "loaded"]
  /\ loaded' = loaded \cup {t}
  /\ session' = [session EXCEPT ![t] = "open"]
  /\ givenUp' = givenUp \ {t}
  /\ ReturnCreate(t)
  /\ UNCHANGED <<link, sessionLock, turn, shutVars, fence, start, close, clean,
                 expired>>

(* The app-server refuses, or the connection is lost.                      *)
CreateFails(t) ==
  /\ \/ create[t] = "sent"
     \/ create[t] = "fencing" /\ link = "cut"
  /\ ReturnCreate(t)
  /\ UNCHANGED <<link, sessionLock, stateVars, shutVars, fence, start, close,
                 clean, givenUp, expired>>

(* Without an answer in time, or with one that names no thread or another  *)
(* one, the caller itself disconnects.                                     *)
CreateTimesOut(t) ==
  /\ create[t] = "sent"
  /\ BeginDisconnect
  /\ create' = [create EXCEPT ![t] = "fencing"]
  /\ UNCHANGED <<lockVars, stateVars, shutVars, fence, start, close, clean,
                 givenUp, expired>>

(* The deadline passed right after the dispatch: a plain timeout, and the  *)
(* thread is loaded without an owner (RequestRegistry!GiveUp).             *)
CreateOverdue(t) ==
  /\ create[t] = "sent"
  /\ expired
  /\ link # "cut"
  /\ remote' = [remote EXCEPT ![t] = "loaded"]
  /\ ReturnCreate(t)
  /\ UNCHANGED <<link, sessionLock, loaded, session, turn, shutVars, fence,
                 start, close, clean, givenUp, expired>>

Orphaned(t) == create[t] = "sent"

(* A caller that is dropped may leave a thread behind.                      *)
DropCreate(t) ==
  /\ create[t] \in {"queued", "sent"}
  /\ fence' = (fence \/ Orphaned(t))
  /\ \/ UNCHANGED remote
     \/ /\ create[t] = "sent" /\ link # "cut"
        /\ remote' = [remote EXCEPT ![t] = "loaded"]
  /\ ReturnCreate(t)
  /\ UNCHANGED <<link, sessionLock, loaded, session, turn, shutVars, start,
                 close, clean, givenUp, expired>>

-----------------------------------------------------------------------------
(* Session::start.                                                         *)

BeginStart(t) ==
  /\ Calling
  /\ session[t] = "open"
  /\ start[t] = "idle"
  /\ start' = [start EXCEPT ![t] = "queued"]
  /\ session' = Advance(t, "used")
  /\ EnterSession(t, "start")
  /\ UNCHANGED <<link, lifecycle, loaded, turn, remote, shutVars, fence,
                 create, close, clean, givenUp, expired>>

ReturnStart(t) ==
  /\ start' = [start EXCEPT ![t] = "idle"]
  /\ ExitSession(t, "start")
  /\ Exit(<<"start", t>>)

LockStart(t) ==
  /\ start[t] = "queued"
  /\ HoldsSession(t, "start")
  /\ IF session[t] = "closed"
     THEN ReturnStart(t)
     ELSE /\ start' = [start EXCEPT ![t] = "ordered"]
          /\ Enter(<<"start", t>>)
          /\ UNCHANGED sessionLock
  /\ UNCHANGED <<link, stateVars, shutVars, fence, create, close, clean,
                 givenUp, expired>>

(* A turn that cannot be sent leaves no route behind.                      *)
SendStart(t) ==
  /\ start[t] = "ordered"
  /\ Holds(<<"start", t>>)
  /\ IF turn[t] # "none" \/ Refuses
     THEN ReturnStart(t) /\ UNCHANGED turn
     ELSE /\ start' = [start EXCEPT ![t] = "sent"]
          /\ turn' = [turn EXCEPT ![t] = "starting"]
          /\ UNCHANGED lockVars
  /\ UNCHANGED <<link, loaded, session, remote, shutVars, fence, create, close,
                 clean, givenUp, expired>>

(* The answer, or what fails the request before one.                       *)
FinishStart(t) ==
  /\ start[t] = "sent"
  /\ \/ turn' = [turn EXCEPT ![t] = "none"]
     \/ link # "cut" /\ turn' = [turn EXCEPT ![t] = "running"]
  /\ ReturnStart(t)
  /\ UNCHANGED <<link, loaded, session, remote, shutVars, fence, create, close,
                 clean, givenUp, expired>>

StartTimesOut(t) ==
  /\ start[t] = "sent"
  /\ BeginDisconnect
  /\ start' = [start EXCEPT ![t] = "fencing"]
  /\ UNCHANGED <<lockVars, stateVars, shutVars, fence, create, close, clean,
                 givenUp, expired>>

StartLost(t) ==
  /\ start[t] = "fencing"
  /\ link = "cut"
  /\ ReturnStart(t)
  /\ UNCHANGED <<link, stateVars, shutVars, fence, create, close, clean,
                 givenUp, expired>>

DropStart(t) ==
  /\ start[t] \in {"queued", "ordered", "sent"}
  /\ fence' = (fence \/ start[t] = "sent")
  /\ ReturnStart(t)
  /\ UNCHANGED <<link, stateVars, shutVars, create, close, clean, givenUp,
                 expired>>

(* The turn's terminal; whoever waits for it is interrupted elsewhere.     *)
EndTurn(t) ==
  /\ turn[t] = "running"
  /\ turn' = [turn EXCEPT ![t] = "none"]
  /\ UNCHANGED <<link, lockVars, loaded, session, remote, shutVars, fence,
                 create, start, close, clean, givenUp, expired>>

-----------------------------------------------------------------------------
(* Session::close and close_session.                                       *)

BeginClose(t) ==
  /\ Calling
  /\ \/ t \notin OneShot /\ session[t] = "open"
     \/ t \in OneShot /\ session[t] = "used" /\ start[t] = "idle"
  /\ close[t] = "idle"
  /\ close' = [close EXCEPT ![t] = "queued"]
  /\ session' = Advance(t, "ending")
  /\ EnterSession(t, "close")
  /\ UNCHANGED <<link, lifecycle, loaded, turn, remote, shutVars, fence,
                 create, start, clean, givenUp, expired>>

ReturnClose(t) ==
  /\ close' = [close EXCEPT ![t] = "idle"]
  /\ ExitSession(t, "close")
  /\ Exit(<<"close", t>>)

\* Mutant: the session's lock is not held while the call waits for the other.
LockCloseBriefly(t) ==
  /\ close[t] = "queued"
  /\ HoldsSession(t, "close")
  /\ IF session[t] = "closed" \/ turn[t] # "none"
     THEN ReturnClose(t)
     ELSE /\ close' = [close EXCEPT ![t] = "ordered"]
          /\ Enter(<<"close", t>>)
          /\ ExitSession(t, "close")
  /\ UNCHANGED <<link, stateVars, shutVars, fence, create, start, clean,
                 givenUp, expired>>

LockClose(t) ==
  /\ close[t] = "queued"
  /\ HoldsSession(t, "close")
  /\ IF session[t] = "closed" \/ turn[t] # "none"
     THEN ReturnClose(t)
     ELSE /\ close' = [close EXCEPT ![t] = "ordered"]
          /\ Enter(<<"close", t>>)
          /\ UNCHANGED sessionLock
  /\ UNCHANGED <<link, stateVars, shutVars, fence, create, start, clean,
                 givenUp, expired>>

SendClose(t) ==
  /\ close[t] = "ordered"
  /\ Holds(<<"close", t>>)
  /\ IF turn[t] # "none" \/ Refuses
     THEN ReturnClose(t)
     ELSE close' = [close EXCEPT ![t] = "sent"] /\ UNCHANGED lockVars
  /\ UNCHANGED <<link, stateVars, shutVars, fence, create, start, clean,
                 givenUp, expired>>

FinishClose(t) ==
  /\ close[t] = "sent"
  /\ link # "cut"
  /\ loaded' = loaded \ {t}
  /\ remote' = [remote EXCEPT ![t] = "unloaded"]
  /\ session' = [session EXCEPT ![t] = "closed"]
  /\ ReturnClose(t)
  /\ UNCHANGED <<link, turn, shutVars, fence, create, start, clean, givenUp,
                 expired>>

(* The call fails, or it is dropped.  An unsubscription that was sent may  *)
(* still be carried out, before whatever is sent later.                    *)
LeaveClose(t) ==
  /\ close[t] # "idle"
  /\ \/ UNCHANGED <<remote, givenUp>>
     \/ /\ close[t] = "sent" /\ link # "cut"
        /\ remote' = [remote EXCEPT ![t] = "unloaded"]
        /\ givenUp' = givenUp \cup {t}
  /\ ReturnClose(t)
  /\ UNCHANGED <<link, loaded, session, turn, shutVars, fence, create, start,
                 clean, expired>>

(* A Session is dropped; nothing happens.                                  *)
DropSession(t) ==
  /\ session[t] = "open"
  /\ start[t] = "idle" /\ close[t] = "idle"
  /\ t \notin OneShot
  /\ session' = [session EXCEPT ![t] = "dropped"]
  /\ UNCHANGED <<link, lockVars, loaded, turn, remote, shutVars, fence, create,
                 start, close, clean, givenUp, expired>>

-----------------------------------------------------------------------------
(* Codex::run is dropped, or its close failed: the guard spawns            *)
(* cleanup_abandoned_ephemeral_session.                                    *)

AbandonOneShot(t) ==
  /\ t \in OneShot
  /\ session[t] \in {"open", "used", "ending"}
  /\ start[t] = "idle" /\ close[t] = "idle"
  /\ session' = [session EXCEPT ![t] = "dropped"]
  /\ clean' = [clean EXCEPT ![t] = "queued"]
  /\ Enter(<<"clean", t>>)
  /\ UNCHANGED <<link, sessionLock, loaded, turn, remote, shutVars, fence,
                 create, start, close, givenUp, expired>>

ReturnClean(t) ==
  clean' = [clean EXCEPT ![t] = "done"] /\ Exit(<<"clean", t>>)

\* Mutant: a clean-up that fails is given up.
CleanFence(t) == ReturnClean(t) /\ UNCHANGED link
(* No terminal in time, no answer, or a refusal: it disconnects, unless    *)
(* somebody else has.                                                      *)
FenceAfterClean(t) ==
  IF IsDisconnected
  THEN ReturnClean(t) /\ UNCHANGED link
  ELSE /\ BeginDisconnect
       /\ clean' = [clean EXCEPT ![t] = "fencing"]
       /\ UNCHANGED lifecycle

(* Its first look, and the one after the turn has ended, which is not at   *)
(* the registry again.  A request after the deadline fails unsent.         *)
SendClean(t) ==
  /\ \/ clean[t] = "queued" /\ Holds(<<"clean", t>>)
     \/ clean[t] = "interrupting" /\ turn[t] # "running"
  /\ IF IsDisconnected \/ (clean[t] = "queued" /\ t \notin loaded)
     THEN ReturnClean(t) /\ loaded' = loaded \ {t} /\ UNCHANGED link
     ELSE /\ UNCHANGED loaded
          /\ \/ /\ turn[t] = "running"
                /\ clean' = [clean EXCEPT ![t] = "interrupting"]
                /\ UNCHANGED <<link, lifecycle>>
             \/ /\ turn[t] # "running" /\ ~expired
                /\ clean' = [clean EXCEPT ![t] = "sent"]
                /\ UNCHANGED <<link, lifecycle>>
             \/ turn[t] # "running" /\ expired /\ FenceAfterClean(t)
  /\ UNCHANGED <<sessionLock, session, turn, remote, shutVars, fence, create,
                 start, close, givenUp, expired>>

FinishClean(t) ==
  /\ clean[t] = "sent"
  /\ link # "cut"
  /\ loaded' = loaded \ {t}
  /\ remote' = [remote EXCEPT ![t] = "unloaded"]
  /\ ReturnClean(t)
  /\ UNCHANGED <<link, sessionLock, session, turn, shutVars, fence, create,
                 start, close, givenUp, expired>>

CleanFails(t) ==
  /\ clean[t] \in {"interrupting", "sent"}
  /\ FenceAfterClean(t)
  /\ UNCHANGED <<sessionLock, stateVars, shutVars, fence, create, start, close,
                 givenUp, expired>>

CleanFenced(t) ==
  /\ clean[t] = "fencing"
  /\ link = "cut"
  /\ ReturnClean(t)
  /\ UNCHANGED <<link, sessionLock, stateVars, shutVars, fence, create, start,
                 close, givenUp, expired>>

-----------------------------------------------------------------------------
(* ClientInner::shutdown, in a task of its own.                            *)

(* A connection that is lost, or whose deadline has passed, is not cleaned *)
(* up remotely: the registry is emptied and the process is stopped.        *)
BeginShutdown ==
  /\ ~closing
  /\ closing' = TRUE
  /\ IF IsDisconnected \/ expired
     THEN shutdown' = "stopping" /\ loaded' = {} /\ UNCHANGED lifecycle
     ELSE shutdown' = "queued" /\ Enter(Shutter) /\ UNCHANGED loaded
  /\ UNCHANGED <<link, sessionLock, session, turn, remote, todo, visited,
                 failures, fence, create, start, close, clean, givenUp,
                 expired>>

Snapshot ==
  /\ shutdown = "queued"
  /\ Holds(Shutter)
  /\ shutdown' = "visiting"
  /\ todo' = loaded
  /\ UNCHANGED <<link, lockVars, stateVars, closing, visited, failures, fence,
                 create, start, close, clean, givenUp, expired>>

(* The next session: its turn is interrupted, if it has one.               *)
Visit ==
  /\ shutdown = "visiting"
  /\ \E t \in todo :
       /\ visited' = {t}
       /\ todo' = todo \ {t}
       /\ shutdown' = IF turn[t] = "running" THEN "interrupting" ELSE "sending"
  /\ UNCHANGED <<link, lockVars, stateVars, closing, failures, fence, create,
                 start, close, clean, givenUp, expired>>

\* Mutant: the wait for the terminal has no limit.
AwaitTurnForever ==
  /\ shutdown = "interrupting"
  /\ \A t \in visited : turn[t] # "running"
  /\ shutdown' = "sending"
  /\ UNCHANGED <<link, lockVars, stateVars, closing, todo, visited, failures,
                 fence, create, start, close, clean, givenUp, expired>>

(* The terminal, or none in time.                                          *)
AwaitTurn ==
  /\ shutdown = "interrupting"
  /\ shutdown' = "sending"
  /\ failures' = (failures \/ \E t \in visited : turn[t] = "running")
  /\ UNCHANGED <<link, lockVars, stateVars, closing, todo, visited, fence,
                 create, start, close, clean, givenUp, expired>>

(* thread/unsubscribe; the app-server may refuse, or be gone, or the       *)
(* deadline may have passed.                                               *)
Unsubscribe ==
  /\ shutdown = "sending"
  /\ shutdown' = "visiting"
  /\ visited' = {}
  /\ \/ /\ link # "cut" /\ ~expired
        /\ loaded' = loaded \ visited
        /\ remote' = [t \in Threads |->
                        IF t \in visited THEN "unloaded" ELSE remote[t]]
        /\ UNCHANGED failures
     \/ failures' = TRUE /\ UNCHANGED <<loaded, remote>>
  /\ UNCHANGED <<link, lockVars, session, turn, closing, todo, fence, create,
                 start, close, clean, givenUp, expired>>

Stop ==
  /\ shutdown = "visiting"
  /\ todo = {}
  /\ shutdown' = "stopping"
  /\ Exit(Shutter)
  /\ UNCHANGED <<link, sessionLock, stateVars, closing, todo, visited,
                 failures, fence, create, start, close, clean, givenUp,
                 expired>>

(* The process ends; the router sees the end of its output.                *)
StopProcess ==
  /\ shutdown = "stopping"
  /\ shutdown' = "done"
  /\ link' = IF link = "up" THEN "cutting" ELSE link
  /\ UNCHANGED <<lockVars, stateVars, closing, todo, visited, failures, fence,
                 create, start, close, clean, givenUp, expired>>

-----------------------------------------------------------------------------
(* The connection.                                                         *)

LoseConnection == BeginDisconnect /\ UNCHANGED sessionVars

(* CodexConfig::with_absolute_deadline; no step waits for it.              *)
DeadlinePasses ==
  /\ ~expired
  /\ expired' = TRUE
  /\ UNCHANGED <<link, lockVars, stateVars, shutVars, fence, create, start,
                 close, clean, givenUp>>

Fence ==
  /\ fence
  /\ fence' = FALSE
  /\ link' = IF link = "up" THEN "cutting" ELSE link
  /\ UNCHANGED <<lockVars, stateVars, shutVars, create, start, close, clean,
                 givenUp, expired>>

(* The process is gone, and with it its threads; the runs are failed.      *)
Cut ==
  /\ link = "cutting"
  /\ link' = "cut"
  /\ turn' = [t \in Threads |-> "none"]
  /\ remote' = [t \in Threads |-> "none"]
  /\ UNCHANGED <<lockVars, loaded, session, shutVars, fence, create, start,
                 close, clean, givenUp, expired>>

-----------------------------------------------------------------------------
CreateStep(t) ==
  \/ SendCreate(t) \/ FinishCreate(t) \/ CreateFails(t)
  \/ CreateTimesOut(t) \/ CreateOverdue(t)
StartStep(t) ==
  \/ LockStart(t) \/ SendStart(t) \/ FinishStart(t)
  \/ StartTimesOut(t) \/ StartLost(t)
CloseStep(t) ==
  \/ LockClose(t) \/ SendClose(t) \/ FinishClose(t)
  \/ close[t] = "sent" /\ LeaveClose(t)
CleanStep(t) ==
  SendClean(t) \/ FinishClean(t) \/ CleanFails(t) \/ CleanFenced(t)
ShutdownStep ==
  Snapshot \/ Visit \/ AwaitTurn \/ Unsubscribe \/ Stop \/ StopProcess

SessionNext ==
  \/ LoseConnection \/ Fence \/ Cut \/ DeadlinePasses
  \/ BeginShutdown \/ ShutdownStep
  \/ \E t \in Threads :
       \/ BeginCreate(t) \/ CreateStep(t) \/ DropCreate(t)
       \/ BeginStart(t) \/ StartStep(t) \/ DropStart(t) \/ EndTurn(t)
       \/ BeginClose(t) \/ CloseStep(t) \/ LeaveClose(t)
       \/ DropSession(t) \/ AbandonOneShot(t) \/ CleanStep(t)

SessionSpec ==
  LinkInit /\ SessionInit /\ [][SessionNext]_<<link, sessionVars>>

-----------------------------------------------------------------------------
Tasks == ({"create", "start", "close", "clean"} \X Threads) \cup {Shutter}

(* Type invariant; a task is in the queue of the lifecycle lock exactly    *)
(* while it waits for it or holds it.                                      *)
SessionTypeOK ==
  /\ LinkType
  /\ closing \in BOOLEAN
  /\ expired \in BOOLEAN
  /\ fence \in BOOLEAN
  /\ lifecycle \in Seq(Tasks)
  /\ sessionLock \in [Threads -> Seq({"start", "close"})]
  /\ loaded \subseteq Threads
  /\ session \in [Threads -> {"none", "open", "used", "ending", "closed",
                             "dropped"}]
  /\ create \in [Threads -> {"idle", "queued", "sent", "fencing", "done"}]
  /\ start \in [Threads -> {"idle", "queued", "ordered", "sent", "fencing"}]
  /\ close \in [Threads -> {"idle", "queued", "ordered", "sent"}]
  /\ clean \in [Threads -> {"idle", "queued", "interrupting", "sent", "fencing",
                            "done"}]
  /\ turn \in [Threads -> {"none", "starting", "running"}]
  /\ remote \in [Threads -> {"none", "loaded", "unloaded"}]
  /\ shutdown \in {"idle", "queued", "visiting", "interrupting", "sending",
                   "stopping", "done"}
  /\ todo \subseteq Threads
  /\ visited \subseteq Threads
  /\ failures \in BOOLEAN
  /\ givenUp \subseteq Threads
  /\ \A task \in Tasks :
       Queued(lifecycle, task) <=>
         \/ task[1] = "create" /\ create[task[2]] \notin {"idle", "done"}
         \/ task[1] = "start" /\ start[task[2]] \notin {"idle", "queued"}
         \/ task[1] = "close" /\ close[task[2]] \notin {"idle", "queued"}
         \/ task[1] = "clean" /\ clean[task[2]] \notin {"idle", "done"}
         \/ task = Shutter /\ shutdown \notin {"idle", "stopping", "done"}

(* A shutdown without failures has unsubscribed every thread before it     *)
(* stops the process, the one too whose creation it overtook.  Excepted is *)
(* an operation whose absolute deadline has passed: a shutdown that begins *)
(* then unsubscribes nothing and leaves the threads to the end of the      *)
(* process (client.rs:1660-1664), and a create it cut short leaves a       *)
(* thread nobody knows.                                                    *)
ShutdownLeavesNothing ==
  shutdown = "stopping" /\ link = "up" /\ ~fence /\ ~failures /\ ~expired =>
    \A t \in Threads : remote[t] # "loaded"

(* No thread of a connection in use is without an owner: what the          *)
(* app-server has loaded is in the registry, whoever was dropped when,     *)
(* until the operation's absolute deadline has passed: then a shutdown     *)
(* empties the registry first, and a dispatched create may end in a plain  *)
(* timeout.                                                                *)
LoadedIsOwned ==
  link = "up" /\ ~fence /\ ~expired =>
    \A t \in Threads : remote[t] = "loaded" => t \in loaded

(* No thread is unsubscribed while it has a turn, though close looks at    *)
(* the turn long before it sends.  Excepted are threads that a close given *)
(* up unanswered has unsubscribed all the same: their Session stays open.  *)
TurnKeepsThread ==
  link = "up" /\ ~fence /\ ~failures =>
    \A t \in Threads \ givenUp : turn[t] # "none" => remote[t] = "loaded"

(* Locks, tasks and threads agree, whoever is dropped when: a task is in   *)
(* the queue of the lifecycle lock exactly from asking for it to releasing *)
(* it, no loaded thread is without an owner and no turn without its thread.*)
SessionInvariant == SessionTypeOK /\ LoadedIsOwned /\ TurnKeepsThread

(* shutdown ends, whoever holds the locks it needs and whatever the        *)
(* app-server does not answer.                                             *)
ShutdownEnds == closing ~> shutdown = "done"

(* The thread of an abandoned one-shot run does not stay behind            *)
(* (PROTOCOL_CONTRACT.md:116).                                             *)
AbandonedOneShotEnds ==
  \A t \in OneShot : clean[t] = "queued" ~> remote[t] # "loaded"
=============================================================================
