---------------------------- MODULE ProcessHandle ----------------------------
(***************************************************************************)
(* The app-server's process as ProcessHandle owns it (process.rs): spawn,  *)
(* the writer, reader and stderr tasks with their bounded channels, the    *)
(* forced kills of disconnect and of failed sends, and the one shutdown    *)
(* that closes stdin, reaps the child, joins the tasks and removes the     *)
(* guardian's files.                                                       *)
(*                                                                         *)
(* The child's Mutex is held across the waits, as in the code, so a        *)
(* shutdown that waits for the child keeps a kill waiting.  A deadline is  *)
(* a step that may be taken at any time; a result that is there is taken   *)
(* before the deadline is looked at (tokio's timeout polls it first).      *)
(***************************************************************************)
EXTENDS Naturals, Sequences

CONSTANTS
  OutboundCapacity,   \* config.outbound_capacity
  EventCapacity,      \* config.event_capacity
  MaxFrames,          \* bound on the frames senders queue
  MaxMessages         \* bound on the messages the app-server writes

ASSUME ProcessBounds ==
  {OutboundCapacity, EventCapacity, MaxFrames, MaxMessages} \subseteq Nat

Tasks == {"writer", "reader", "stderr"}
Killers == {"router", "caller"}   \* tasks that call force_kill

VARIABLES
  spawn,      \* how far spawn came
  files,      \* what is on disk: the private directory, the guardian helper
  child,      \* the guardian: none, running, stopping, zombie or reaped
  owned,      \* ProcessInner::child is Some
  lock,       \* who holds the child's Mutex
  stopping,   \* shutdown_started
  outbound,   \* the outbound channel
  ack,        \* the acknowledgement of Close
  task,       \* per task: where it is
  events,     \* the event channel
  router,     \* router_loop: receiving, busy in disconnect, or ended
  kill,       \* per killer: where its force_kill is
  expired,    \* the operation's own deadline had passed when shutdown began
  shut,       \* where shutdown is
  late,       \* shutdown's cleanup deadline has passed
  failures,   \* shutdown has recorded a failure
  sent        \* frames and messages so far (for the bounds)

ownership   == <<spawn, files, child, owned, lock>>
channels    == <<outbound, ack, events>>
actors      == <<task, router, kill>>
shutdownVars == <<expired, shut, late, failures>>
processVars == <<ownership, channels, stopping, actors, shutdownVars, sent>>

ProcessInit ==
  /\ spawn = "verifying"
  /\ files = {}
  /\ child = "none"
  /\ owned = FALSE
  /\ lock = "free"
  /\ stopping = FALSE
  /\ outbound = <<>>
  /\ ack = "none"
  /\ task = [t \in Tasks |-> "none"]
  /\ events = <<>>
  /\ router = "none"
  /\ kill = [k \in Killers |-> "idle"]
  /\ expired = FALSE
  /\ shut = "idle"
  /\ late = FALSE
  /\ failures = FALSE
  /\ sent = [frames |-> 0, messages |-> 0]

ProcessTypeOK ==
  /\ spawn \in {"verifying", "directory", "helper", "up", "failed"}
  /\ files \subseteq {"directory", "helper"}
  /\ child \in {"none", "running", "stopping", "zombie", "reaped"}
  /\ owned \in BOOLEAN
  /\ lock \in {"free", "shutdown"} \cup Killers
  /\ stopping \in BOOLEAN
  /\ outbound \in Seq({"frame", "close"}) /\ Len(outbound) <= OutboundCapacity
  /\ ack \in {"none", "waiting", "closed", "lost"}
  /\ task \in [Tasks -> {"none", "waiting", "writing", "failing", "sending",
                         "reporting", "ended"}]
  /\ events \in Seq({"message", "closed"}) /\ Len(events) <= EventCapacity
  /\ router \in {"none", "receiving", "replying", "busy", "last", "orphan",
                 "ended"}
  /\ kill \in [Killers -> {"idle", "locking", "reaping", "done", "dropped"}]
  /\ expired \in BOOLEAN
  /\ shut \in {"idle", "queueing", "closing", "locking", "waiting", "reaping",
               "writer", "reader", "stderr", "removing", "router", "done"}
  /\ late \in BOOLEAN
  /\ failures \in BOOLEAN
  /\ sent \in [frames : 0 .. MaxFrames, messages : 0 .. MaxMessages]

-----------------------------------------------------------------------------
(* spawn.  Every early return after the helper exists removes it and its    *)
(* directory, but the second ensure_deadline and a helper that could not be *)
(* written whole do not.                                                    *)

(* remove_guardian and remove_guardian_directory: all goes or, where one    *)
(* fails, something stays, which is then taken to be all.                   *)
Leaves == {{}, files}

SpawnFails(left) ==
  /\ spawn' = "failed"
  /\ files' = left
  /\ UNCHANGED <<child, owned, lock, channels, stopping, actors, shutdownVars,
                 sent>>

RefuseSpawn == spawn = "verifying" /\ SpawnFails({})

CreateDirectory ==
  /\ spawn = "verifying"
  /\ spawn' = "directory"
  /\ files' = {"directory"}
  /\ UNCHANGED <<child, owned, lock, channels, stopping, actors, shutdownVars,
                 sent>>

ExtractFails ==
  /\ spawn = "directory"
  /\ \/ \E left \in Leaves : SpawnFails(left)  \* not created, or a wrong digest
     \/ SpawnFails({"directory", "helper"})   \* created, but not written

ExtractHelper ==
  /\ spawn = "directory"
  /\ spawn' = "helper"
  /\ files' = {"directory", "helper"}
  /\ UNCHANGED <<child, owned, lock, channels, stopping, actors, shutdownVars,
                 sent>>

DeadlineBeforeSpawn == spawn = "helper" /\ SpawnFails(files)

(* No PATH, no child, no identity or no pipe: what there is is undone.      *)
UndoSpawn == spawn = "helper" /\ \E left \in Leaves : SpawnFails(left)

Spawn ==
  /\ spawn = "helper"
  /\ spawn' = "up"
  /\ child' = "running"
  /\ owned' = TRUE
  /\ task' = [t \in Tasks |-> "waiting"]
  /\ router' = "receiving"
  /\ UNCHANGED <<files, lock, channels, stopping, kill, shutdownVars, sent>>

-----------------------------------------------------------------------------
(* The child.  It may crash, it leaves after its stdin is closed or it is   *)
(* signalled, and it may do neither in time.  It writes as the pipe allows. *)

Exit ==
  /\ child \in {"running", "stopping"}
  /\ child' = "zombie"
  /\ UNCHANGED <<spawn, files, owned, lock, channels, stopping, actors,
                 shutdownVars, sent>>

(* terminate: TERM, to the child that is still owned and not reaped, a     *)
(* signal that can be delivered then.                                       *)
Terminated == IF child = "running" THEN "stopping" ELSE child

-----------------------------------------------------------------------------
(* Senders and the writer.                                                  *)

(* send: the flag is read before the frame waits for its place.             *)
QueueFrame ==
  /\ spawn = "up" /\ task["writer"] # "ended"
  /\ ~stopping
  /\ Len(outbound) < OutboundCapacity
  /\ sent.frames < MaxFrames
  /\ outbound' = Append(outbound, "frame")
  /\ sent' = [sent EXCEPT !.frames = @ + 1]
  /\ UNCHANGED <<ownership, ack, events, stopping, actors, shutdownVars>>

WriterTakes ==
  /\ task["writer"] = "waiting" /\ outbound # <<>>
  /\ \/ /\ Head(outbound) = "frame"
        /\ task' = [task EXCEPT !["writer"] = "writing"]
        /\ outbound' = Tail(outbound)
        /\ UNCHANGED ack
     \/ /\ Head(outbound) = "close"           \* closes stdin and returns
        /\ task' = [task EXCEPT !["writer"] = "ended"]
        /\ outbound' = <<>>
        /\ \E result \in {"closed", "lost"} :
             ack' = IF ack = "waiting" THEN result ELSE ack
  /\ UNCHANGED <<ownership, events, stopping, router, kill, shutdownVars,
                 sent>>

WriteFrame ==
  /\ task["writer"] = "writing" /\ child \in {"running", "stopping"}
  /\ task' = [task EXCEPT !["writer"] = "waiting"]
  /\ UNCHANGED <<ownership, channels, stopping, router, kill, shutdownVars,
                 sent>>

WriteFails ==
  /\ task["writer"] = "writing"
  /\ task' = [task EXCEPT !["writer"] = "failing"]
  /\ stopping' = TRUE
  /\ UNCHANGED <<ownership, channels, router, kill, shutdownVars, sent>>

(* terminate_after_writer_failure, once it has the child's Mutex.           *)
WriterTerminates ==
  /\ task["writer"] = "failing" /\ lock = "free"
  /\ child' = IF owned THEN Terminated ELSE child
  /\ task' = [task EXCEPT !["writer"] = "reporting"]
  /\ UNCHANGED <<spawn, files, owned, lock, channels, stopping, router, kill,
                 shutdownVars, sent>>

(* An event waits for room; a channel without its receiver ends the task.   *)
RoomFor(event) ==
  \/ /\ router # "ended" /\ Len(events) < EventCapacity
     /\ events' = Append(events, event)
  \/ /\ router = "ended"
     /\ UNCHANGED events

(* The writer returns: what is still queued is dropped with its senders.    *)
WriterReports ==
  /\ task["writer"] = "reporting"
  /\ RoomFor("closed")
  /\ task' = [task EXCEPT !["writer"] = "ended"]
  /\ ack' = IF ack = "waiting" THEN "lost" ELSE ack
  /\ outbound' = <<>>
  /\ UNCHANGED <<ownership, stopping, router, kill, shutdownVars, sent>>

-----------------------------------------------------------------------------
(* The reader, which waits for room in the event channel, and stderr_loop.  *)

(* A message that parses.                                                   *)
ReadMessage ==
  /\ task["reader"] = "waiting"
  /\ sent.messages < MaxMessages
  /\ sent' = [sent EXCEPT !.messages = @ + 1]
  /\ task' = [task EXCEPT !["reader"] = "sending"]
  /\ UNCHANGED <<ownership, channels, stopping, router, kill, shutdownVars>>

(* The end of stdout, or a frame that cannot be taken.                      *)
ReadFails ==
  /\ task["reader"] = "waiting"
  /\ task' = [task EXCEPT !["reader"] = "reporting"]
  /\ UNCHANGED <<ownership, channels, stopping, router, kill, shutdownVars,
                 sent>>

ReaderSends ==
  /\ \/ /\ task["reader"] = "sending"
        /\ RoomFor("message")
        /\ task' = [task EXCEPT !["reader"] = IF router = "ended" THEN "ended"
                                              ELSE "waiting"]
     \/ /\ task["reader"] = "reporting"
        /\ RoomFor("closed")
        /\ task' = [task EXCEPT !["reader"] = "ended"]
  /\ UNCHANGED <<ownership, outbound, ack, stopping, router, kill,
                 shutdownVars, sent>>

StderrEnds ==
  /\ task["stderr"] = "waiting" /\ child \in {"zombie", "reaped"}
  /\ task' = [task EXCEPT !["stderr"] = "ended"]
  /\ UNCHANGED <<ownership, channels, stopping, router, kill, shutdownVars,
                 sent>>

-----------------------------------------------------------------------------
(* The router.  A message may make it answer through the outbound channel,  *)
(* for at most the send timeout, and may make it disconnect.                *)

RouterAt(state) ==
  /\ router' = state
  /\ UNCHANGED <<ownership, outbound, ack, task, shutdownVars, sent>>

(* disconnect: one task owns it, the others return at once.                 *)
Disconnects(then) ==
  \/ /\ kill["router"] = "idle"
     /\ kill' = [kill EXCEPT !["router"] = "locking"]
     /\ stopping' = TRUE
     /\ RouterAt(IF then = "ended" THEN "last" ELSE "busy")
  \/ /\ kill["router"] # "idle" \/ kill["caller"] # "idle"
     /\ UNCHANGED <<kill, stopping>>
     /\ RouterAt(then)

RouterReceives ==
  /\ router = "receiving" /\ events # <<>>
  /\ events' = Tail(events)
  /\ IF Head(events) = "closed"
     THEN Disconnects("ended")
     ELSE \/ RouterAt("receiving") /\ UNCHANGED <<kill, stopping>>
          \/ RouterAt("replying") /\ UNCHANGED <<kill, stopping>>
          \/ Disconnects("receiving")

RouterReplied ==
  /\ router = "replying" /\ task["writer"] = "waiting"
  /\ RouterAt("receiving") /\ UNCHANGED <<events, kill, stopping>>

(* The answer timed out, or the writer is gone.                             *)
ReplyFails ==
  /\ router = "replying"
  /\ Disconnects("receiving") /\ UNCHANGED events

RouterDisconnected ==
  /\ router \in {"busy", "last"} /\ kill["router"] = "done"
  /\ RouterAt(IF router = "last" THEN "ended" ELSE "receiving")
  /\ UNCHANGED <<events, kill, stopping>>

(* The client is dropped: begin_force_shutdown, then no upgrade for the     *)
(* router.                                                                  *)
DropClient ==
  /\ router = "receiving" /\ shut = "idle"
  /\ \A k \in Killers : kill[k] \notin {"locking", "reaping"}
  /\ router' = "orphan"
  /\ stopping' = TRUE
  /\ child' = IF owned THEN Terminated ELSE child
  /\ UNCHANGED <<spawn, files, owned, lock, channels, task, kill,
                 shutdownVars, sent>>

OrphanEnds ==
  /\ router = "orphan"
  /\ events # <<>> \/ \A t \in {"writer", "reader"} : task[t] = "ended"
  /\ RouterAt("ended") /\ UNCHANGED <<events, kill, stopping>>

-----------------------------------------------------------------------------
(* force_kill_with_deadline.                                                *)

(* A send that may have been written fails, or another task disconnects.    *)
CallerKills ==
  /\ spawn = "up" /\ router # "orphan"
  /\ kill["caller"] = "idle"
  /\ kill' = [kill EXCEPT !["caller"] = "locking"]
  /\ stopping' = TRUE
  /\ UNCHANGED <<ownership, channels, task, router, shutdownVars, sent>>

\* Mutant: a Mutex that is held is taken for somebody else's kill.
KillTries(k) ==
  /\ kill[k] = "locking"
  /\ IF owned /\ lock = "free"
     THEN /\ child' = Terminated
          /\ lock' = k
          /\ kill' = [kill EXCEPT ![k] = "reaping"]
     ELSE /\ kill' = [kill EXCEPT ![k] = "done"]
          /\ UNCHANGED <<child, lock>>
  /\ UNCHANGED <<spawn, files, owned, channels, stopping, task, router,
                 shutdownVars, sent>>

(* With the Mutex: no child is an error, else the signal and the wait.      *)
KillLocks(k) ==
  /\ kill[k] = "locking" /\ lock = "free"
  /\ IF owned
     THEN /\ child' = Terminated
          /\ lock' = k
          /\ kill' = [kill EXCEPT ![k] = "reaping"]
     ELSE /\ kill' = [kill EXCEPT ![k] = "done"]
          /\ UNCHANGED <<child, lock>>
  /\ UNCHANGED <<spawn, files, owned, channels, stopping, task, router,
                 shutdownVars, sent>>

KillReaps(k) ==
  /\ kill[k] = "reaping"
  /\ \/ /\ child = "zombie"
        /\ child' = "reaped"
        /\ owned' = FALSE
        /\ files' \in Leaves
     \/ /\ child # "zombie"                  \* timed out
        /\ UNCHANGED <<child, owned, files>>
  /\ lock' = "free"
  /\ kill' = [kill EXCEPT ![k] = "done"]
  /\ UNCHANGED <<spawn, channels, stopping, task, router, shutdownVars, sent>>

(* The future of a caller is dropped, and the Mutex with it.                *)
Dropped(k) == [kill EXCEPT ![k] = IF @ \in {"locking", "reaping"} THEN "dropped"
                                  ELSE @]
Released(k) == IF lock = k THEN "free" ELSE lock

DropCaller ==
  /\ kill["caller"] \in {"locking", "reaping"}
  /\ kill' = Dropped("caller")
  /\ lock' = Released("caller")
  /\ UNCHANGED <<spawn, files, child, owned, channels, stopping, task, router,
                 shutdownVars, sent>>

-----------------------------------------------------------------------------
(* shutdown_with_deadline, called once by the client's shutdown, which then *)
(* joins the router within the same deadline.                               *)

ShutAt(step, failed) ==
  /\ shut' = step
  /\ failures' = (failures \/ failed)

BeginShutdown ==
  /\ shut = "idle" /\ spawn = "up" /\ router # "orphan"
  /\ ShutAt("queueing", FALSE)
  /\ expired' \in BOOLEAN
  /\ stopping' = TRUE
  /\ UNCHANGED <<ownership, channels, actors, late, sent>>

Deadline ==
  /\ shut \notin {"idle", "done"} /\ ~late
  /\ late' = TRUE
  /\ UNCHANGED <<ownership, channels, stopping, actors, expired, shut,
                 failures, sent>>

QueueClose ==
  /\ shut = "queueing"
  /\ \/ /\ task["writer"] # "ended" /\ Len(outbound) < OutboundCapacity
        /\ outbound' = Append(outbound, "close")
        /\ ack' = "waiting"
        /\ ShutAt("closing", FALSE)
     \/ /\ \/ task["writer"] = "ended"
           \/ (late \/ expired) /\ Len(outbound) = OutboundCapacity
        /\ ShutAt("locking", TRUE)
        /\ UNCHANGED <<outbound, ack>>
  /\ UNCHANGED <<ownership, events, stopping, actors, expired, late, sent>>

\* Mutant: a Close that timed out is no failure.
CloseForgiven ==
  /\ shut = "closing"
  /\ ack # "waiting" \/ late \/ expired
  /\ ShutAt("locking", ack = "lost")
  /\ UNCHANGED <<ownership, channels, stopping, actors, expired, late, sent>>

(* The operation's deadline, if it has passed, leaves the Close 100 ms.     *)
CloseAcked ==
  /\ shut = "closing"
  /\ ack # "waiting" \/ late \/ expired
  /\ ShutAt("locking", ack # "closed")
  /\ UNCHANGED <<ownership, channels, stopping, actors, expired, late, sent>>

(* The child's Mutex has no deadline.  An expired operation kills at once.  *)
ShutdownLocks ==
  /\ shut = "locking" /\ lock = "free"
  /\ IF owned
     THEN /\ lock' = "shutdown"
          /\ child' = IF expired THEN Terminated ELSE child
          /\ ShutAt(IF expired THEN "reaping" ELSE "waiting", FALSE)
     ELSE /\ ShutAt("writer", expired)
          /\ UNCHANGED <<lock, child>>
  /\ UNCHANGED <<spawn, files, owned, channels, stopping, actors, expired,
                 late, sent>>

(* A status that is not a success is a failure of a shutdown that waited.   *)
ReapChild ==
  /\ shut \in {"waiting", "reaping"} /\ child = "zombie"
  /\ child' = "reaped"
  /\ owned' = FALSE
  /\ lock' = "free"
  /\ files' \in IF expired THEN Leaves ELSE {files}
  /\ \E failed \in BOOLEAN :
       ShutAt("writer", (shut = "waiting" /\ failed) \/ (expired /\ files' # {}))
  /\ UNCHANGED <<spawn, channels, stopping, actors, expired, late, sent>>

(* The child did not leave in time: TERM, and whatever time there is left.  *)
WaitTimesOut ==
  /\ shut = "waiting" /\ late /\ child # "zombie"
  /\ child' = Terminated
  /\ ShutAt("reaping", TRUE)
  /\ UNCHANGED <<spawn, files, owned, lock, channels, stopping, actors, expired,
                 late, sent>>

(* There was no time left: the child stays owned.  (Waiting for an unreaped *)
(* child of one's own is assumed not to fail.)                              *)
ReapFails ==
  /\ shut = "reaping" /\ late /\ child # "zombie"
  /\ lock' = "free"
  /\ ShutAt("writer", TRUE)
  /\ UNCHANGED <<spawn, files, child, owned, channels, stopping, actors,
                 expired, late, sent>>

\* Mutant: the tasks are joined without a deadline.
JoinPatiently(t) ==
  /\ shut = t /\ task[t] = "ended"
  /\ ShutAt(CASE t = "writer" -> "reader" [] t = "reader" -> "stderr"
               [] t = "stderr" -> "removing", FALSE)
  /\ UNCHANGED <<ownership, channels, stopping, actors, expired, late, sent>>

(* The tasks are joined one after the other; a late one is aborted.         *)
JoinTask(t) ==
  /\ shut = t
  /\ late \/ task[t] = "ended"
  /\ ShutAt(CASE t = "writer" -> "reader" [] t = "reader" -> "stderr"
               [] t = "stderr" -> "removing",
            task[t] # "ended")
  /\ task' = [task EXCEPT ![t] = "ended"]
  /\ outbound' = IF t = "writer" THEN <<>> ELSE outbound
  /\ UNCHANGED <<ownership, ack, events, stopping, router, kill, expired,
                 late, sent>>

RemoveFiles ==
  /\ shut = "removing"
  /\ files' \in Leaves
  /\ ShutAt("router", files' # {})
  /\ UNCHANGED <<spawn, child, owned, lock, channels, stopping, actors,
                 expired, late, sent>>

(* An aborted router drops its force_kill and the Mutex.                    *)
JoinRouter ==
  /\ shut = "router"
  /\ late \/ router = "ended"
  /\ ShutAt("done", router # "ended")
  /\ router' = "ended"
  /\ kill' = IF router = "ended" THEN kill ELSE Dropped("router")
  /\ lock' = IF router = "ended" THEN lock ELSE Released("router")
  /\ UNCHANGED <<spawn, files, child, owned, channels, stopping, task,
                 expired, late, sent>>

-----------------------------------------------------------------------------
WriterStep == WriterTakes \/ WriterTerminates \/ WriterReports
RouterStep ==
  RouterReceives \/ ReplyFails \/ RouterDisconnected \/ OrphanEnds
KillStep(k) == KillLocks(k) \/ KillReaps(k)
ShutdownWorks ==
  \/ Deadline \/ QueueClose \/ CloseAcked \/ ShutdownLocks \/ ReapChild
  \/ WaitTimesOut \/ ReapFails \/ RemoveFiles \/ JoinRouter
  \/ \E t \in Tasks : JoinTask(t)

ProcessNext ==
  \/ RefuseSpawn \/ CreateDirectory \/ ExtractFails \/ ExtractHelper
  \/ DeadlineBeforeSpawn \/ UndoSpawn \/ Spawn
  \/ Exit \/ QueueFrame \/ WriteFrame \/ WriteFails \/ WriterStep
  \/ ReadMessage \/ ReadFails \/ ReaderSends \/ StderrEnds
  \/ RouterStep \/ RouterReplied \/ DropClient
  \/ CallerKills \/ DropCaller \/ \E k \in Killers : KillStep(k)
  \/ BeginShutdown \/ ShutdownWorks

ProcessSpec == ProcessInit /\ [][ProcessNext]_processVars

-----------------------------------------------------------------------------
(* A shutdown that reports no failure has written every frame ahead of its  *)
(* Close, reaped the child, joined every task and left no file, whatever    *)
(* kills and failing writes it raced.                                       *)
CleanShutdown ==
  shut = "done" /\ ~failures =>
    /\ child = "reaped" /\ ~owned
    /\ ack = "closed"
    /\ \A t \in Tasks : task[t] = "ended"
    /\ router = "ended"
    /\ files = {}

(* Who gave the connection up has stopped the child: a force_kill that has  *)
(* returned, a writer past its failed write and a shutdown that is over     *)
(* leave no child running that nobody signalled.                            *)
FailureStopsChild ==
  \/ \E k \in Killers : kill[k] = "done"
  \/ task["writer"] = "reporting"
  \/ shut = "done"
  => child # "running"

(* With the types of the parts.                                             *)
ProcessInvariant == ProcessTypeOK /\ FailureStopsChild

(* Nothing waits for ever on the channels, the Mutex and the child at once: *)
(* a kill ends, a shutdown ends, and the router gets back to its events.    *)
EveryCleanupEnds ==
  /\ kill["caller"] = "locking" ~> kill["caller"] \in {"done", "dropped"}
  /\ shut = "queueing" ~> shut = "done"
  /\ router \in {"replying", "busy", "last"} ~> router \in {"receiving", "ended"}
=============================================================================
