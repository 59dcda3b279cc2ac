-------------------------- MODULE RequestRegistry --------------------------
(***************************************************************************)
(* Who owns the outcome of a JSON-RPC request: src/src/private/request.rs, *)
(* with the callers of ClientInner::request, the writer and router tasks,  *)
(* the tasks PendingCancellationGuard spawns, and disconnect.              *)
(*                                                                         *)
(* A step is what one task does between two points where another thread    *)
(* may run: a section of the pending mutex, one atomic, one channel        *)
(* operation.  A caller can be dropped where it awaits and nowhere else.   *)
(***************************************************************************)
EXTENDS FiniteSets

CONSTANTS
  Requests,           \* request ids
  NonIdempotent,      \* the ones that create state in the app-server
  NoRequest,          \* not a request id
  OperationDeadline   \* CodexConfig::with_absolute_deadline is in use

ASSUME RequestsAssumption ==
  /\ NonIdempotent \subseteq Requests
  /\ NoRequest \notin Requests
  /\ OperationDeadline \in BOOLEAN

VARIABLES
  caller,       \* per request: where its request_internal_with_timeout is
  report,       \* per request: what the caller was told
  pending,      \* RequestRegistry::pending
  dispatched,   \* requests whose dispatched flag is set
  cancelled,    \* requests whose cancelled flag is set
  success,      \* requests whose successful_response flag is set
  channel,      \* per request: its oneshot response channel
  canceller,    \* per request: the cancel_aborted_request task
  outbound,     \* frames queued for the writer task
  ack,          \* per request: the writer's acknowledgement
  writer,       \* the writer task still runs
  peer,         \* per request: what the app-server did with it
  heard,        \* responses the router has read
  app,          \* the app-server: running, gone, or survived (a disconnect
                \* failed to kill it and says so)
  router,       \* the router task: the completion it is in, or idle
  link,         \* disconnect: up, cutting, killing, killed, draining (in
                \* fail_all), cut, or torn (dropped before fail_all)
  draining,     \* fail_all's entries not failed yet
  stopped,      \* ProcessInner::shutdown_started
  closing       \* ConnectionLifecycle::closing

registryVars == <<pending, dispatched, cancelled, success>>
callerVars   == <<caller, report>>
writerVars   == <<outbound, ack, writer>>
peerVars     == <<peer, heard, app>>
linkVars     == <<link, draining>>
processVars  == <<stopped, closing>>
vars == <<callerVars, registryVars, channel, canceller, writerVars, peerVars,
          router, linkVars, processVars>>

Idle == [on |-> NoRequest, step |-> "idle"]

Init ==
  /\ caller = [r \in Requests |-> "idle"]
  /\ report = [r \in Requests |-> "none"]
  /\ pending = {}
  /\ dispatched = {}
  /\ cancelled = {}
  /\ success = {}
  /\ channel = [r \in Requests |-> "empty"]
  /\ canceller = [r \in Requests |-> "none"]
  /\ outbound = {}
  /\ ack = [r \in Requests |-> "none"]
  /\ writer = TRUE
  /\ peer = [r \in Requests |-> "none"]
  /\ heard = {}
  /\ app = "running"
  /\ router = Idle
  /\ link = "up"
  /\ draining = {}
  /\ stopped = FALSE
  /\ closing = FALSE

-----------------------------------------------------------------------------
(* The caller: request_internal_with_timeout.                              *)

Go(r, place) == caller' = [caller EXCEPT ![r] = place]

(* It returns, with what it says.                                          *)
Return(r, what) == Go(r, "done") /\ report' = [report EXCEPT ![r] = what]

(* The drop of a PendingCancellationGuard that was not disarmed.           *)
LeaveArmed(r) ==
  /\ cancelled' = cancelled \cup {r}
  /\ canceller' = [canceller EXCEPT ![r] = "spawned"]

(* The connection's state is tested before the request is registered.      *)
Admit(r) ==
  /\ caller[r] = "idle"
  /\ link = "up" /\ ~closing
  /\ Go(r, "admitted")
  /\ UNCHANGED <<report, registryVars, channel, canceller, writerVars,
                 peerVars, router, linkVars, processVars>>

Register(r) ==
  /\ caller[r] = "admitted"
  /\ Go(r, "registered")
  /\ pending' = pending \cup {r}
  /\ UNCHANGED <<report, dispatched, cancelled, success, channel, canceller,
                 writerVars, peerVars, router, linkVars, processVars>>

\* Mutant: shutdown_started is not tested again.
MayDispatchAnyway == writer
(* What send_tracked tests, the second time with a queue slot in hand.     *)
MayDispatch == writer /\ ~stopped

(* The second test of shutdown_started.  From here to the queue nothing is *)
(* awaited and nothing is tested, but other threads run in between.        *)
Clear(r) ==
  /\ caller[r] = "registered"
  /\ MayDispatch
  /\ Go(r, "cleared")
  /\ UNCHANGED <<report, registryVars, channel, canceller, writerVars,
                 peerVars, router, linkVars, processVars>>

(* dispatched.store, before the frame is queued.                           *)
MarkDispatched(r) ==
  /\ caller[r] = "cleared"
  /\ Go(r, "marked")
  /\ dispatched' = dispatched \cup {r}
  /\ UNCHANGED <<report, pending, cancelled, success, channel, canceller,
                 writerVars, peerVars, router, linkVars, processVars>>

(* permit.send; a writer that ended has dropped its end of the queue.  The *)
(* operation deadline is then looked at again.                             *)
Queue(r) ==
  /\ caller[r] = "marked"
  /\ outbound' = IF writer THEN outbound \cup {r} ELSE outbound
  /\ \/ Go(r, "queued")
     \/ OperationDeadline /\ Go(r, "overdue")
  /\ UNCHANGED <<report, registryVars, channel, canceller, ack, writer,
                 peerVars, router, linkVars, processVars>>

(* The deadline passed while the frame was queued: a plain timeout.        *)
GiveUp(r) ==
  /\ caller[r] = "overdue"
  /\ Return(r, "timeout")
  /\ pending' = pending \ {r}
  /\ LeaveArmed(r)
  /\ UNCHANGED <<dispatched, success, channel, writerVars, peerVars, router,
                 linkVars, processVars>>

(* send_tracked fails before the request is dispatched: the process is     *)
(* stopping, the writer is gone, or no queue slot came free in time.       *)
RefuseSend(r) ==
  /\ caller[r] = "registered"
  /\ \/ stopped /\ Return(r, "shutdown")
     \/ ~writer /\ Return(r, "disconnected")
     \/ Return(r, "timeout")
  /\ pending' = pending \ {r}
  /\ UNCHANGED <<dispatched, cancelled, success, channel, canceller,
                 writerVars, peerVars, router, linkVars, processVars>>

Acknowledged(r) ==
  /\ caller[r] = "queued"
  /\ ack[r] = "ok"
  /\ Go(r, "waiting")
  /\ UNCHANGED <<report, registryVars, channel, canceller, writerVars,
                 peerVars, router, linkVars, processVars>>

(* outcome_unknown_after_dispatch: the write failed, or its acknowledgement*)
(* did not come in time; the process is killed first.                      *)
Unacknowledged(r) ==
  /\ caller[r] = "queued"
  /\ Go(r, "unacked")
  /\ stopped' = TRUE
  /\ UNCHANGED <<report, registryVars, channel, canceller, writerVars,
                 peerVars, router, linkVars, closing>>

RemoveUnacknowledged(r) ==
  /\ caller[r] = "unacked"
  /\ Go(r, "fencing")
  /\ pending' = pending \ {r}
  /\ UNCHANGED <<report, dispatched, cancelled, success, channel, canceller,
                 writerVars, peerVars, router, linkVars, processVars>>

(* The response is there: the caller takes it and disarms its guard.       *)
TakeResponse(r) ==
  /\ caller[r] = "waiting"
  /\ channel[r] # "empty"
  /\ Return(r, channel[r])
  /\ UNCHANGED <<registryVars, channel, canceller, writerVars, peerVars,
                 router, linkVars, processVars>>

\* Mutant: the wait for the response has no timeout of its own.
ExpireNever(r) == FALSE /\ UNCHANGED vars
(* The request timeout elapses; the receiver is dropped with the future.   *)
Expire(r) ==
  /\ caller[r] = "waiting"
  /\ Go(r, "expired")
  /\ UNCHANGED <<report, registryVars, channel, canceller, writerVars,
                 peerVars, router, linkVars, processVars>>

\* Mutant: a request that is still pending was not answered, so nothing is
\* lost.
LostIfAnswered(r) ==
  r \in NonIdempotent /\ r \in dispatched /\ r \in success
(* RequestRegistry::cancel and timeout: a dispatched non-idempotent        *)
(* request that is still pending, or was answered with a success that the  *)
(* caller will not see.                                                    *)
MayBeLost(r) ==
  /\ r \in NonIdempotent /\ r \in dispatched
  /\ r \in pending \/ r \in success

(* RequestRegistry::timeout.                                               *)
TimeOut(r) ==
  /\ caller[r] = "expired"
  /\ pending' = pending \ {r}
  /\ \/ /\ MayBeLost(r)
        /\ Go(r, "fencing")
        /\ UNCHANGED <<report, cancelled, canceller>>
     \/ /\ ~MayBeLost(r)
        /\ Return(r, "timeout")
        /\ LeaveArmed(r)
  /\ UNCHANGED <<dispatched, success, channel, writerVars, peerVars, router,
                 linkVars, processVars>>

(* begin_disconnect: only the first caller cleans up.                      *)
Cut == link' = IF link = "up" THEN "cutting" ELSE link

Fence(r) ==
  /\ caller[r] = "fencing"
  /\ Cut
  /\ IF link = "up"
     THEN Go(r, "cleaning") /\ UNCHANGED <<report, cancelled, canceller>>
     ELSE Return(r, "unknown") /\ LeaveArmed(r)
  /\ UNCHANGED <<pending, dispatched, success, channel, writerVars, peerVars,
                 router, draining, processVars>>

Cleaned(r) ==
  /\ caller[r] = "cleaning"
  /\ link = "cut"
  /\ Return(r, "unknown")
  /\ LeaveArmed(r)
  /\ UNCHANGED <<pending, dispatched, success, channel, writerVars, peerVars,
                 router, linkVars, processVars>>

(* The caller's future is dropped where it awaits; a disconnect it awaits, *)
(* in the kill or for the rest of stderr, is dropped with it.              *)
DropCaller(r) ==
  /\ \/ caller[r] \in {"registered", "queued", "waiting", "unacked"}
     \/ caller[r] = "cleaning" /\ link \in {"killing", "killed"}
  /\ Go(r, "dropped")
  /\ LeaveArmed(r)
  /\ link' = IF caller[r] = "cleaning" THEN "torn" ELSE link
  /\ UNCHANGED <<report, pending, dispatched, success, channel, writerVars,
                 peerVars, router, draining, processVars>>

(* cancel_aborted_request, a spawned task.                                 *)
CancelAborted(r) ==
  /\ canceller[r] = "spawned"
  /\ pending' = pending \ {r}
  /\ canceller' =
       [canceller EXCEPT ![r] = IF MayBeLost(r) THEN "fencing" ELSE "done"]
  /\ UNCHANGED <<callerVars, dispatched, cancelled, success, channel,
                 writerVars, peerVars, router, linkVars, processVars>>

CancelFence(r) ==
  /\ canceller[r] = "fencing"
  /\ canceller' = [canceller EXCEPT ![r] = "done"]
  /\ Cut
  /\ UNCHANGED <<callerVars, registryVars, channel, writerVars, peerVars,
                 router, draining, processVars>>

-----------------------------------------------------------------------------
(* The writer task, and the app-server.                                    *)

(* A pipe takes a frame that nobody is left to read, too.                  *)
Write(r) ==
  /\ writer /\ r \in outbound
  /\ outbound' = outbound \ {r}
  /\ ack' = [ack EXCEPT ![r] = "ok"]
  /\ peer' = IF app = "gone" THEN peer ELSE [peer EXCEPT ![r] = "read"]
  /\ UNCHANGED <<callerVars, registryVars, channel, canceller, writer, heard,
                 app, router, linkVars, processVars>>

(* A write fails, part of its frame delivered or all of it.  The writer    *)
(* kills the process and ends; what is queued is never acknowledged.       *)
WriteFails(r) ==
  /\ writer /\ r \in outbound
  /\ writer' = FALSE
  /\ outbound' = {}
  /\ \/ UNCHANGED peer
     \/ app # "gone" /\ peer' = [peer EXCEPT ![r] = "read"]
  /\ stopped' = TRUE
  /\ UNCHANGED <<callerVars, registryVars, channel, canceller, ack, heard,
                 app, router, linkVars, closing>>

Answer(r) ==
  /\ peer[r] = "read" /\ app # "gone"
  /\ \E answer \in {"ok", "refused"} : peer' = [peer EXCEPT ![r] = answer]
  /\ UNCHANGED <<callerVars, registryVars, channel, canceller, writerVars,
                 heard, app, router, linkVars, processVars>>

(* The app-server ends, by itself or by the kill of anyone but disconnect. *)
AppEnds ==
  /\ app = "running"
  /\ app' = "gone"
  /\ UNCHANGED <<callerVars, registryVars, channel, canceller, writerVars,
                 peer, heard, router, linkVars, processVars>>

-----------------------------------------------------------------------------
(* The router task: complete_pending.                                      *)

(* The caller still holds the receiver.  (One that is about to end the     *)
(* connection is counted as gone: the connection ends in either case.)     *)
ReceiverAlive(r) ==
  caller[r] \in {"admitted", "registered", "cleared", "marked", "queued",
                 "overdue", "waiting", "unacked"}

\* Mutant: the success is not published with the removal.
MarkSuccessLate(r) == UNCHANGED success
MarkSuccess(r) == success' = IF peer[r] = "ok" THEN success \cup {r} ELSE success

(* take_for_completion.                                                    *)
ReadResponse(r) ==
  /\ router = Idle
  /\ peer[r] \in {"ok", "refused"} /\ r \notin heard
  /\ heard' = heard \cup {r}
  /\ IF r \in pending
     THEN /\ pending' = pending \ {r}
          /\ MarkSuccess(r)
          /\ router' = [on |-> r, step |-> "send"]
     ELSE UNCHANGED <<pending, success, router>>
  /\ UNCHANGED <<callerVars, dispatched, cancelled, channel, canceller,
                 writerVars, peer, app, linkVars, processVars>>

SendResponse(r) ==
  /\ router = [on |-> r, step |-> "send"]
  /\ IF ReceiverAlive(r)
     THEN /\ channel' = [channel EXCEPT ![r] = peer[r]]
          /\ router' = [on |-> r, step |-> "sent"]
     ELSE /\ router' = [on |-> r, step |-> "unsent"]
          /\ UNCHANGED channel
  /\ UNCHANGED <<callerVars, registryVars, canceller, writerVars, peerVars,
                 linkVars, processVars>>

(* non_idempotent_outcome_may_be_orphaned, after the handoff.              *)
Orphaned(r) ==
  /\ r \in NonIdempotent /\ r \in dispatched
  /\ peer[r] = "ok"
  /\ router.step = "unsent" \/ r \in cancelled

CheckHandoff(r) ==
  /\ router.on = r /\ router.step \in {"sent", "unsent"}
  /\ router' = IF Orphaned(r) THEN [on |-> r, step |-> "fencing"] ELSE Idle
  /\ UNCHANGED <<callerVars, registryVars, channel, canceller, writerVars,
                 peerVars, linkVars, processVars>>

RouterFence ==
  /\ router.step = "fencing"
  /\ router' = Idle
  /\ Cut
  /\ UNCHANGED <<callerVars, registryVars, channel, canceller, writerVars,
                 peerVars, draining, processVars>>

(* The app-server's stdout ends or breaks: ProcessEvent::Closed.           *)
RouterClosed ==
  /\ router = Idle
  /\ router' = [on |-> NoRequest, step |-> "ended"]
  /\ Cut
  /\ UNCHANGED <<callerVars, registryVars, channel, canceller, writerVars,
                 peerVars, draining, processVars>>

-----------------------------------------------------------------------------
(* disconnect and shutdown.                                                *)

(* force_kill_with_deadline stops the senders before anything is awaited.  *)
Kill ==
  /\ link = "cutting"
  /\ link' = "killing"
  /\ stopped' = TRUE
  /\ UNCHANGED <<callerVars, registryVars, channel, canceller, writerVars,
                 peerVars, router, draining, closing>>

(* The child is reaped and the app-server is gone with it; or the kill     *)
(* fails or does not end in time, which the failure's message then says.   *)
KillEnds ==
  /\ link = "killing"
  /\ link' = "killed"
  /\ app' \in IF app = "running" THEN {"gone", "survived"} ELSE {app}
  /\ UNCHANGED <<callerVars, registryVars, channel, canceller, writerVars,
                 peer, heard, router, draining, processVars>>

(* RequestRegistry::fail_all takes the map, then fails what it took.       *)
Drain ==
  /\ link = "killed"
  /\ link' = "draining"
  /\ draining' = pending
  /\ pending' = {}
  /\ UNCHANGED <<callerVars, dispatched, cancelled, success, channel,
                 canceller, writerVars, peerVars, router, processVars>>

\* Mutant: every failure of a disconnect is a plain disconnect.
FailurePlain(r) == "disconnected"
FailureOf(r) ==
  IF r \in NonIdempotent /\ r \in dispatched THEN "unknown" ELSE "disconnected"

FailOne(r) ==
  /\ r \in draining
  /\ draining' = draining \ {r}
  /\ channel' = IF ReceiverAlive(r)
                THEN [channel EXCEPT ![r] = FailureOf(r)] ELSE channel
  /\ UNCHANGED <<callerVars, registryVars, canceller, writerVars, peerVars,
                 router, link, processVars>>

Drained ==
  /\ link = "draining" /\ draining = {}
  /\ link' = "cut"
  /\ UNCHANGED <<callerVars, registryVars, channel, canceller, writerVars,
                 peerVars, router, draining, processVars>>

(* shutdown: no new requests; then the process is stopped.                 *)
BeginClosing ==
  /\ ~closing
  /\ closing' = TRUE
  /\ UNCHANGED <<callerVars, registryVars, channel, canceller, writerVars,
                 peerVars, router, linkVars, stopped>>

StopProcess ==
  /\ closing /\ ~stopped
  /\ stopped' = TRUE
  /\ UNCHANGED <<callerVars, registryVars, channel, canceller, writerVars,
                 peerVars, router, linkVars, closing>>

-----------------------------------------------------------------------------
CallerStep(r) ==
  \/ Register(r) \/ RefuseSend(r)
  \/ Clear(r) \/ MarkDispatched(r) \/ Queue(r) \/ GiveUp(r)
  \/ Acknowledged(r) \/ Unacknowledged(r) \/ RemoveUnacknowledged(r)
  \/ TakeResponse(r) \/ Expire(r) \/ TimeOut(r) \/ Fence(r) \/ Cleaned(r)
CancelStep(r) == CancelAborted(r) \/ CancelFence(r)
RouterStep == RouterFence \/ \E r \in Requests : SendResponse(r) \/ CheckHandoff(r)
DisconnectStep ==
  Kill \/ KillEnds \/ Drain \/ Drained \/ \E r \in Requests : FailOne(r)

Next ==
  \/ \E r \in Requests :
       \/ Admit(r) \/ CallerStep(r) \/ DropCaller(r) \/ CancelStep(r)
       \/ Write(r) \/ WriteFails(r) \/ Answer(r) \/ ReadResponse(r)
  \/ RouterStep \/ RouterClosed
  \/ DisconnectStep
  \/ BeginClosing \/ StopProcess \/ AppEnds

Spec == Init /\ [][Next]_vars

(* Fairness: a caller's timers fire and its task is polled, spawned tasks  *)
(* run, the router finishes a completion it began and a disconnect that is *)
(* not dropped goes on.  Nothing is assumed of the app-server or of the    *)
(* writer.                                                                 *)
Fairness ==
  /\ \A r \in Requests : WF_vars(CallerStep(r)) /\ WF_vars(CancelStep(r))
  /\ WF_vars(RouterStep)
  /\ WF_vars(DisconnectStep)
FairSpec == Spec /\ Fairness

-----------------------------------------------------------------------------
(* Type invariant; a cancellation is published before its task exists.     *)
TypeOK ==
  /\ caller \in [Requests -> {"idle", "admitted", "registered", "cleared",
                   "marked", "queued", "overdue", "waiting", "expired",
                   "unacked", "fencing", "cleaning", "done", "dropped"}]
  /\ report \in [Requests -> {"none", "ok", "refused", "unknown",
                              "disconnected", "timeout", "shutdown"}]
  /\ pending \subseteq Requests
  /\ dispatched \subseteq Requests
  /\ cancelled \subseteq Requests
  /\ success \subseteq Requests
  /\ channel \in
       [Requests -> {"empty", "ok", "refused", "unknown", "disconnected"}]
  /\ canceller \in [Requests -> {"none", "spawned", "fencing", "done"}]
  /\ outbound \subseteq Requests
  /\ ack \in [Requests -> {"none", "ok"}]
  /\ writer \in BOOLEAN
  /\ peer \in [Requests -> {"none", "read", "ok", "refused"}]
  /\ heard \subseteq Requests
  /\ app \in {"running", "gone", "survived"}
  /\ router \in [on : Requests \cup {NoRequest},
                 step : {"idle", "send", "sent", "unsent", "fencing", "ended"}]
  /\ link \in {"up", "cutting", "killing", "killed", "draining", "cut", "torn"}
  /\ draining \subseteq Requests
  /\ stopped \in BOOLEAN
  /\ closing \in BOOLEAN
  /\ \A r \in Requests : canceller[r] # "none" => r \in cancelled

(* The caller is gone without the app-server's answer.                     *)
Unobserved(r) ==
  \/ caller[r] = "dropped"
  \/ caller[r] = "done" /\ report[r] \notin {"ok", "refused"}

(* Nothing is under way that still decides about the request's outcome.    *)
Decided(r) == canceller[r] \in {"none", "done"} /\ router.on # r

(* A dispatched non-idempotent request whose outcome no caller observed    *)
(* never leaves a connection in use, unless the app-server is known to     *)
(* have refused it, however timeout, cancellation, response and disconnect *)
(* interleave (PROTOCOL_CONTRACT.md:104).                                  *)
OrphanFences ==
  \A r \in NonIdempotent \cap dispatched :
    Unobserved(r) /\ Decided(r) => link # "up" \/ (r \in heard /\ peer[r] = "refused")

(* A caller told of a disconnect or a shutdown may retry: its request was  *)
(* not carried out and will not be (fail_all's classification, the second  *)
(* test of shutdown_started in send_tracked), though a request that passed *)
(* that test may be marked and queued only after fail_all looked at it.    *)
(* One case is excepted, the one in which the message of the Disconnected  *)
(* says that the runtime termination failed: a surviving app-server may    *)
(* still read such a frame.                                                *)
HonestFailure ==
  \A r \in NonIdempotent :
    /\ report[r] = "shutdown" => peer[r] # "ok"
    /\ report[r] = "disconnected" => peer[r] # "ok" \/ app = "survived"

(* Once disconnect has failed the pending requests nobody is left to wait  *)
(* for a timeout: a caller that was admitted before the connection went    *)
(* down but registered after the drain is refused, never sent.             *)
NoWaiterLeft ==
  link = "cut" =>
    \A r \in Requests :
      caller[r] \in {"queued", "waiting"} =>
        channel[r] # "empty" \/ router.on = r

(* The parts of the inductive invariant.                                   *)

(* Until the caller dispatches it, a request is the caller's alone; its    *)
(* cancellation task exists only once the caller is gone.                  *)
CallerFirst ==
  \A r \in Requests :
    /\ caller[r] \in {"idle", "admitted", "registered", "cleared"} =>
         r \notin dispatched
    /\ caller[r] = "marked" => r \in dispatched
    /\ caller[r] = "overdue" => OperationDeadline
    /\ canceller[r] # "none" => caller[r] \in {"done", "dropped"}

(* The app-server answers what was written to it, once, and the router     *)
(* completes what it has read.                                             *)
AnsweredOnce ==
  /\ outbound \subseteq dispatched
  /\ \A r \in Requests :
       /\ caller[r] = "marked" => r \notin outbound
       /\ r \notin dispatched \/ caller[r] = "marked" \/ r \in outbound =>
            peer[r] = "none" /\ r \notin heard
       /\ r \in heard => peer[r] \in {"ok", "refused"}
       /\ router.on = r \/ channel[r] \in {"ok", "refused"} => r \in heard

(* The senders are stopped and the app-server is killed, or has survived,  *)
(* before anything is drained, and only the drain fails a waiter.  Who is  *)
(* told of a disconnect was not dispatched when the drain looked: if it is *)
(* by now, then to an app-server that is gone, or that survived the kill.  *)
Failable(r) == app = "survived" \/ (app = "gone" /\ peer[r] = "none")
NeverSent(r) == r \notin dispatched /\ caller[r] = "done"
StoppedBeforeDrain ==
  /\ link \notin {"up", "cutting"} => stopped
  /\ link \in {"killed", "draining", "cut"} => app # "running"
  /\ draining # {} => link = "draining"
  /\ \A r \in Requests :
       channel[r] \in {"unknown", "disconnected"} => link \in {"draining", "cut"}
  /\ \A r \in NonIdempotent :
       /\ channel[r] = "disconnected" => Failable(r)
       /\ report[r] = "disconnected" => Failable(r) \/ NeverSent(r)
       /\ report[r] = "shutdown" => NeverSent(r)

(* A caller that may be waiting is known to someone who will answer it,    *)
(* and after the drain that is no longer the pending map.                  *)
WaiterKnown ==
  \A r \in Requests :
    /\ caller[r] \in {"registered", "cleared", "marked", "queued", "waiting"} =>
         \/ r \in pending \/ r \in draining
         \/ channel[r] # "empty"
         \/ router = [on |-> r, step |-> "send"]
    /\ link \in {"draining", "cut"} /\ r \in pending =>
         caller[r] \notin {"cleared", "marked", "queued", "waiting"}

(* While the connection is up, a dispatched non-idempotent request is      *)
(* pending, marked a success, refused, or about to end the connection; and *)
(* whoever left it unobserved has its cancellation look at it.             *)
Refused(r) == r \in heard /\ peer[r] = "refused"
OutcomeTracked ==
  link = "up" => \A r \in NonIdempotent \cap dispatched :
    /\ \/ r \in pending \/ r \in success \/ Refused(r)
       \/ caller[r] = "fencing" \/ canceller[r] = "fencing"
    /\ Unobserved(r) => canceller[r] # "none"
    /\ canceller[r] = "done" => Refused(r)

RegistryInv ==
  /\ TypeOK
  /\ CallerFirst
  /\ AnsweredOnce
  /\ StoppedBeforeDrain
  /\ WaiterKnown

(* A caller that is dropped while its non-idempotent request is out takes  *)
(* the connection down, unless a refusal came in first.                    *)
LostOutcomeCuts ==
  \A r \in NonIdempotent :
    caller[r] = "dropped" /\ r \in dispatched
      ~> link # "up" \/ (r \in heard /\ peer[r] = "refused")

(* Every request that was admitted ends, whatever becomes of the           *)
(* app-server, the writer and the disconnect.                              *)
EveryRequestEnds ==
  \A r \in Requests :
    caller[r] = "admitted" ~> caller[r] \in {"done", "dropped"}
=============================================================================
