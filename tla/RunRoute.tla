------------------------------ MODULE RunRoute ------------------------------
(***************************************************************************)
(* The route of one thread's turn: src/src/session/run_state.rs, driven by *)
(* the router task (client/router.rs), by the caller of Session::start     *)
(* that replays what the router deferred (client.rs start_turn), by the    *)
(* holder of the Run handle, and by the tasks that interrupt a failed,     *)
(* late or abandoned turn.                                                 *)
(*                                                                         *)
(* Every routes-mutex section of the code is one step here.  Between two   *)
(* such sections any other task may run, so the replaying caller and the   *)
(* router interleave at every notification.                                *)
(*                                                                         *)
(* The runs of the thread are numbered in the order they are started, and  *)
(* the provider's turn of run r is called r.  The app-server's stdout is   *)
(* not a variable: a notification exists from the moment the router reads  *)
(* it, which is the first moment the client can tell.                      *)
(***************************************************************************)
EXTENDS Integers, Sequences, FiniteSets

CONSTANTS
  MaxRuns,        \* runs started on the thread (bound)
  MaxEvents,      \* notifications the provider sends for one turn (bound)
  MaxLate,        \* notifications of a turn after its terminal (bound)
  EventCapacity,  \* ClientConfig::event_capacity
  MaxOutput,      \* Session::maximum_output_bytes
  CallersAbort,   \* a caller may drop its future inside disconnect
  Items,          \* the payloads a notification may carry
  ImageIds        \* the identifiers of image generation items

Runs == 1..MaxRuns

ItemType ==
  [kind : {"text", "other"}, size : Nat]
    \cup [kind : {"image"}, id : ImageIds, size : Nat \ {0}]

ASSUME BoundsAssumption ==
  /\ MaxRuns \in Nat \ {0}
  /\ MaxEvents \in Nat
  /\ MaxLate \in Nat
  /\ EventCapacity \in Nat \ {0}
  /\ MaxOutput \in Nat
  /\ CallersAbort \in BOOLEAN
  /\ IsFiniteSet(ImageIds)
ASSUME ItemsAssumption == Items \subseteq ItemType

(* A notification: its turn, its place among the turn's events, its item.  *)
(* Terminals and events after the terminal have no place (0).              *)
EventNote == [kind : {"event"}, turn : Runs, place : Nat, item : Items]
TerminalNote == [kind : {"terminal"}, turn : Runs, status : {"ok", "error"}]
Note == EventNote \cup TerminalNote

Failure == {"none", "lagged", "closed", "output_limit", "timeout"}
Phase == {"starting", "replaying", "active", "ended"}
Watcher == {"failure", "abandon"}

VARIABLES
  route,        \* the thread's entry of RunRegistry::routes, or NoRoute
  starter,      \* where the caller of Session::start is
  batch,        \* the deferred notifications that caller is replaying
  started,      \* how many runs Session::start has registered
  active,       \* Session::active, shared by all runs of the session
  cancelling,   \* runs whose RegisteredRunGuard spawned cancel_registered_run
  events,       \* per run: the bounded channel to the Run handle
  received,     \* per run: what the handle took from the channel (history)
  terminal,     \* per run: the published result
  handle,       \* per run: who holds the receiving half
  abandoned,    \* per run: RunRoute::abandoned
  adopted,      \* per run: RUN_PROVIDER_TERMINAL of its RunControl
  interrupt,    \* per run: the one interrupt task of its RunControl
  sent,         \* per run: turn/interrupt requests written (history)
  watch,        \* per run: tasks in interrupt_and_wait_for_provider_terminal
  deadline,     \* per run: its turn deadline is armed
  link,         \* the connection: up, cutting (disconnect begun), cut (its
                \* drain done) or torn (its drain dropped half-way)
  fence,        \* a spawned task is about to call disconnect
  provider,     \* per run: the app-server's view of the turn
  emitted,      \* per run: the items of the events read for it (history)
  late          \* notifications read after their turn's terminal (history)

routeVars    == <<route, active, terminal, adopted>>
starterVars  == <<starter, batch, started, cancelling>>
consumerVars == <<received, handle, abandoned>>
taskVars     == <<interrupt, sent, watch, deadline>>
linkVars     == <<link, fence>>
providerVars == <<provider, emitted, late>>
vars == <<routeVars, starterVars, events, consumerVars, taskVars, linkVars,
          providerVars>>

NoTurn == 0
NoBytes == 0
NoImages == [i \in ImageIds |-> 0]

(* RunRegistry::register: the fresh entry.  A run number 0 means no entry. *)
FreshRoute(r) ==
  [run |-> r, phase |-> "starting", turn |-> NoTurn, deferred |-> <<>>,
   failure |-> "none", text |-> NoBytes, images |-> NoImages,
   imageBytes |-> NoBytes, deferredBytes |-> NoBytes, deferredBytesById |-> NoImages]
NoRoute == FreshRoute(0)
Registered == route.run # 0

NoResult == [status |-> "none", text |-> NoBytes, images |-> NoImages]
ErrResult == [status |-> "error", text |-> NoBytes, images |-> NoImages]

Init ==
  /\ route = NoRoute
  /\ starter = "idle"
  /\ batch = <<>>
  /\ started = 0
  /\ active = FALSE
  /\ cancelling = {}
  /\ events = [r \in Runs |-> <<>>]
  /\ received = [r \in Runs |-> <<>>]
  /\ terminal = [r \in Runs |-> NoResult]
  /\ handle = [r \in Runs |-> "none"]
  /\ abandoned = [r \in Runs |-> FALSE]
  /\ adopted = [r \in Runs |-> FALSE]
  /\ interrupt = [r \in Runs |-> "none"]
  /\ sent = [r \in Runs |-> 0]
  /\ watch = [r \in Runs |-> [w \in Watcher |-> "none"]]
  /\ deadline = [r \in Runs |-> FALSE]
  /\ link = "up"
  /\ fence = FALSE
  /\ provider = [r \in Runs |-> "none"]
  /\ emitted = [r \in Runs |-> <<>>]
  /\ late = 0

-----------------------------------------------------------------------------
(* RunRoute: what one notification does to the route.                      *)

\* Mutant: events bypass the queue while the caller still replays.
DeferringOnlyStarting == route.phase = "starting"
Deferring == route.phase \in {"starting", "replaying"}

(* The channel takes an event: it has room and its receiver is alive.      *)
ReceiverAlive(r) == handle[r] \in {"starting", "held"}
ChannelTakes(r) == ReceiverAlive(r) /\ Len(events[r]) < EventCapacity

(* record_failure: the first failure drops what is deferred and spawns     *)
(* interrupt_failed_run.                                                   *)
WithFailure(rt, cause) ==
  [rt EXCEPT !.failure = cause,
             !.deferred = IF Deferring THEN <<>> ELSE @,
             !.deferredBytes = NoBytes, !.deferredBytesById = NoImages]
FailRoute(rt, cause) ==
  /\ route' = WithFailure(rt, cause)
  /\ watch' = [watch EXCEPT ![rt.run].failure = "spawned"]

(* The guards of route_event_after_start that discard an event.            *)
Accepts(note) ==
  /\ Registered
  /\ route.turn \in {NoTurn, note.turn}
  /\ route.phase # "ended"
  /\ route.failure = "none"
  /\ ~abandoned[route.run]

KeptImages == {i \in ImageIds : route.images[i] # 0}

TextWith(item) == route.text + item.size
ImageBytesWith(item) ==
  route.imageBytes - route.images[item.id] + item.size
FitsOutput(item) ==
  CASE item.kind = "text" -> TextWith(item) + route.imageBytes <= MaxOutput
    [] item.kind = "image" ->
         /\ item.id \in KeptImages \/ Cardinality(KeptImages) < EventCapacity
         /\ route.text + ImageBytesWith(item) <= MaxOutput
    [] item.kind = "other" -> TRUE

Retained(item) ==
  CASE item.kind = "text" -> [route EXCEPT !.text = TextWith(item)]
    [] item.kind = "image" ->
         [route EXCEPT !.imageBytes = ImageBytesWith(item),
                       !.images[item.id] = item.size]
    [] item.kind = "other" -> route

(* route_event_after_start.                                                *)
PassEvent(note) ==
  \/ /\ ~Accepts(note)
     /\ UNCHANGED <<route, events, watch>>
  \/ /\ Accepts(note)
     /\ ~FitsOutput(note.item)
     /\ FailRoute(route, "output_limit")
     /\ UNCHANGED events
  \/ /\ Accepts(note)
     /\ FitsOutput(note.item)
     /\ ~ChannelTakes(route.run)
     /\ FailRoute(Retained(note.item),
                  IF ReceiverAlive(route.run) THEN "lagged" ELSE "closed")
     /\ UNCHANGED events
  \/ /\ Accepts(note)
     /\ FitsOutput(note.item)
     /\ ChannelTakes(route.run)
     /\ route' = Retained(note.item)
     /\ events' = [events EXCEPT ![route.run] = Append(@, note)]
     /\ UNCHANGED watch

(* Deferral keeps only the latest notification of each image, so one at    *)
(* most is superseded (RetainedBytesExact).                                *)
Superseded(note, item) ==
  /\ note.kind = "event"
  /\ note.item.kind = "image"
  /\ item.kind = "image"
  /\ note.item.id = item.id
Latest(queue, item) ==
  LET old == {n \in DOMAIN queue : Superseded(queue[n], item)}
      at == CHOOSE n \in old : TRUE
  IN  IF old = {} THEN queue
      ELSE SubSeq(queue, 1, at - 1) \o SubSeq(queue, at + 1, Len(queue))

\* Mutant: the replaced payload is still counted.
DeferredBytesKept(item) == route.deferredBytes + item.size

DeferredBytesWith(item) ==
  route.deferredBytes - route.deferredBytesById[item.id] + item.size
FitsDeferral(item) ==
  item.kind = "image" => DeferredBytesWith(item) <= MaxOutput

(* route_event with defer_while_starting, before the turn is active.       *)
DeferEvent(note) ==
  LET rest == Latest(route.deferred, note.item)
      counted == IF note.item.kind = "image"
                 THEN [route EXCEPT
                         !.deferredBytes = DeferredBytesWith(note.item),
                         !.deferredBytesById[note.item.id] = note.item.size]
                 ELSE route
  IN  \/ /\ ~FitsDeferral(note.item)
         /\ FailRoute(route, "output_limit")
      \/ /\ FitsDeferral(note.item)
         /\ Len(rest) >= EventCapacity
         /\ FailRoute(counted, "lagged")
      \/ /\ FitsDeferral(note.item)
         /\ Len(rest) < EventCapacity
         /\ route' = [counted EXCEPT !.deferred = Append(rest, note)]
         /\ UNCHANGED watch

RouteEvent(note, defer) ==
  IF defer /\ Registered /\ route.failure = "none" /\ Deferring
  THEN DeferEvent(note) /\ UNCHANGED events
  ELSE PassEvent(note)

\* Mutant: the provider's status hides a recorded failure.
ResultOfProvider(note, overflow) ==
  IF note.status = "error" THEN ErrResult
  ELSE [status |-> "ok", text |-> route.text, images |-> route.images]

(* The result of a terminal: a recorded failure wins over what the         *)
(* provider says.                                                          *)
ResultOf(note, overflow) ==
  IF route.failure # "none" \/ overflow \/ note.status = "error"
  THEN ErrResult
  ELSE [status |-> "ok", text |-> route.text, images |-> route.images]

\* Mutant: a terminal is not checked against the turn it already ended.
SettledForgotten == FALSE
Settled == route.phase = "ended"

(* RunRegistry::route_terminal once the notification is not deferred.      *)
AdoptTerminal(note, overflow) ==
  \/ /\ ~Registered
     /\ UNCHANGED <<routeVars, fence>>
  \/ /\ Registered /\ Settled                                \* Duplicate
     /\ fence' = TRUE
     /\ UNCHANGED routeVars
  \/ /\ Registered /\ ~Settled
     /\ route.turn \notin {NoTurn, note.turn}             \* TurnMismatch
     /\ route' = [route EXCEPT !.deferred = IF overflow THEN <<>> ELSE @]
     /\ UNCHANGED <<active, terminal, adopted, fence>>
  \/ /\ Registered /\ ~Settled
     /\ route.turn \in {NoTurn, note.turn}
     /\ terminal' = [terminal EXCEPT ![route.run] = ResultOf(note, overflow)]
     /\ adopted' = [adopted EXCEPT ![route.run] = TRUE]
     /\ active' = FALSE
     /\ route' = IF route.phase = "starting"
                 THEN [route EXCEPT !.phase = "ended", !.turn = note.turn,
                                    !.failure = "none", !.deferred = <<>>]
                 ELSE NoRoute
     /\ UNCHANGED fence

RouteTerminal(note, defer) ==
  LET deferrable == /\ defer /\ Registered
                    /\ route.failure = "none" /\ Deferring
  IN  IF deferrable /\ Len(route.deferred) < EventCapacity
      THEN /\ route' = [route EXCEPT !.deferred = Append(@, note)]
           /\ UNCHANGED <<active, terminal, adopted, fence>>
      ELSE AdoptTerminal(note, deferrable)

-----------------------------------------------------------------------------
(* Session::start and the caller that awaits it.                           *)

(* The lifecycle locks are held from here until the caller's future ends.  *)
Start ==
  LET r == started + 1 IN
  /\ starter = "idle" /\ ~active /\ ~Registered
  /\ started < MaxRuns
  /\ started' = r
  /\ active' = TRUE
  /\ route' = FreshRoute(r)
  /\ handle' = [handle EXCEPT ![r] = "starting"]
  /\ starter' = "sending"
  /\ UNCHANGED <<batch, cancelling, terminal, adopted, events, received,
                 abandoned, taskVars, linkVars, providerVars>>

(* send_tracked writes turn/start; a closed connection refuses it.         *)
SendTurnStart ==
  /\ starter = "sending"
  /\ IF link = "up"
     THEN /\ starter' = "requesting"
          /\ provider' = [provider EXCEPT ![started] = "open"]
     ELSE starter' = "refused" /\ UNCHANGED provider
  /\ UNCHANGED <<routeVars, batch, started, cancelling, events, consumerVars,
                 taskVars, linkVars, emitted, late>>

(* The request timeout: a dispatched turn/start has an unknown outcome, so *)
(* the caller disconnects before it returns.                               *)
RequestTimeout ==
  /\ starter = "requesting"
  /\ starter' = "timedout"
  /\ fence' = (fence \/ link = "up")
  /\ UNCHANGED <<routeVars, batch, started, cancelling, events, consumerVars,
                 taskVars, link, providerVars>>

(* requests.fail_all of disconnect reaches the pending turn/start, or the  *)
(* caller that timed out returns from disconnect.                          *)
DrainRequest ==
  /\ \/ starter = "requesting" /\ link \in {"cutting", "cut"}
     \/ starter = "timedout" /\ link # "up"
  /\ starter' = "refused"
  /\ UNCHANGED <<routeVars, batch, started, cancelling, events, consumerVars,
                 taskVars, linkVars, providerVars>>

\* Mutant: nobody cleans up after a start that failed.
AbandonStartQuietly ==
  /\ starter' = "idle"
  /\ batch' = <<>>
  /\ handle' = [handle EXCEPT ![started] = "dropped"]
  /\ UNCHANGED <<started, cancelling, received, abandoned>>

(* The caller leaves Session::start without a handle: RegisteredRunGuard   *)
(* spawns cancel_registered_run.                                           *)
AbandonStart ==
  /\ starter' = "idle"
  /\ batch' = <<>>
  /\ cancelling' = cancelling \cup {started}
  /\ handle' = [handle EXCEPT ![started] = "dropped"]
  /\ UNCHANGED <<started, received, abandoned>>

\* Mutant: a refused start frees the thread at once.
RefusedRouteGone == NoRoute
(* The entry stays until cancel_registered_run removes it.                 *)
RefusedRoute == [route EXCEPT !.phase = "ended", !.deferred = <<>>]

(* fail_registered_run_before_turn.                                        *)
RefuseStart ==
  /\ starter = "refused"
  /\ AbandonStart
  /\ CASE Registered /\ route.phase = "starting" ->
            /\ adopted' = [adopted EXCEPT ![route.run] = TRUE]
            /\ active' = FALSE
            /\ terminal' = [terminal EXCEPT ![route.run] = ErrResult]
            /\ route' = RefusedRoute
            /\ UNCHANGED fence
       [] Registered /\ route.phase \in {"replaying", "active"} ->
            fence' = TRUE /\ UNCHANGED routeVars
       [] OTHER -> UNCHANGED <<routeVars, fence>>
  /\ UNCHANGED <<events, taskVars, link, providerVars>>

(* The caller's future is dropped.  Only a request that was dispatched and *)
(* not refused may have created a turn: its guard fences the connection.   *)
CancelStart ==
  /\ starter \in {"sending", "requesting", "timedout", "acknowledging",
                  "refused"}
  /\ AbandonStart
  /\ fence' = (fence \/ starter \in {"requesting", "acknowledging"})
  /\ UNCHANGED <<routeVars, events, taskVars, link, providerVars>>

(* start_turn returns Ok: Run::new arms the turn deadline.                 *)
HandOver ==
  /\ starter' = "idle"
  /\ batch' = <<>>
  /\ handle' = [handle EXCEPT ![started] = "held"]
  /\ deadline' = [deadline EXCEPT ![started] = TRUE]

(* acknowledge_start.                                                      *)
AcknowledgeStart ==
  /\ starter = "acknowledging"
  /\ \/ /\ Registered /\ route.phase = "starting"
        /\ route' = [route EXCEPT !.phase = "replaying", !.turn = started,
                       !.deferred = <<>>, !.deferredBytes = NoBytes,
                       !.deferredBytesById = NoImages]
        /\ batch' = route.deferred
        /\ starter' = "replaying"
        /\ UNCHANGED <<started, cancelling, consumerVars, deadline, fence>>
     \/ /\ Registered /\ route.phase = "ended"
        /\ route.turn \in {NoTurn, started}
        /\ route' = NoRoute
        /\ HandOver
        /\ UNCHANGED <<started, cancelling, received, abandoned, fence>>
     \/ /\ ~(Registered /\ route.phase = "starting")
        /\ ~(/\ Registered /\ route.phase = "ended"
             /\ route.turn \in {NoTurn, started})
        /\ fence' = TRUE
        /\ AbandonStart
        /\ UNCHANGED <<route, deadline>>
  /\ UNCHANGED <<active, terminal, adopted, events, interrupt, sent, watch,
                 link, providerVars>>

(* replay_deferred_run_notifications: one deferred notification.           *)
ReplayOne ==
  /\ starter = "replaying"
  /\ batch # <<>>
  /\ batch' = Tail(batch)
  /\ \/ /\ Head(batch).kind = "event"
        /\ RouteEvent(Head(batch), FALSE)
        /\ UNCHANGED <<active, terminal, adopted, fence>>
     \/ /\ Head(batch).kind = "terminal"
        /\ RouteTerminal(Head(batch), FALSE)
        /\ UNCHANGED <<events, watch>>
  /\ UNCHANGED <<starter, started, cancelling, consumerVars, interrupt, sent,
                 deadline, link, providerVars>>

(* replay_transition: take what the router deferred meanwhile, or activate *)
(* the turn in the same critical section that saw the queue empty.         *)
ReplayTransition ==
  /\ starter = "replaying"
  /\ batch = <<>>
  /\ \/ /\ Registered /\ route.phase = "replaying" /\ route.deferred # <<>>
        /\ batch' = route.deferred
        /\ route' = [route EXCEPT !.deferred = <<>>, !.deferredBytes = NoBytes,
                                  !.deferredBytesById = NoImages]
        /\ UNCHANGED <<starter, handle, deadline>>
     \/ /\ Registered /\ route.phase = "replaying" /\ route.deferred = <<>>
        /\ route' = [route EXCEPT !.phase = "active"]
        /\ HandOver
     \/ /\ ~(Registered /\ route.phase = "replaying")          \* Stopped
        /\ HandOver
        /\ UNCHANGED route
  /\ UNCHANGED <<active, terminal, adopted, started, cancelling, events,
                 received, abandoned, interrupt, sent, watch, linkVars,
                 providerVars>>

(* cancel_registered_run: keyed by the thread, it meets whatever route the *)
(* thread has when the spawned task runs.                                  *)
CancelRegistered(r) ==
  /\ r \in cancelling
  /\ cancelling' = cancelling \ {r}
  /\ CASE Registered /\ route.phase \in {"starting", "ended"} ->
            /\ adopted' = [adopted EXCEPT ![route.run] = TRUE]
            /\ active' = FALSE
            /\ route' = NoRoute
            /\ UNCHANGED <<abandoned, watch>>
       [] Registered /\ route.phase \in {"replaying", "active"} ->
            /\ abandoned' = [abandoned EXCEPT ![route.run] = TRUE]
            /\ watch' = [watch EXCEPT ![route.run].abandon = "spawned"]
            /\ UNCHANGED <<adopted, active, route>>
       [] OTHER -> UNCHANGED <<adopted, active, route, abandoned, watch>>
  /\ UNCHANGED <<starter, batch, started, terminal, events, received, handle,
                 interrupt, sent, deadline, linkVars, providerVars>>

-----------------------------------------------------------------------------
(* The router task: router_loop reads the next message of the app-server.  *)

ReadEvent(r) ==
  /\ provider[r] = "open"
  /\ Len(emitted[r]) < MaxEvents
  /\ \E item \in Items :
       /\ emitted' = [emitted EXCEPT ![r] = Append(@, item)]
       /\ RouteEvent([kind |-> "event", turn |-> r,
                      place |-> Len(emitted[r]) + 1, item |-> item], TRUE)
  /\ UNCHANGED <<active, terminal, adopted, starterVars, consumerVars,
                 interrupt, sent, deadline, linkVars, provider, late>>

ReadTerminal(r) ==
  /\ provider[r] = "open"
  /\ provider' = [provider EXCEPT ![r] = "ended"]
  /\ \E status \in {"ok", "error"} :
       RouteTerminal([kind |-> "terminal", turn |-> r, status |-> status],
                     TRUE)
  /\ UNCHANGED <<starterVars, events, consumerVars, taskVars, link, emitted,
                 late>>

(* What the app-server still says of a turn it has ended.                  *)
ReadLate(r) ==
  /\ provider[r] = "ended"
  /\ late < MaxLate
  /\ late' = late + 1
  /\ \/ /\ \E item \in Items :
             RouteEvent([kind |-> "event", turn |-> r, place |-> 0,
                         item |-> item], TRUE)
        /\ UNCHANGED <<active, terminal, adopted, fence>>
     \/ /\ RouteTerminal([kind |-> "terminal", turn |-> r, status |-> "ok"],
                         TRUE)
        /\ UNCHANGED <<events, watch>>
  /\ UNCHANGED <<starterVars, consumerVars, interrupt, sent, deadline, link,
                 provider, emitted>>

(* The response to turn/start completes the waiting request.               *)
ReadResponse ==
  /\ starter = "requesting"
  /\ \/ starter' = "acknowledging" /\ UNCHANGED provider
     \/ /\ provider[started] = "open"
        /\ provider' = [provider EXCEPT ![started] = "refused"]
        /\ starter' = "refused"
  /\ UNCHANGED <<routeVars, batch, started, cancelling, events, consumerVars,
                 taskVars, linkVars, emitted, late>>

-----------------------------------------------------------------------------
(* The holder of the Run.                                                  *)

(* Run::next_event.                                                        *)
Receive(r) ==
  /\ handle[r] = "held"
  /\ events[r] # <<>>
  /\ received' = [received EXCEPT ![r] = Append(@, Head(events[r]))]
  /\ events' = [events EXCEPT ![r] = Tail(@)]
  /\ UNCHANGED <<routeVars, starterVars, handle, abandoned, taskVars,
                 linkVars, providerVars>>

(* The channel ends only once the route, which owns its sender, is gone.   *)
ReceiveTerminal(r) ==
  /\ handle[r] = "held"
  /\ events[r] = <<>>
  /\ route.run # r
  /\ terminal[r].status # "none"
  /\ handle' = [handle EXCEPT ![r] = "finished"]
  /\ UNCHANGED <<routeVars, starterVars, events, received, abandoned,
                 taskVars, linkVars, providerVars>>

(* Drop for Run.  active is the session's flag: a run started later on the *)
(* thread sets it again.                                                   *)
DropRun(r) ==
  /\ handle[r] \in {"held", "finished"}
  /\ handle' = [handle EXCEPT ![r] = "dropped"]
  /\ events' = [events EXCEPT ![r] = <<>>]
  /\ IF active /\ ~abandoned[r]
     THEN /\ abandoned' = [abandoned EXCEPT ![r] = TRUE]
          /\ watch' = [watch EXCEPT ![r].abandon = "spawned"]
     ELSE UNCHANGED <<abandoned, watch>>
  /\ UNCHANGED <<routeVars, starterVars, received, interrupt, sent, deadline,
                 linkVars, providerVars>>

\* Mutant: the started bit is not tested.
TryStartInterruptAgain(r) ==
  interrupt' = IF ~adopted[r]
               THEN [interrupt EXCEPT ![r] = "spawned"]
               ELSE interrupt

(* RunControl::try_start_interrupt and the task it lets interrupt_run      *)
(* spawn.                                                                  *)
TryStartInterrupt(r) ==
  interrupt' = IF interrupt[r] = "none" /\ ~adopted[r]
               THEN [interrupt EXCEPT ![r] = "spawned"]
               ELSE interrupt

(* Run::interrupt.                                                         *)
UserInterrupt(r) ==
  /\ handle[r] \in {"held", "finished"}
  /\ active \/ interrupt[r] # "none"
  /\ TryStartInterrupt(r)
  /\ UNCHANGED <<routeVars, starterVars, events, consumerVars, sent, watch,
                 deadline, linkVars, providerVars>>

-----------------------------------------------------------------------------
(* The tasks of a turn.                                                    *)

(* The interrupt task adopts a terminal that is already there; otherwise   *)
(* it writes turn/interrupt.                                               *)
InterruptTask(r) ==
  /\ interrupt[r] = "spawned"
  /\ interrupt' = [interrupt EXCEPT ![r] = "done"]
  /\ sent' = [sent EXCEPT ![r] = @ + (IF adopted[r] \/ link # "up"
                                      THEN 0 ELSE 1)]
  /\ UNCHANGED <<routeVars, starterVars, events, consumerVars, watch,
                 deadline, linkVars, providerVars>>

(* tracks_abandoned_turn.                                                  *)
TracksAbandoned(r) == route.run = r /\ abandoned[r]

(* interrupt_failed_run and abandon_run up to their wait.                  *)
WatchBegin(r, w) ==
  /\ watch[r][w] = "spawned"
  /\ IF link = "up" /\ (w = "abandon" => TracksAbandoned(r))
     THEN /\ watch' = [watch EXCEPT ![r][w] = "waiting"]
          /\ TryStartInterrupt(r)
     ELSE watch' = [watch EXCEPT ![r][w] = "none"] /\ UNCHANGED interrupt
  /\ UNCHANGED <<routeVars, starterVars, events, consumerVars, sent, deadline,
                 linkVars, providerVars>>

\* Mutant: the wait gives up without ending the connection.
WatchEndSilent(r, w) ==
  /\ watch[r][w] = "waiting"
  /\ watch' = [watch EXCEPT ![r][w] = "none"]
  /\ UNCHANGED <<routeVars, starterVars, events, consumerVars, interrupt,
                 sent, deadline, linkVars, providerVars>>

(* wait_for_provider_terminal: the terminal, or shutdown_timeout first.    *)
WatchEnd(r, w) ==
  /\ watch[r][w] = "waiting"
  /\ watch' = [watch EXCEPT ![r][w] = "none"]
  /\ \/ adopted[r] /\ UNCHANGED fence
     \/ ~adopted[r] /\ fence' = (fence \/ link = "up")
  /\ UNCHANGED <<routeVars, starterVars, events, consumerVars, interrupt,
                 sent, deadline, link, providerVars>>

(* arm_run_deadline: turn_timeout, then fail_active.                       *)
DeadlineExpires(r) ==
  /\ deadline[r]
  /\ deadline' = [deadline EXCEPT ![r] = FALSE]
  /\ IF /\ route.run = r /\ route.phase # "ended" /\ route.turn = r
        /\ route.failure = "none" /\ ~adopted[r]
     THEN /\ route' = [route EXCEPT !.failure = "timeout"]
          /\ watch' = [watch EXCEPT ![r].failure = "spawned"]
     ELSE UNCHANGED <<route, watch>>
  /\ UNCHANGED <<active, terminal, adopted, starterVars, events, consumerVars,
                 interrupt, sent, linkVars, providerVars>>

-----------------------------------------------------------------------------
(* The connection.                                                         *)

(* begin_disconnect, by a fencing task or by the end of the process.       *)
BeginDisconnect ==
  /\ link = "up"
  /\ link' = "cutting"
  /\ fence' = FALSE
  /\ UNCHANGED <<routeVars, starterVars, events, consumerVars, taskVars,
                 providerVars>>

(* disconnect is awaited inline by the callers that meet a fatal outcome:  *)
(* whoever drops such a future drops the rest of disconnect with it, and   *)
(* begin_disconnect lets nobody else take it over.                         *)
AbortDisconnect ==
  /\ CallersAbort
  /\ link = "cutting"
  /\ link' = "torn"
  /\ UNCHANGED <<routeVars, starterVars, events, consumerVars, taskVars, fence,
                 providerVars>>

(* A result that is already published stays.                               *)
FailedTerminal(r) ==
  IF terminal[r].status = "none"
  THEN [terminal EXCEPT ![r] = ErrResult] ELSE terminal

(* RunRegistry::fail_all, after the pending requests were failed.          *)
FailAllRuns ==
  /\ link = "cutting"
  /\ starter # "requesting"
  /\ link' = "cut"
  /\ IF Registered
     THEN /\ adopted' = [adopted EXCEPT ![route.run] = TRUE]
          /\ active' = FALSE
          /\ terminal' = FailedTerminal(route.run)
          /\ route' = NoRoute
     ELSE UNCHANGED routeVars
  /\ UNCHANGED <<starterVars, events, consumerVars, taskVars, fence,
                 providerVars>>

-----------------------------------------------------------------------------
Starter == \/ SendTurnStart \/ RequestTimeout \/ DrainRequest
           \/ RefuseStart \/ AcknowledgeStart \/ ReplayOne \/ ReplayTransition
Task(r) == \/ CancelRegistered(r) \/ InterruptTask(r)
           \/ \E w \in Watcher : WatchBegin(r, w) \/ WatchEnd(r, w)

Next ==
  \/ Start
  \/ SendTurnStart
  \/ RequestTimeout
  \/ DrainRequest
  \/ RefuseStart
  \/ CancelStart
  \/ AcknowledgeStart
  \/ ReplayOne
  \/ ReplayTransition
  \/ ReadResponse
  \/ BeginDisconnect
  \/ AbortDisconnect
  \/ FailAllRuns
  \/ \E r \in Runs :
       \/ CancelRegistered(r)
       \/ ReadEvent(r)
       \/ ReadTerminal(r)
       \/ ReadLate(r)
       \/ Receive(r)
       \/ ReceiveTerminal(r)
       \/ DropRun(r)
       \/ UserInterrupt(r)
       \/ InterruptTask(r)
       \/ DeadlineExpires(r)
       \/ \E w \in Watcher : WatchBegin(r, w) \/ WatchEnd(r, w)

Spec == Init /\ [][Next]_vars

(* An app-server that speaks of no turn but the current one, and of that   *)
(* one nothing after its terminal.                                         *)
SpeaksInTurn ==
  /\ late' = late
  /\ \A r \in Runs : r # started => UNCHANGED <<emitted[r], provider[r]>>
OrderlySpec == Init /\ [][Next /\ SpeaksInTurn]_vars

(* Fairness: every spawned task runs, the caller's own task is polled once *)
(* its request is answered, timers fire, and a task that decided to        *)
(* disconnect does.  Nothing is assumed of the app-server, of the user, or *)
(* of the router's messages.                                               *)
Fairness ==
  /\ WF_vars(Starter)
  /\ \A r \in Runs : WF_vars(Task(r)) /\ WF_vars(DeadlineExpires(r))
  /\ WF_vars(fence /\ BeginDisconnect)
  /\ WF_vars(FailAllRuns)
FairSpec == Spec /\ Fairness

-----------------------------------------------------------------------------
(* Type invariant: every variable holds what the code's type can hold.     *)
RouteType ==
  [run : 0..MaxRuns, phase : Phase, turn : 0..MaxRuns, deferred : Seq(Note),
   failure : Failure, text : Nat, images : [ImageIds -> Nat],
   imageBytes : Int, deferredBytes : Int,
   deferredBytesById : [ImageIds -> Nat]]
ResultType ==
  [status : {"none", "ok", "error"}, text : Nat, images : [ImageIds -> Nat]]

RouteVarsType ==
  /\ route \in RouteType
  /\ active \in BOOLEAN
  /\ terminal \in [Runs -> ResultType]
  /\ adopted \in [Runs -> BOOLEAN]
StarterType ==
  /\ starter \in {"idle", "sending", "requesting", "timedout",
                  "acknowledging", "refused", "replaying"}
  /\ batch \in Seq(Note)
  /\ started \in 0..MaxRuns
  /\ starter # "idle" => started \in Runs
  /\ cancelling \subseteq Runs
EventsType == [Runs -> Seq(EventNote)]
ConsumerType ==
  /\ events \in EventsType
  /\ received \in EventsType
  /\ handle \in
       [Runs -> {"none", "starting", "held", "finished", "dropped"}]
  /\ abandoned \in [Runs -> BOOLEAN]
WatchType == [Runs -> [Watcher -> {"none", "spawned", "waiting"}]]
TaskType ==
  /\ interrupt \in [Runs -> {"none", "spawned", "done"}]
  /\ sent \in [Runs -> Nat]
  /\ watch \in WatchType
  /\ deadline \in [Runs -> BOOLEAN]
LinkType ==
  /\ link \in {"up", "cutting", "cut", "torn"}
  /\ fence \in BOOLEAN
ProviderType ==
  /\ provider \in [Runs -> {"none", "open", "refused", "ended"}]
  /\ emitted \in [Runs -> Seq(Items)]
  /\ late \in Nat

TypeOK ==
  /\ RouteVarsType
  /\ StarterType
  /\ ConsumerType
  /\ TaskType
  /\ LinkType
  /\ ProviderType

-----------------------------------------------------------------------------
(* Safety.                                                                 *)

(* What reached run r's consumer side, oldest first.                       *)
Seen(r) == received[r] \o events[r]
Places(notes) == {notes[i].place : i \in DOMAIN notes}

(* Images a later notification of the same item replaces.                  *)
Replaced(r, n) ==
  /\ emitted[r][n].kind = "image"
  /\ \E m \in (n + 1)..Len(emitted[r]) :
       /\ emitted[r][m].kind = "image"
       /\ emitted[r][m].id = emitted[r][n].id

(* A run's events reach its handle in the order the router read them and,  *)
(* image lifecycles that were replaced aside, without a gap, although the  *)
(* first ones are replayed by the caller of Session::start while the       *)
(* router keeps reading (acknowledge_start, replay_transition).            *)
DeliveredInOrderWithoutGaps ==
  \A r \in Runs : handle[r] \in {"starting", "held", "finished"} =>
    /\ \A i, j \in DOMAIN Seen(r) :
         i < j => Seen(r)[i].place < Seen(r)[j].place
    /\ \A i \in DOMAIN Seen(r) :
         /\ Seen(r)[i].turn = r
         /\ \A n \in 1..(Seen(r)[i].place - 1) :
              Replaced(r, n) \/ n \in Places(Seen(r))

TextOf(items) ==
  LET Size(item) == IF item.kind = "text" THEN item.size ELSE 0
      Total[n \in 0..Len(items)] ==
        IF n = 0 THEN 0 ELSE Total[n - 1] + Size(items[n])
  IN  Total[Len(items)]

LatestImages(items) ==
  [i \in ImageIds |->
     LET places == {n \in DOMAIN items :
                      items[n].kind = "image" /\ items[n].id = i}
     IN  IF places = {} THEN 0
         ELSE items[CHOOSE n \in places : \A m \in places : m <= n].size]

(* A run that ends Ok hides nothing: its text is the concatenation of all  *)
(* the turn's deltas, its images are the latest of each item, and every    *)
(* event it did not replace is in the handle's stream (RunResult,          *)
(* route_terminal).                                                        *)
SuccessIsComplete ==
  \A r \in Runs :
    terminal[r].status = "ok" /\ ~abandoned[r] /\ handle[r] # "dropped" =>
      /\ terminal[r].text = TextOf(emitted[r])
      /\ terminal[r].images = LatestImages(emitted[r])
      /\ \A n \in DOMAIN emitted[r] :
           Replaced(r, n) \/ n \in Places(Seen(r))

TotalBytes(sizes) ==
  LET Sum[S \in SUBSET ImageIds] ==
        IF S = {} THEN 0
        ELSE LET i == CHOOSE i \in S : TRUE IN sizes[i] + Sum[S \ {i}]
  IN  Sum[ImageIds]

DeferredImages(i) ==
  {n \in DOMAIN route.deferred :
     /\ route.deferred[n].kind = "event"
     /\ route.deferred[n].item.kind = "image"
     /\ route.deferred[n].item.id = i}

(* The limits route_event and route_event_after_start enforce by counters  *)
(* they add to and subtract from bound the memory of a turn: queue         *)
(* lengths, retained output, and the latest payload of each deferred image *)
RetainedWithinLimits ==
  /\ Len(route.deferred) <= EventCapacity
  /\ \A r \in Runs : Len(events[r]) <= EventCapacity
  /\ route.text + route.imageBytes <= MaxOutput
  /\ route.imageBytes = TotalBytes(route.images)
  /\ route.deferredBytes = TotalBytes(route.deferredBytesById)
  /\ route.deferredBytes <= MaxOutput

(* The deferral of images counts exactly what is deferred: at most one     *)
(* notification of each image, and its size.                               *)
DeferredImagesCounted ==
  Registered /\ Deferring => \A i \in ImageIds :
    /\ Cardinality(DeferredImages(i)) <= 1
    /\ route.deferredBytesById[i] # 0 <=> DeferredImages(i) # {}
    /\ \A n \in DeferredImages(i) :
         route.deferred[n].item.size = route.deferredBytesById[i]

(* Both: what the route retains is what its counters say, within limits.   *)
RetainedBytesExact == RetainedWithinLimits /\ DeferredImagesCounted

(* Session::active, which start and close consult without the routes       *)
(* mutex, is set exactly while the thread's route still expects a          *)
(* terminal, whichever of the seven places that end a route ran.           *)
ActiveTracksRoute == active <=> Registered /\ route.phase # "ended"

(* cancel_registered_run names only the thread: while the connection is    *)
(* up, a late one still finds the route of the start that spawned it and   *)
(* never a later run's.                                                    *)
CancelMeetsOwnRun ==
  link = "up" =>
    \A r \in cancelling : Registered => route.run = r

(* The strengthenings that make these two inductive.  Once a route has     *)
(* ended but stays registered, its result is published already; and, while *)
(* the connection is up, a start that failed or was dropped keeps the      *)
(* thread's route until its own cleanup removes it, so no other start gets *)
(* in between.                                                             *)
EndedIsSettled ==
  Registered /\ route.phase = "ended" => terminal[route.run].status # "none"
HoldsRoute(r) == route.run = r /\ route.phase \in {"starting", "ended"}
StartHoldsRoute ==
  link = "up" =>
    /\ starter \notin {"idle", "replaying"} => HoldsRoute(started)
    /\ \A r \in cancelling : starter = "idle" /\ HoldsRoute(r)

(* One turn/interrupt per turn, whoever asks: the Run, its drop, a queue   *)
(* or output failure, the deadline (PROTOCOL_CONTRACT.md, turn 중단).      *)
AtMostOneInterrupt == \A r \in Runs : sent[r] <= 1

(* What keeps it: a request is written by the run's only interrupt task.   *)
WrittenByTask == \A r \in Runs :
  sent[r] = 0 \/ (sent[r] = 1 /\ interrupt[r] = "done")

(* The inductive invariant.                                                *)
RouteInv ==
  /\ TypeOK
  /\ ActiveTracksRoute
  /\ EndedIsSettled
  /\ StartHoldsRoute
  /\ WrittenByTask

(* Whatever interleaves, a turn's outcome is published once, only for the  *)
(* turn that owns the thread, in the step that frees the thread (the       *)
(* functions of RunRegistry that end a route).                             *)
Ownership == INSTANCE TurnOwnership WITH
  claimed <- started,
  owner   <- IF active THEN route.run ELSE 0,
  outcome <- [r \in Runs |-> terminal[r].status]
ImplementsOwnership == Ownership!Spec

(* The turn's own terminal, once the router has read it, is adopted or     *)
(* waits its turn among the deferred notifications: it is never discarded  *)
(* while the route is still waiting for it (PROTOCOL_CONTRACT.md,          *)
(* terminal 소유권).                                                       *)
HoldsTerminal(notes, r) ==
  \E i \in DOMAIN notes : notes[i].kind = "terminal" /\ notes[i].turn = r
TerminalNotDiscarded ==
  \A r \in Runs :
    /\ route.run = r /\ route.phase # "ended" /\ provider[r] = "ended"
    => HoldsTerminal(route.deferred, r) \/ HoldsTerminal(batch, r)

-----------------------------------------------------------------------------
(* Liveness.                                                               *)

(* A run whose handle was given out gets a result, even if the app-server  *)
(* never speaks again: by its terminal, or by the deadline, the interrupt  *)
(* and the wait that ends in disconnect.                                   *)
HeldRunEnds ==
  \A r \in Runs :
    handle[r] = "held" ~>
      terminal[r].status # "none" \/ handle[r] = "dropped"

(* A run whose handle was dropped, or was never given out because its      *)
(* start failed, does not keep its session busy: its route goes away.      *)
DroppedRunFreesThread ==
  \A r \in Runs : handle[r] = "dropped" ~> route.run # r

=============================================================================
