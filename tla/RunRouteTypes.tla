--------------------------- MODULE RunRouteTypes ---------------------------
(***************************************************************************)
(* Type correctness of the route of a turn (RunRoute), for every number of *)
(* runs and events, every capacity and limit, and every set of payloads.   *)
(***************************************************************************)
EXTENDS RunRoute, TLAPS

(* What Items may hold, in the form the proofs use it.                     *)
LEMMA ItemFacts ==
  ASSUME NEW item \in Items
  PROVE  /\ item.kind \in {"text", "image", "other"}
         /\ item.size \in Nat
         /\ item.kind = "image" => item.id \in ImageIds
BY ItemsAssumption DEF ItemType

(* The zero values of a fresh route (RunRegistry::register) have the      *)
(* counters' types.                                                       *)
LEMMA Zeros == NoBytes \in Nat /\ NoBytes \in Int /\ NoTurn \in 0..MaxRuns
               /\ NoImages \in [ImageIds -> Nat]
BY BoundsAssumption DEF NoBytes, NoTurn, NoImages

(* Retaining an event leaves the entry well-typed and the run in place.    *)
LEMMA RetainedFacts ==
  ASSUME route \in RouteType, NEW item \in Items
  PROVE  /\ Retained(item) \in RouteType
         /\ Retained(item).run = route.run
         /\ Retained(item).phase = route.phase
         /\ Retained(item).turn = route.turn
<1>1. CASE item.kind = "text"
  <2>1. TextWith(item) \in Nat
    BY ItemFacts DEF TextWith, RouteType
  <2> QED BY <1>1, <2>1 DEF Retained, RouteType
<1>2. CASE item.kind = "image"
  <2>1. ImageBytesWith(item) \in Int
    BY <1>2, ItemFacts DEF ImageBytesWith, RouteType
  <2>2. item.id \in ImageIds /\ item.size \in Nat
    BY <1>2, ItemFacts
  <2> QED BY <1>2, <2>1, <2>2 DEF Retained, RouteType
<1>3. CASE item.kind = "other"
  BY <1>3 DEF Retained, RouteType
<1> QED BY <1>1, <1>2, <1>3, ItemFacts

(* record_failure keeps the route's type, its run and its phase.          *)
LEMMA WithFailureFacts ==
  ASSUME NEW rt \in RouteType, NEW cause \in Failure
  PROVE  /\ WithFailure(rt, cause) \in RouteType
         /\ WithFailure(rt, cause).run = rt.run
         /\ WithFailure(rt, cause).phase = rt.phase
         /\ WithFailure(rt, cause).turn = rt.turn
<1> DEFINE rest == IF Deferring THEN <<>> ELSE rt.deferred
<1>1. rest \in Seq(Note)
  BY DEF RouteType
<1> HIDE DEF rest
<1>2. /\ [rt EXCEPT !.failure = cause, !.deferred = rest,
                    !.deferredBytes = NoBytes, !.deferredBytesById = NoImages]
           \in RouteType
      /\ [rt EXCEPT !.failure = cause, !.deferred = rest,
                    !.deferredBytes = NoBytes, !.deferredBytesById = NoImages]
           = WithFailure(rt, cause)
  BY <1>1, Zeros DEF RouteType, WithFailure, rest
<1> QED BY <1>2 DEF RouteType, WithFailure

(* Replacing a deferred image notification leaves a sequence of           *)
(* notifications.                                                         *)
LEMMA LatestType ==
  ASSUME NEW queue \in Seq(Note), NEW item
  PROVE  Latest(queue, item) \in Seq(Note)
<1> DEFINE old == {n \in DOMAIN queue : Superseded(queue[n], item)}
           at == CHOOSE n \in old : TRUE
<1>1. CASE old = {}
  BY <1>1 DEF Latest
<1>2. CASE old # {}
  <2>1. at \in 1..Len(queue)
    BY <1>2
  <2> HIDE DEF at
  <2>2. SubSeq(queue, 1, at - 1) \in Seq(Note)
    BY <2>1
  <2>3. SubSeq(queue, at + 1, Len(queue)) \in Seq(Note)
    BY <2>1
  <2>4. Latest(queue, item)
          = SubSeq(queue, 1, at - 1) \o SubSeq(queue, at + 1, Len(queue))
    BY <1>2 DEF Latest, at
  <2> HIDE DEF old
  <2> QED BY <2>2, <2>3, <2>4
<1> QED BY <1>1, <1>2

-----------------------------------------------------------------------------
(* What one notification does to the route, whichever branch it takes.     *)

SamePlace(rt) ==
  /\ rt.run = route.run
  /\ rt.phase = route.phase
  /\ rt.turn = route.turn

(* Recording a failure keeps the types of the route and of the failure    *)
(* task.                                                                  *)
LEMMA FailRouteFacts ==
  ASSUME watch \in WatchType, NEW rt \in RouteType, NEW cause \in Failure,
         SamePlace(rt), FailRoute(rt, cause)
  PROVE  /\ route' \in RouteType
         /\ SamePlace(route')
         /\ watch' \in WatchType
<1>1. route' \in RouteType /\ SamePlace(route')
  BY WithFailureFacts DEF FailRoute, SamePlace
<1>2. watch' \in WatchType
  BY DEF FailRoute, WatchType, Watcher
<1> QED BY <1>1, <1>2

(* route_event_after_start keeps the types and moves no phase.            *)
LEMMA PassEventFacts ==
  ASSUME route \in RouteType, watch \in WatchType, events \in EventsType,
         NEW note \in EventNote, PassEvent(note)
  PROVE  /\ route' \in RouteType
         /\ SamePlace(route')
         /\ watch' \in WatchType
         /\ events' \in EventsType
<1>1. CASE UNCHANGED <<route, events, watch>>
  BY <1>1 DEF SamePlace
<1>2. CASE FailRoute(route, "output_limit") /\ UNCHANGED events
  BY <1>2, FailRouteFacts DEF SamePlace, Failure
<1> note.item \in Items
  BY DEF EventNote
<1>3. ASSUME NEW cause \in Failure,
             FailRoute(Retained(note.item), cause), UNCHANGED events
      PROVE  /\ route' \in RouteType
             /\ SamePlace(route')
             /\ watch' \in WatchType
             /\ events' \in EventsType
  BY <1>3, RetainedFacts, FailRouteFacts DEF SamePlace
<1>4. CASE /\ route' = Retained(note.item)
           /\ events' = [events EXCEPT ![route.run] = Append(@, note)]
           /\ UNCHANGED watch
  <2>1. route' \in RouteType /\ SamePlace(route')
    BY <1>4, RetainedFacts DEF SamePlace
  <2>2. events' \in EventsType
    <3> DEFINE longer == Append(events[route.run], note)
    <3>1. route.run \in Runs => longer \in Seq(EventNote)
      BY DEF EventsType
    <3> HIDE DEF longer
    <3>2. events' = [events EXCEPT ![route.run] = longer]
      BY <1>4 DEF longer
    <3> QED BY <3>1, <3>2 DEF EventsType
  <2> QED BY <1>4, <2>1, <2>2
<1> QED BY <1>1, <1>2, <1>3, <1>4 DEF PassEvent, Failure

(* The deferral of an event keeps the types and moves no phase.           *)
LEMMA DeferEventFacts ==
  ASSUME route \in RouteType, watch \in WatchType, NEW note \in EventNote,
         DeferEvent(note)
  PROVE  /\ route' \in RouteType
         /\ SamePlace(route')
         /\ watch' \in WatchType
<1> DEFINE item == note.item
           rest == Latest(route.deferred, item)
           bytes == DeferredBytesWith(item)
           counted == IF item.kind = "image"
                      THEN [route EXCEPT
                              !.deferredBytes = bytes,
                              !.deferredBytesById[item.id] = item.size]
                      ELSE route
<1>1. /\ item \in Items
      /\ item.size \in Nat
      /\ item.kind = "image" => item.id \in ImageIds
  BY ItemFacts DEF EventNote
<1>2. item.kind = "image" => bytes \in Int
  BY <1>1 DEF DeferredBytesWith, RouteType
<1>3. rest \in Seq(Note)
  BY LatestType DEF RouteType
<1>4. \/ FailRoute(route, "output_limit")
      \/ FailRoute(counted, "lagged")
      \/ /\ route' = [counted EXCEPT !.deferred = Append(rest, note)]
         /\ UNCHANGED watch
  BY DEF DeferEvent
<1> HIDE DEF rest, bytes
<1>5. counted \in RouteType /\ SamePlace(counted)
  BY <1>1, <1>2 DEF RouteType, SamePlace
<1> HIDE DEF counted
<1>6. Append(rest, note) \in Seq(Note)
  BY <1>3 DEF Note
<1>7. CASE FailRoute(route, "output_limit")
  BY <1>7, FailRouteFacts DEF SamePlace, Failure
<1>8. CASE FailRoute(counted, "lagged")
  BY <1>5, <1>8, FailRouteFacts DEF Failure
<1>9. CASE /\ route' = [counted EXCEPT !.deferred = Append(rest, note)]
           /\ UNCHANGED watch
  <2> DEFINE longer == Append(rest, note)
  <2>1. longer \in Seq(Note)
    BY <1>6
  <2> HIDE DEF longer
  <2>2. route' = [counted EXCEPT !.deferred = longer]
    BY <1>9 DEF longer
  <2> QED BY <1>5, <1>9, <2>1, <2>2 DEF RouteType, SamePlace
<1> QED BY <1>4, <1>7, <1>8, <1>9

(* route_event, deferred or not, keeps the types and moves no phase.      *)
LEMMA RouteEventFacts ==
  ASSUME route \in RouteType, watch \in WatchType, events \in EventsType,
         NEW note \in EventNote, NEW defer \in BOOLEAN,
         RouteEvent(note, defer)
  PROVE  /\ route' \in RouteType
         /\ SamePlace(route')
         /\ watch' \in WatchType
         /\ events' \in EventsType
BY PassEventFacts, DeferEventFacts DEF RouteEvent

(* What a terminal does: it is deferred, or adopted, or turned away.       *)
LEMMA ResultTypes ==
  ASSUME route \in RouteType, NEW note \in TerminalNote,
         NEW overflow \in BOOLEAN
  PROVE  /\ NoResult \in ResultType
         /\ ErrResult \in ResultType
         /\ ResultOf(note, overflow) \in ResultType
         /\ ResultOf(note, overflow).status \in {"ok", "error"}
BY Zeros DEF NoResult, ErrResult, ResultOf, ResultType, RouteType

(* An absent entry of the routes map is a route of run 0.                 *)
LEMMA NoRouteFacts ==
  /\ \A r \in 0..MaxRuns : /\ FreshRoute(r) \in RouteType
                           /\ FreshRoute(r).run = r
                           /\ FreshRoute(r).phase = "starting"
  /\ NoRoute \in RouteType
  /\ NoRoute.run = 0
<1>1. 0 \in 0..MaxRuns
  BY BoundsAssumption
<1>2. \A r \in 0..MaxRuns : /\ FreshRoute(r) \in RouteType
                           /\ FreshRoute(r).run = r
                           /\ FreshRoute(r).phase = "starting"
  BY Zeros DEF FreshRoute, RouteType, Phase, Failure
<1> QED BY <1>1, <1>2 DEF NoRoute

(* route_terminal keeps the types when it is not deferred.                *)
LEMMA AdoptTerminalType ==
  ASSUME RouteVarsType, fence \in BOOLEAN, NEW note \in TerminalNote,
         NEW overflow \in BOOLEAN, AdoptTerminal(note, overflow)
  PROVE  RouteVarsType' /\ fence' \in BOOLEAN
<1>1. CASE UNCHANGED routeVars
  BY <1>1 DEF routeVars, RouteVarsType, AdoptTerminal
<1>2. CASE /\ route' = [route EXCEPT !.deferred = IF overflow THEN <<>> ELSE @]
           /\ UNCHANGED <<active, terminal, adopted, fence>>
  <2> DEFINE rest == IF overflow THEN <<>> ELSE route.deferred
  <2>1. rest \in Seq(Note)
    BY DEF RouteVarsType, RouteType
  <2> HIDE DEF rest
  <2>2. route' = [route EXCEPT !.deferred = rest]
    BY <1>2 DEF rest
  <2> QED BY <1>2, <2>1, <2>2 DEF RouteVarsType, RouteType
<1>3. CASE /\ terminal' =
                [terminal EXCEPT ![route.run] = ResultOf(note, overflow)]
           /\ adopted' = [adopted EXCEPT ![route.run] = TRUE]
           /\ active' = FALSE
           /\ route' = IF route.phase = "starting"
                       THEN [route EXCEPT !.phase = "ended",
                                          !.turn = note.turn,
                                          !.failure = "none",
                                          !.deferred = <<>>]
                       ELSE NoRoute
           /\ UNCHANGED fence
  <2>1. note.turn \in 0..MaxRuns
    BY DEF TerminalNote, Runs
  <2>2. [route EXCEPT !.phase = "ended", !.turn = note.turn,
                      !.failure = "none", !.deferred = <<>>] \in RouteType
    <3> DEFINE turn == note.turn
               none == <<>>
    <3>1. turn \in 0..MaxRuns /\ none \in Seq(Note)
      BY <2>1
    <3> HIDE DEF turn, none
    <3>2. [route EXCEPT !.phase = "ended", !.turn = turn,
                        !.failure = "none", !.deferred = none] \in RouteType
      BY <3>1 DEF RouteVarsType, RouteType, Phase, Failure
    <3> QED BY <3>2 DEF turn, none
  <2>4. route' \in RouteType
    BY <1>3, <2>2, NoRouteFacts
  <2>3. terminal' \in [Runs -> ResultType]
    BY <1>3, ResultTypes DEF RouteVarsType
  <2> QED BY <1>3, <2>3, <2>4 DEF RouteVarsType
<1> QED BY <1>1, <1>2, <1>3 DEF AdoptTerminal

(* route_terminal keeps the types, deferred or not.                       *)
LEMMA RouteTerminalType ==
  ASSUME RouteVarsType, fence \in BOOLEAN, NEW note \in TerminalNote,
         NEW defer \in BOOLEAN, RouteTerminal(note, defer)
  PROVE  RouteVarsType' /\ fence' \in BOOLEAN
<1> DEFINE deferrable == /\ defer /\ Registered
                         /\ route.failure = "none" /\ Deferring
<1>1. deferrable \in BOOLEAN
  OBVIOUS
<1>2. \/ AdoptTerminal(note, deferrable)
      \/ /\ route' = [route EXCEPT !.deferred = Append(@, note)]
         /\ UNCHANGED <<active, terminal, adopted, fence>>
  BY DEF RouteTerminal
<1> HIDE DEF deferrable
<1>3. CASE AdoptTerminal(note, deferrable)
  BY <1>1, <1>3, AdoptTerminalType
<1>4. CASE /\ route' = [route EXCEPT !.deferred = Append(@, note)]
           /\ UNCHANGED <<active, terminal, adopted, fence>>
  <2> DEFINE longer == Append(route.deferred, note)
  <2>1. longer \in Seq(Note)
    BY DEF RouteVarsType, RouteType, Note
  <2> HIDE DEF longer
  <2>2. route' = [route EXCEPT !.deferred = longer]
    BY <1>4 DEF longer
  <2> QED BY <1>4, <2>1, <2>2 DEF RouteVarsType, RouteType
<1> QED BY <1>2, <1>3, <1>4

-----------------------------------------------------------------------------
(* Type correctness.                                                       *)

(* A fresh connection is well typed.                                      *)
LEMMA TypeInit == Init => TypeOK
<1> SUFFICES ASSUME Init PROVE TypeOK
  OBVIOUS
<1> USE DEF Init
<1>1. RouteVarsType
  BY NoRouteFacts, Zeros DEF RouteVarsType, NoResult, ResultType
<1>2. StarterType
  BY BoundsAssumption DEF StarterType
<1>3. ConsumerType
  BY DEF ConsumerType, EventsType
<1>4. TaskType
  <2> DEFINE none == 0
  <2>1. none \in Nat
    OBVIOUS
  <2> HIDE DEF none
  <2>2. sent = [r \in Runs |-> none]
    BY DEF none
  <2> QED BY <2>1, <2>2 DEF TaskType, WatchType
<1>5. LinkType /\ ProviderType
  <2>1. late \in Nat /\ LinkType
    BY DEF LinkType
  <2>2. emitted \in [Runs -> Seq(Items)]
    BY DEF Init
  <2> QED BY <2>1, <2>2 DEF ProviderType
<1> QED BY <1>1, <1>2, <1>3, <1>4, <1>5 DEF TypeOK

(* A part none of whose variables changes keeps its type.                  *)
LEMMA TypeUnchanged ==
  /\ RouteVarsType /\ UNCHANGED routeVars => RouteVarsType'
  /\ StarterType /\ UNCHANGED starterVars => StarterType'
  /\ ConsumerType /\ UNCHANGED <<events, consumerVars>> => ConsumerType'
  /\ TaskType /\ UNCHANGED taskVars => TaskType'
  /\ LinkType /\ UNCHANGED linkVars => LinkType'
  /\ ProviderType /\ UNCHANGED providerVars => ProviderType'
BY DEF RouteVarsType, StarterType, ConsumerType, TaskType, LinkType,
       ProviderType, routeVars, starterVars, consumerVars, taskVars,
       linkVars, providerVars

(* fail_registered_run_before_turn leaves a well-typed ended route.       *)
LEMMA RefusedRouteFacts ==
  ASSUME route \in RouteType
  PROVE  RefusedRoute \in RouteType
<1> DEFINE none == <<>>
<1>1. none \in Seq(Note)
  OBVIOUS
<1> HIDE DEF none
<1>2. [route EXCEPT !.phase = "ended", !.deferred = none] \in RouteType
  BY <1>1 DEF RouteType, Phase
<1> QED BY <1>2 DEF RefusedRoute, none

(* Leaving Session::start without a handle keeps the types.               *)
LEMMA AbandonStartType ==
  StarterType /\ ConsumerType /\ starter # "idle" /\ AbandonStart
    /\ UNCHANGED events
    => StarterType' /\ ConsumerType'
BY DEF StarterType, ConsumerType, AbandonStart

(* Handing out the Run keeps the types.                                   *)
LEMMA HandOverType ==
  ASSUME StarterType, ConsumerType, TaskType, HandOver,
         UNCHANGED <<started, cancelling, events, received, abandoned>>,
         UNCHANGED <<interrupt, sent, watch>>
  PROVE  StarterType' /\ ConsumerType' /\ TaskType'
<1>1. StarterType'
  BY DEF StarterType, HandOver
<1>2. ConsumerType'
  BY DEF ConsumerType, HandOver
<1>3. TaskType'
  BY DEF TaskType, HandOver
<1> QED BY <1>1, <1>2, <1>3

(* try_start_interrupt keeps the type of the interrupt task.              *)
LEMMA TryStartInterruptType ==
  TaskType /\ (\E r \in Runs : TryStartInterrupt(r))
    => interrupt' \in [Runs -> {"none", "spawned", "done"}]
BY DEF TaskType, TryStartInterrupt

(* No step of any task leaves the types.                                  *)
LEMMA TypeStep == TypeOK /\ [Next]_vars => TypeOK'
<1> SUFFICES ASSUME TypeOK, [Next]_vars
             PROVE  TypeOK'
  OBVIOUS
<1> USE TypeUnchanged
<1> USE DEF TypeOK
<1>1. CASE Start
  <2>1. started + 1 \in Runs
    BY <1>1, BoundsAssumption DEF Start, StarterType, Runs
  <2> DEFINE r == started + 1
  <2> HIDE DEF r
  <2>2. r \in Runs /\ r \in 0..MaxRuns
    BY <2>1 DEF r, Runs
  <2>3. RouteVarsType'
    BY <1>1, <2>2, NoRouteFacts DEF Start, r, RouteVarsType
  <2>4. StarterType'
    BY <1>1, <2>2 DEF Start, r, StarterType
  <2>5. handle' = [handle EXCEPT ![r] = "starting"]
    BY <1>1 DEF Start, r
  <2>6. ConsumerType'
    BY <1>1, <2>2, <2>5 DEF Start, ConsumerType
  <2> QED BY <1>1, <2>3, <2>4, <2>6 DEF Start
<1>2. CASE SendTurnStart
  <2>1. StarterType'
    BY <1>2 DEF SendTurnStart, StarterType
  <2>2. ProviderType'
    BY <1>2 DEF SendTurnStart, ProviderType, StarterType
  <2> QED BY <1>2, <2>1, <2>2 DEF SendTurnStart, consumerVars
<1>3. CASE RequestTimeout
  <2>1. StarterType'
    BY <1>3 DEF RequestTimeout, StarterType
  <2>2. LinkType'
    BY <1>3 DEF RequestTimeout, LinkType
  <2> QED BY <1>3, <2>1, <2>2 DEF RequestTimeout
<1>4. CASE DrainRequest
  <2>1. StarterType'
    BY <1>4 DEF DrainRequest, StarterType
  <2> QED BY <1>4, <2>1 DEF DrainRequest
<1>5. CASE RefuseStart
  <2>1. StarterType' /\ ConsumerType'
    BY <1>5, AbandonStartType DEF RefuseStart
  <2>2. CASE UNCHANGED routeVars
    <3>1. LinkType'
      BY <1>5 DEF RefuseStart, LinkType, routeVars
    <3> QED BY <1>5, <2>1, <2>2, <3>1 DEF RefuseStart
  <2>3. CASE /\ adopted' = [adopted EXCEPT ![route.run] = TRUE]
             /\ active' = FALSE
             /\ terminal' = [terminal EXCEPT ![route.run] = ErrResult]
             /\ route' = RefusedRoute
             /\ UNCHANGED fence
    <3>1. RefusedRoute \in RouteType
      BY RefusedRouteFacts DEF RouteVarsType
    <3>2. ErrResult \in ResultType
      BY Zeros DEF ErrResult, ResultType
    <3>3. RouteVarsType'
      BY <2>3, <3>1, <3>2 DEF RouteVarsType
    <3>4. UNCHANGED <<taskVars, linkVars, providerVars>>
      BY <1>5, <2>3 DEF RefuseStart, linkVars
    <3> QED BY <2>1, <3>3, <3>4
  <2> QED BY <1>5, <2>2, <2>3 DEF RefuseStart
<1>6. CASE CancelStart
  <2>1. StarterType' /\ ConsumerType'
    BY <1>6, AbandonStartType DEF CancelStart
  <2>2. LinkType'
    BY <1>6 DEF CancelStart, LinkType
  <2> QED BY <1>6, <2>1, <2>2 DEF CancelStart
<1>7. CASE AcknowledgeStart
  <2>1. CASE /\ route' = [route EXCEPT !.phase = "replaying",
                            !.turn = started, !.deferred = <<>>,
                            !.deferredBytes = NoBytes,
                            !.deferredBytesById = NoImages]
             /\ batch' = route.deferred
             /\ starter' = "replaying"
             /\ UNCHANGED <<started, cancelling, consumerVars, deadline, fence>>
    <3> DEFINE none == <<>>
    <3>1. none \in Seq(Note)
      OBVIOUS
    <3> HIDE DEF none
    <3>2. route' = [route EXCEPT !.phase = "replaying", !.turn = started,
                      !.deferred = none, !.deferredBytes = NoBytes,
                      !.deferredBytesById = NoImages]
      BY <2>1 DEF none
    <3>3. RouteVarsType'
      BY <1>7, <3>1, <3>2, Zeros
         DEF RouteVarsType, RouteType, Phase, AcknowledgeStart, StarterType
    <3>4. StarterType'
      BY <1>7, <2>1
         DEF StarterType, RouteVarsType, RouteType, AcknowledgeStart
    <3>5. UNCHANGED <<events, consumerVars, taskVars, linkVars, providerVars>>
      BY <1>7, <2>1 DEF AcknowledgeStart, taskVars, linkVars
    <3> QED BY <3>3, <3>4, <3>5
  <2>2. CASE /\ route' = NoRoute
             /\ HandOver
             /\ UNCHANGED <<started, cancelling, received, abandoned, fence>>
    <3>1. RouteVarsType'
      BY <1>7, <2>2, NoRouteFacts DEF AcknowledgeStart, RouteVarsType
    <3>2. StarterType' /\ ConsumerType' /\ TaskType'
      BY <1>7, <2>2, HandOverType DEF AcknowledgeStart
    <3>3. UNCHANGED <<linkVars, providerVars>>
      BY <1>7, <2>2 DEF AcknowledgeStart, linkVars
    <3> QED BY <3>1, <3>2, <3>3
  <2>3. CASE /\ fence' = TRUE
             /\ AbandonStart
             /\ UNCHANGED <<route, deadline>>
    <3>1. StarterType' /\ ConsumerType'
      BY <1>7, <2>3, AbandonStartType DEF AcknowledgeStart
    <3>2. LinkType'
      BY <1>7, <2>3 DEF AcknowledgeStart, LinkType
    <3>3. UNCHANGED <<routeVars, taskVars, providerVars>>
      BY <1>7, <2>3 DEF AcknowledgeStart, routeVars, taskVars
    <3> QED BY <3>1, <3>2, <3>3
  <2> QED BY <1>7, <2>1, <2>2, <2>3 DEF AcknowledgeStart
<1>8. CASE ReplayOne
  <2>1. batch # <<>> /\ batch \in Seq(Note)
    BY <1>8 DEF ReplayOne, StarterType
  <2>2. Head(batch) \in Note /\ Tail(batch) \in Seq(Note)
    BY <2>1
  <2>3. StarterType'
    BY <1>8, <2>2 DEF ReplayOne, StarterType
  <2>4. CASE /\ Head(batch).kind = "event"
             /\ RouteEvent(Head(batch), FALSE)
             /\ UNCHANGED <<active, terminal, adopted, fence>>
    <3>1. Head(batch) \in EventNote
      BY <2>2, <2>4 DEF Note, TerminalNote
    <3>2. /\ route' \in RouteType
          /\ watch' \in WatchType
          /\ events' \in EventsType
      BY <2>4, <3>1, RouteEventFacts
         DEF RouteVarsType, ConsumerType, TaskType
    <3>3. RouteVarsType'
      BY <2>4, <3>2 DEF RouteVarsType
    <3>4. ConsumerType' /\ TaskType'
      BY <1>8, <3>2 DEF ReplayOne, ConsumerType, TaskType, consumerVars
    <3>5. UNCHANGED <<linkVars, providerVars>>
      BY <1>8, <2>4 DEF ReplayOne, linkVars
    <3> QED BY <2>3, <3>3, <3>4, <3>5
  <2>5. CASE /\ Head(batch).kind = "terminal"
             /\ RouteTerminal(Head(batch), FALSE)
             /\ UNCHANGED <<events, watch>>
    <3>1. Head(batch) \in TerminalNote
      BY <2>2, <2>5 DEF Note, EventNote
    <3>2. RouteVarsType' /\ fence' \in BOOLEAN
      BY <2>5, <3>1, RouteTerminalType DEF LinkType
    <3>3. LinkType'
      BY <1>8, <3>2 DEF ReplayOne, LinkType
    <3>4. UNCHANGED <<events, consumerVars, taskVars, providerVars>>
      BY <1>8, <2>5 DEF ReplayOne, taskVars
    <3> QED BY <2>3, <3>2, <3>3, <3>4
  <2> QED BY <1>8, <2>4, <2>5 DEF ReplayOne
<1>9. CASE ReplayTransition
  <2>1. CASE /\ batch' = route.deferred
             /\ route' = [route EXCEPT !.deferred = <<>>,
                            !.deferredBytes = NoBytes,
                            !.deferredBytesById = NoImages]
             /\ UNCHANGED <<starter, handle, deadline>>
    <3> DEFINE none == <<>>
    <3>1. none \in Seq(Note)
      OBVIOUS
    <3> HIDE DEF none
    <3>2. route' = [route EXCEPT !.deferred = none, !.deferredBytes = NoBytes,
                                 !.deferredBytesById = NoImages]
      BY <2>1 DEF none
    <3>3. RouteVarsType'
      BY <1>9, <3>1, <3>2, Zeros
         DEF RouteVarsType, RouteType, ReplayTransition
    <3>4. StarterType'
      BY <1>9, <2>1
         DEF StarterType, RouteVarsType, RouteType, ReplayTransition
    <3>5. UNCHANGED <<events, consumerVars, taskVars, linkVars, providerVars>>
      BY <1>9, <2>1 DEF ReplayTransition, taskVars, consumerVars
    <3> QED BY <3>3, <3>4, <3>5
  <2>2. CASE HandOver
    <3>1. \/ route' = [route EXCEPT !.phase = "active"]
          \/ UNCHANGED route
          \/ batch # <<>>
      BY <1>9, <2>2 DEF ReplayTransition, HandOver
    <3>2. RouteVarsType'
      BY <1>9, <3>1 DEF ReplayTransition, RouteVarsType, RouteType, Phase
    <3>3. StarterType' /\ ConsumerType' /\ TaskType'
      BY <1>9, <2>2, HandOverType DEF ReplayTransition
    <3>4. UNCHANGED <<linkVars, providerVars>>
      BY <1>9 DEF ReplayTransition
    <3> QED BY <3>2, <3>3, <3>4
  <2> QED BY <1>9, <2>1, <2>2 DEF ReplayTransition
<1>10. CASE ReadResponse
  <2>1. StarterType' /\ ProviderType'
    BY <1>10 DEF ReadResponse, StarterType, ProviderType
  <2> QED BY <1>10, <2>1 DEF ReadResponse
<1>11. CASE BeginDisconnect \/ AbortDisconnect
  <2>1. LinkType'
    BY <1>11 DEF BeginDisconnect, AbortDisconnect, LinkType
  <2> QED BY <1>11, <2>1 DEF BeginDisconnect, AbortDisconnect
<1>12. CASE FailAllRuns
  <2>1. LinkType'
    BY <1>12 DEF FailAllRuns, LinkType
  <2>2. CASE UNCHANGED routeVars
    BY <1>12, <2>1, <2>2 DEF FailAllRuns
  <2>3. CASE /\ adopted' = [adopted EXCEPT ![route.run] = TRUE]
             /\ active' = FALSE
             /\ terminal' = FailedTerminal(route.run)
             /\ route' = NoRoute
    <3>1. terminal' \in [Runs -> ResultType]
      BY <2>3, Zeros DEF FailedTerminal, RouteVarsType, ErrResult, ResultType
    <3>2. RouteVarsType'
      BY <2>3, <3>1, NoRouteFacts DEF RouteVarsType
    <3> QED BY <1>12, <2>1, <3>2 DEF FailAllRuns
  <2> QED BY <1>12, <2>2, <2>3 DEF FailAllRuns
<1>13. ASSUME NEW r \in Runs, CancelRegistered(r)
       PROVE  TypeOK'
  <2>1. StarterType'
    BY <1>13 DEF CancelRegistered, StarterType
  <2>2. CASE /\ adopted' = [adopted EXCEPT ![route.run] = TRUE]
             /\ active' = FALSE
             /\ route' = NoRoute
             /\ UNCHANGED <<abandoned, watch>>
    <3>1. RouteVarsType'
      BY <1>13, <2>2, NoRouteFacts DEF CancelRegistered, RouteVarsType
    <3>2. UNCHANGED <<events, consumerVars, taskVars, linkVars, providerVars>>
      BY <1>13, <2>2 DEF CancelRegistered, consumerVars, taskVars
    <3> QED BY <2>1, <3>1, <3>2
  <2>3. CASE /\ abandoned' = [abandoned EXCEPT ![route.run] = TRUE]
             /\ watch' = [watch EXCEPT ![route.run].abandon = "spawned"]
             /\ UNCHANGED <<adopted, active, route>>
    <3>1. ConsumerType'
      BY <1>13, <2>3 DEF CancelRegistered, ConsumerType
    <3>2. TaskType'
      BY <1>13, <2>3 DEF CancelRegistered, TaskType, WatchType, Watcher
    <3>3. UNCHANGED <<routeVars, linkVars, providerVars>>
      BY <1>13, <2>3 DEF CancelRegistered, routeVars
    <3> QED BY <2>1, <3>1, <3>2, <3>3
  <2>4. CASE UNCHANGED <<adopted, active, route, abandoned, watch>>
    BY <1>13, <2>1, <2>4
       DEF CancelRegistered, routeVars, consumerVars, taskVars
  <2> QED BY <1>13, <2>2, <2>3, <2>4 DEF CancelRegistered
<1>14. ASSUME NEW r \in Runs, ReadEvent(r)
       PROVE  TypeOK'
  <2>1. PICK item \in Items :
          /\ emitted' = [emitted EXCEPT ![r] = Append(@, item)]
          /\ RouteEvent([kind |-> "event", turn |-> r,
                         place |-> Len(emitted[r]) + 1, item |-> item], TRUE)
    BY <1>14 DEF ReadEvent
  <2> DEFINE place == Len(emitted[r]) + 1
             note == [kind |-> "event", turn |-> r, place |-> place,
                      item |-> item]
             longer == Append(emitted[r], item)
  <2>2. place \in Nat /\ longer \in Seq(Items)
    BY DEF ProviderType
  <2>3. RouteEvent(note, TRUE)
    BY <2>1
  <2>4. emitted' = [emitted EXCEPT ![r] = longer]
    BY <2>1
  <2> HIDE DEF place, longer
  <2>5. note \in EventNote
    BY <2>2 DEF EventNote
  <2> HIDE DEF note
  <2>6. /\ route' \in RouteType
        /\ watch' \in WatchType
        /\ events' \in EventsType
    BY <2>3, <2>5, RouteEventFacts DEF RouteVarsType, ConsumerType, TaskType
  <2>7. RouteVarsType'
    BY <1>14, <2>6 DEF ReadEvent, RouteVarsType
  <2>8. ConsumerType' /\ TaskType'
    BY <1>14, <2>6 DEF ReadEvent, ConsumerType, TaskType, consumerVars
  <2>9. ProviderType'
    BY <1>14, <2>2, <2>4 DEF ReadEvent, ProviderType
  <2> QED BY <1>14, <2>7, <2>8, <2>9 DEF ReadEvent
<1>15. ASSUME NEW r \in Runs, ReadTerminal(r)
       PROVE  TypeOK'
  <2>1. PICK status \in {"ok", "error"} :
          RouteTerminal([kind |-> "terminal", turn |-> r, status |-> status],
                        TRUE)
    BY <1>15 DEF ReadTerminal
  <2>2. [kind |-> "terminal", turn |-> r, status |-> status] \in TerminalNote
    BY DEF TerminalNote
  <2>3. RouteVarsType' /\ fence' \in BOOLEAN
    BY <2>1, <2>2, RouteTerminalType DEF LinkType
  <2>4. LinkType' /\ ProviderType'
    BY <1>15, <2>3 DEF ReadTerminal, LinkType, ProviderType
  <2> QED BY <1>15, <2>3, <2>4 DEF ReadTerminal
<1>16. ASSUME NEW r \in Runs, ReadLate(r)
       PROVE  TypeOK'
  <2>1. late + 1 \in Nat
    BY DEF ProviderType
  <2>2. ProviderType'
    BY <1>16, <2>1 DEF ReadLate, ProviderType
  <2>3. CASE /\ \E item \in Items :
                  RouteEvent([kind |-> "event", turn |-> r, place |-> 0,
                              item |-> item], TRUE)
             /\ UNCHANGED <<active, terminal, adopted, fence>>
    <3>1. PICK item \in Items :
            RouteEvent([kind |-> "event", turn |-> r, place |-> 0,
                        item |-> item], TRUE)
      BY <2>3
    <3> DEFINE note == [kind |-> "event", turn |-> r, place |-> 0,
                        item |-> item]
    <3>2. note \in EventNote /\ RouteEvent(note, TRUE)
      BY <3>1 DEF EventNote
    <3> HIDE DEF note
    <3>3. /\ route' \in RouteType
          /\ watch' \in WatchType
          /\ events' \in EventsType
      BY <3>2, RouteEventFacts DEF RouteVarsType, ConsumerType, TaskType
    <3>4. RouteVarsType'
      BY <2>3, <3>3 DEF RouteVarsType
    <3>5. ConsumerType' /\ TaskType'
      BY <1>16, <3>3 DEF ReadLate, ConsumerType, TaskType, consumerVars
    <3>6. UNCHANGED <<starterVars, linkVars>>
      BY <1>16, <2>3 DEF ReadLate, linkVars
    <3> QED BY <2>2, <3>4, <3>5, <3>6
  <2>4. CASE /\ RouteTerminal(
                  [kind |-> "terminal", turn |-> r, status |-> "ok"], TRUE)
             /\ UNCHANGED <<events, watch>>
    <3>1. [kind |-> "terminal", turn |-> r, status |-> "ok"] \in TerminalNote
      BY DEF TerminalNote
    <3>2. RouteVarsType' /\ fence' \in BOOLEAN
      BY <2>4, <3>1, RouteTerminalType DEF LinkType
    <3>3. LinkType'
      BY <1>16, <3>2 DEF ReadLate, LinkType
    <3>4. UNCHANGED <<starterVars, events, consumerVars, taskVars>>
      BY <1>16, <2>4 DEF ReadLate, taskVars
    <3> QED BY <2>2, <3>2, <3>3, <3>4
  <2> QED BY <1>16, <2>3, <2>4 DEF ReadLate
<1>17. ASSUME NEW r \in Runs, Receive(r) \/ ReceiveTerminal(r)
       PROVE  TypeOK'
  <2>1. ConsumerType'
    <3>1. CASE Receive(r)
      <4> DEFINE more == Append(received[r], Head(events[r]))
                 rest == Tail(events[r])
      <4>1. events[r] \in Seq(EventNote) /\ events[r] # <<>>
        BY <3>1 DEF Receive, ConsumerType, EventsType
      <4>2. more \in Seq(EventNote) /\ rest \in Seq(EventNote)
        BY <4>1 DEF ConsumerType, EventsType
      <4> HIDE DEF more, rest
      <4>3. /\ received' = [received EXCEPT ![r] = more]
            /\ events' = [events EXCEPT ![r] = rest]
        BY <3>1 DEF Receive, more, rest
      <4> QED BY <3>1, <4>2, <4>3 DEF Receive, ConsumerType, EventsType
    <3>2. CASE ReceiveTerminal(r)
      BY <3>2 DEF ReceiveTerminal, ConsumerType
    <3> QED BY <1>17, <3>1, <3>2
  <2> QED BY <1>17, <2>1 DEF Receive, ReceiveTerminal
<1>18. ASSUME NEW r \in Runs, DropRun(r)
       PROVE  TypeOK'
  <2> DEFINE none == <<>>
  <2>1. none \in Seq(EventNote) /\ events' = [events EXCEPT ![r] = none]
    BY <1>18 DEF DropRun
  <2> HIDE DEF none
  <2>2. events' \in EventsType
    BY <2>1 DEF ConsumerType, EventsType
  <2>3. ConsumerType'
    BY <1>18, <2>2 DEF DropRun, ConsumerType
  <2>4. watch' \in WatchType
    <3>1. \/ watch' = [watch EXCEPT ![r].abandon = "spawned"]
          \/ watch' = watch
      BY <1>18 DEF DropRun
    <3> QED BY <3>1 DEF TaskType, WatchType, Watcher
  <2>5. TaskType'
    BY <1>18, <2>4 DEF DropRun, TaskType
  <2> QED BY <1>18, <2>3, <2>5 DEF DropRun
<1>19. ASSUME NEW r \in Runs, UserInterrupt(r)
       PROVE  TypeOK'
  <2>1. TaskType'
    BY <1>19, TryStartInterruptType DEF UserInterrupt, TaskType
  <2> QED BY <1>19, <2>1 DEF UserInterrupt
<1>20. ASSUME NEW r \in Runs, InterruptTask(r)
       PROVE  TypeOK'
  <2> DEFINE count == sent[r] + (IF adopted[r] \/ link # "up" THEN 0 ELSE 1)
  <2>1. count \in Nat
    BY DEF TaskType
  <2> HIDE DEF count
  <2>2. sent' = [sent EXCEPT ![r] = count]
    BY <1>20 DEF InterruptTask, count
  <2>3. TaskType'
    BY <1>20, <2>1, <2>2 DEF InterruptTask, TaskType
  <2> QED BY <1>20, <2>3 DEF InterruptTask
<1>21. ASSUME NEW r \in Runs, DeadlineExpires(r)
       PROVE  TypeOK'
  <2>1. RouteVarsType'
    BY <1>21 DEF DeadlineExpires, RouteVarsType, RouteType, Failure
  <2>2. TaskType'
    BY <1>21 DEF DeadlineExpires, TaskType, WatchType, Watcher
  <2> QED BY <1>21, <2>1, <2>2 DEF DeadlineExpires
<1>22. ASSUME NEW r \in Runs, NEW w \in Watcher,
              WatchBegin(r, w) \/ WatchEnd(r, w)
       PROVE  TypeOK'
  <2>1. watch' \in WatchType
    <3>1. \E state \in {"none", "waiting"} :
            watch' = [watch EXCEPT ![r][w] = state]
      BY <1>22 DEF WatchBegin, WatchEnd
    <3> QED BY <3>1 DEF TaskType, WatchType
  <2>2. TaskType' /\ LinkType'
    BY <1>22, <2>1, TryStartInterruptType
       DEF WatchBegin, WatchEnd, TaskType, LinkType, linkVars
  <2> QED BY <1>22, <2>2 DEF WatchBegin, WatchEnd
<1>23. CASE UNCHANGED vars
  BY <1>23 DEF vars
<1> QED
  BY <1>1, <1>2, <1>3, <1>4, <1>5, <1>6, <1>7, <1>8, <1>9, <1>10, <1>11,
     <1>12, <1>13, <1>14, <1>15, <1>16, <1>17, <1>18, <1>19, <1>20, <1>21,
     <1>22, <1>23 DEF Next

(* Whatever the tasks, the app-server and the connection do, every         *)
(* variable keeps the type of the code's field (RunRoute, RunControl,      *)
(* Session::active).                                                       *)
THEOREM TypeCorrect == Spec => []TypeOK
BY TypeInit, TypeStep, PTL DEF Spec

=============================================================================
