--------------------------- MODULE RunStreamProofs ---------------------------
(***************************************************************************)
(* What a turn's handle gets, what its result says and what its route      *)
(* retains (RunRoute), for every capacity, limit and payload and any       *)
(* number of runs.                                                         *)
(*                                                                         *)
(* Order and completeness are stated under OrderlySpec: the route takes    *)
(* the notifications of its own turn only once it knows the turn's         *)
(* identifier, so that what an app-server says of an earlier turn, late,   *)
(* may be taken for the current one's while turn/start is pending.  What   *)
(* bounds memory needs no such assumption.                                 *)
(*                                                                         *)
(* None of the properties is inductive.  Streams relates what was          *)
(* delivered, what waits in the replayed batch and what is deferred to     *)
(* what the app-server wrote; Replays says when those two queues may hold  *)
(* anything, and that the route is the latest run's.                       *)
(***************************************************************************)
EXTENDS RunStreamData

-----------------------------------------------------------------------------
(* The four things a notification's event may come to.                     *)
EventIgnored(note) == ~Accepts(note) /\ UNCHANGED <<route, events>>
EventFails ==
  /\ Registered /\ SamePlace(route')
  /\ route'.failure # "none"
  /\ route'.deferred = IF Deferring THEN <<>> ELSE route.deferred
  /\ UNCHANGED events
EventPassed(note) ==
  /\ Accepts(note)
  /\ ChannelTakes(route.run)
  /\ route' = Retained(note.item)
  /\ events' = [events EXCEPT ![route.run] = Append(@, note)]
EventDeferred(note) ==
  /\ Registered /\ route.failure = "none" /\ Deferring
  /\ SamePlace(route')
  /\ route'.failure = "none" /\ route'.text = route.text
  /\ route'.images = route.images
  /\ route'.deferred = Append(Latest(route.deferred, note.item), note)
  /\ UNCHANGED events

(* record_failure drops what is deferred and keeps the turn.               *)
LEMMA FailRouteDrops ==
  ASSUME NEW rt \in RouteType, NEW cause \in Failure \ {"none"},
         SamePlace(rt), rt.deferred = route.deferred, FailRoute(rt, cause),
         Registered, UNCHANGED events
  PROVE  EventFails
<1> DEFINE rest == IF Deferring THEN <<>> ELSE rt.deferred
<1>1. route' = [rt EXCEPT !.failure = cause, !.deferred = rest,
                  !.deferredBytes = NoBytes, !.deferredBytesById = NoImages]
  BY DEF FailRoute, WithFailure
<1>2. rest = IF Deferring THEN <<>> ELSE route.deferred
  OBVIOUS
<1> HIDE DEF rest
<1>3. route'.failure = cause /\ route'.deferred = rest /\ SamePlace(route')
  BY <1>1 DEF RouteType, SamePlace
<1> QED BY <1>2, <1>3 DEF EventFails

(* What PassEvent comes to: ignored, a failed route, or passed on.         *)
LEMMA PassedOutcomes ==
  ASSUME route \in RouteType, NEW note \in EventNote, PassEvent(note)
  PROVE  EventIgnored(note) \/ EventFails \/ EventPassed(note)
<1>1. note.item \in Items
  BY DEF EventNote
<1>2. /\ Retained(note.item) \in RouteType /\ SamePlace(Retained(note.item))
      /\ Retained(note.item).deferred = route.deferred
  <2>1. Retained(note.item).deferred = route.deferred
    BY <1>1, ItemFacts DEF Retained, RouteType
  <2> QED BY <1>1, <2>1, RetainedFacts DEF SamePlace
<1>3. CASE ~Accepts(note) /\ UNCHANGED <<route, events, watch>>
  BY <1>3 DEF EventIgnored
<1>4. CASE Accepts(note) /\ FailRoute(route, "output_limit") /\ UNCHANGED events
  <2>1. SamePlace(route) /\ Registered /\ "output_limit" \in Failure \ {"none"}
    BY <1>4 DEF SamePlace, Accepts, Failure
  <2> QED BY <1>4, <2>1, FailRouteDrops
<1>5. ASSUME Accepts(note), UNCHANGED events,
             NEW cause \in {"lagged", "closed"},
             FailRoute(Retained(note.item), cause)
      PROVE  EventFails
  <2>1. Registered /\ cause \in Failure \ {"none"}
    BY <1>5 DEF Accepts, Failure
  <2> QED BY <1>2, <1>5, <2>1, FailRouteDrops
<1>6. CASE /\ Accepts(note) /\ ChannelTakes(route.run)
           /\ route' = Retained(note.item)
           /\ events' = [events EXCEPT ![route.run] = Append(@, note)]
  BY <1>6 DEF EventPassed
<1> QED BY <1>3, <1>4, <1>5, <1>6 DEF PassEvent

(* What DeferEvent comes to: a failed route, or the event waits.           *)
LEMMA DeferredOutcomes ==
  ASSUME route \in RouteType, NEW note \in EventNote, DeferEvent(note),
         Registered, route.failure = "none", Deferring, UNCHANGED events
  PROVE  EventFails \/ EventDeferred(note)
<1> DEFINE item == note.item
           rest == Latest(route.deferred, item)
           bytes == DeferredBytesWith(item)
           counted == IF item.kind = "image"
                      THEN [route EXCEPT
                              !.deferredBytes = bytes,
                              !.deferredBytesById[item.id] = item.size]
                      ELSE route
<1>1. /\ item \in Items
      /\ item.size \in Nat
      /\ item.kind = "image" => item.id \in ImageIds
  BY ItemFacts DEF EventNote
<1>2. item.kind = "image" => bytes \in Int
  BY <1>1 DEF DeferredBytesWith, RouteType
<1>3. \/ FailRoute(route, "output_limit")
      \/ FailRoute(counted, "lagged")
      \/ /\ route' = [counted EXCEPT !.deferred = Append(rest, note)]
         /\ UNCHANGED watch
  BY DEF DeferEvent
<1>4. Append(rest, note) \in Seq(Note)
  <2>1. rest \in Seq(Note)
    BY LatestType DEF RouteType
  <2> HIDE DEF rest
  <2> QED BY <2>1 DEF Note
<1> HIDE DEF bytes
<1>6. /\ counted \in RouteType /\ SamePlace(counted)
      /\ counted.deferred = route.deferred /\ counted.failure = route.failure
      /\ counted.text = route.text /\ counted.images = route.images
  BY <1>1, <1>2 DEF RouteType, SamePlace
<1> HIDE DEF counted
<1>7. {"output_limit", "lagged"} \subseteq Failure \ {"none"} /\ SamePlace(route)
  BY DEF Failure, SamePlace
<1>8. CASE FailRoute(route, "output_limit")
  BY <1>7, <1>8, FailRouteDrops
<1>9. CASE FailRoute(counted, "lagged")
  BY <1>6, <1>7, <1>9, FailRouteDrops
<1>10. CASE route' = [counted EXCEPT !.deferred = Append(rest, note)]
  <2> DEFINE longer == Append(rest, note)
  <2>1. longer \in Seq(Note)
    BY <1>4
  <2>2. route' = [counted EXCEPT !.deferred = longer]
    BY <1>10
  <2> HIDE DEF longer
  <2>3. /\ route'.deferred = longer /\ SamePlace(route')
        /\ route'.failure = "none" /\ route'.text = route.text
        /\ route'.images = route.images
    BY <1>6, <2>1, <2>2 DEF RouteType, SamePlace
  <2> QED BY <2>3 DEF EventDeferred, longer
<1> QED BY <1>3, <1>8, <1>9, <1>10

(* Every way RouteEvent can end.                                           *)
LEMMA EventOutcomes ==
  ASSUME route \in RouteType, NEW note \in EventNote, NEW defer \in BOOLEAN,
         RouteEvent(note, defer)
  PROVE  \/ EventFails
         \/ EventIgnored(note)
         \/ EventPassed(note) /\ (defer => ~Deferring)
         \/ defer /\ EventDeferred(note)
<1>1. CASE defer /\ Registered /\ route.failure = "none" /\ Deferring
  BY <1>1, DeferredOutcomes DEF RouteEvent
<1>2. CASE ~(defer /\ Registered /\ route.failure = "none" /\ Deferring)
  BY <1>2, PassedOutcomes DEF RouteEvent, EventPassed, Accepts
<1> QED BY <1>1, <1>2

(* The four things a terminal may come to.                                 *)
TerminalIgnored ==
  /\ ~Registered \/ route.phase = "ended"
  /\ UNCHANGED <<route, terminal>>
TerminalMismatched(note) ==
  /\ Registered /\ route.turn \notin {NoTurn, note.turn}
  /\ \/ route' = route
     \/ route' = [route EXCEPT !.deferred = <<>>]
  /\ UNCHANGED terminal
TerminalDeferred(note) ==
  /\ Registered /\ route.failure = "none" /\ Deferring
  /\ route' = [route EXCEPT !.deferred = Append(@, note)]
  /\ UNCHANGED terminal
TerminalAdopted(note, overflow) ==
  /\ Registered /\ route.phase # "ended"
  /\ route.turn \in {NoTurn, note.turn}
  /\ terminal' = [terminal EXCEPT ![route.run] = ResultOf(note, overflow)]
  /\ route' = IF route.phase = "starting"
              THEN [route EXCEPT !.phase = "ended", !.turn = note.turn,
                                 !.failure = "none", !.deferred = <<>>]
              ELSE NoRoute

(* What AdoptTerminal comes to.                                            *)
LEMMA AdoptOutcomes ==
  ASSUME route \in RouteType, NEW note, NEW overflow \in BOOLEAN,
         AdoptTerminal(note, overflow)
  PROVE  \/ TerminalIgnored \/ TerminalMismatched(note)
         \/ TerminalAdopted(note, overflow)
<1>1. CASE UNCHANGED routeVars /\ (~Registered \/ Settled)
  BY <1>1 DEF TerminalIgnored, routeVars, Settled
<1>2. CASE /\ Registered /\ route.turn \notin {NoTurn, note.turn}
           /\ route' = [route EXCEPT !.deferred = IF overflow THEN <<>> ELSE @]
           /\ UNCHANGED terminal
  <2>1. CASE overflow
    BY <1>2, <2>1 DEF TerminalMismatched
  <2>2. CASE ~overflow
    <3>1. route' = route
      BY <1>2, <2>2 DEF RouteType
    <3> QED BY <1>2, <3>1 DEF TerminalMismatched
  <2> QED BY <2>1, <2>2
<1>3. CASE /\ Registered /\ ~Settled
           /\ route.turn \in {NoTurn, note.turn}
           /\ terminal' =
                [terminal EXCEPT ![route.run] = ResultOf(note, overflow)]
           /\ route' = IF route.phase = "starting"
                       THEN [route EXCEPT !.phase = "ended",
                                          !.turn = note.turn,
                                          !.failure = "none",
                                          !.deferred = <<>>]
                       ELSE NoRoute
  BY <1>3 DEF TerminalAdopted, Settled
<1> QED BY <1>1, <1>2, <1>3 DEF AdoptTerminal

(* Every way RouteTerminal can end.                                        *)
LEMMA TerminalOutcomes ==
  ASSUME route \in RouteType, NEW note, NEW defer \in BOOLEAN,
         RouteTerminal(note, defer)
  PROVE  \/ TerminalIgnored \/ TerminalMismatched(note)
         \/ defer /\ TerminalDeferred(note)
         \/ \E overflow \in BOOLEAN :
              /\ overflow <=> /\ defer /\ Registered
                              /\ route.failure = "none" /\ Deferring
              /\ TerminalAdopted(note, overflow)
<1> DEFINE deferrable == /\ defer /\ Registered
                         /\ route.failure = "none" /\ Deferring
<1>1. deferrable \in BOOLEAN
  OBVIOUS
<1>2. CASE deferrable /\ Len(route.deferred) < EventCapacity
  BY <1>2 DEF RouteTerminal, TerminalDeferred
<1>3. CASE AdoptTerminal(note, deferrable)
  <2>1. \/ TerminalIgnored \/ TerminalMismatched(note)
        \/ TerminalAdopted(note, deferrable)
    <3> HIDE DEF deferrable
    <3> QED BY <1>1, <1>3, AdoptOutcomes
  <2> QED BY <1>1, <2>1
<1> QED BY <1>2, <1>3 DEF RouteTerminal

-----------------------------------------------------------------------------
(* How the replay and the deferral take turns.                             *)

(* The caller holds a batch only while it replays.                         *)
BatchInReplay == batch # <<>> =>
  starter = "replaying" /\ (Registered => route.phase = "replaying")

(* Nothing is deferred once the turn is active or over.                    *)
DeferredEarly == Registered /\ ~Deferring => route.deferred = <<>>

(* The route is the latest run's, of its turn, and has no result before it *)
(* ends.                                                                   *)
OneTurn == Registered =>
  /\ route.run = started
  /\ route.turn \in {NoTurn, started}
  /\ route.phase \in {"replaying", "active"} => route.turn = started
  /\ route.phase # "ended" => terminal[started].status = "none"

(* The caller of Session::start keeps the receiver, and no turn is asked   *)
(* for before turn/start is written.                                       *)
StarterHolds ==
  /\ starter # "idle" => handle[started] = "starting"
  /\ starter = "sending" => provider[started] = "none"

Unstarted(r) ==
  /\ emitted[r] = <<>> /\ received[r] = <<>> /\ events[r] = <<>>
  /\ handle[r] = "none" /\ provider[r] = "none" /\ terminal[r].status = "none"

Replays ==
  /\ BatchInReplay
  /\ DeferredEarly
  /\ OneTurn
  /\ StarterHolds
  /\ \A r \in Runs : started < r => Unstarted(r)

(* Nothing is replayed at first.                                           *)
LEMMA ReplaysInit == Init => Replays
BY NoRouteFacts DEF Init, Replays, BatchInReplay, DeferredEarly, OneTurn,
   StarterHolds, Unstarted, Registered, NoResult

(* What an event of the current turn does to them.                         *)
LEMMA EventReplays ==
  ASSUME TypeOK, Replays, NEW note \in EventNote, NEW defer \in BOOLEAN,
         RouteEvent(note, defer),
         UNCHANGED <<starter, started, handle, provider, terminal, received>>,
         \A r \in Runs : started < r => emitted'[r] = emitted[r],
         batch' \in {batch, <<>>} \/ (batch # <<>> /\ batch' = Tail(batch))
  PROVE  Replays'
<1> USE DEF TypeOK, RouteVarsType, RouteType
<1>1. SamePlace(route')
  BY RouteEventFacts DEF ConsumerType, TaskType
<1>2. /\ ~Deferring => route'.deferred = route.deferred
      /\ Registered' => Registered
      /\ \A r \in Runs : r # route.run => events'[r] = events[r]
  <2>1. CASE EventFails
    BY <2>1, <1>1 DEF EventFails, Registered, SamePlace
  <2>2. CASE EventIgnored(note)
    BY <2>2 DEF EventIgnored, Registered
  <2>3. CASE EventPassed(note)
    <3>1. Retained(note.item).deferred = route.deferred
      <4>1. note.item \in Items
        BY DEF EventNote
      <4> QED BY <4>1, ItemFacts DEF Retained
    <3> QED BY <1>1, <2>3, <3>1
            DEF EventPassed, Registered, SamePlace, ConsumerType, EventsType
  <2>4. CASE EventDeferred(note)
    BY <2>4, <1>1 DEF EventDeferred, Registered, SamePlace
  <2> QED BY <2>1, <2>2, <2>3, <2>4, EventOutcomes
<1>3. BatchInReplay'
  BY <1>1, <1>2 DEF SamePlace, Registered, Replays, BatchInReplay
<1>4. DeferredEarly'
  BY <1>1, <1>2 DEF SamePlace, Registered, Deferring, Replays, DeferredEarly
<1>5. OneTurn'
  BY <1>1, <1>2 DEF SamePlace, Registered, Replays, OneTurn
<1>6. StarterHolds'
  BY DEF Replays, StarterHolds
<1>7. \A r \in Runs : started' < r => Unstarted(r)'
  <2> SUFFICES ASSUME NEW r \in Runs, started < r PROVE Unstarted(r)'
    OBVIOUS
  <2>1. Unstarted(r)
    BY DEF Replays
  <2>2. r # route.run
    <3>1. Registered => route.run = started
      BY DEF Replays, OneTurn
    <3>2. started \in Int /\ r \in Int /\ r # 0
      BY BoundsAssumption DEF StarterType, Runs
    <3> QED BY <3>1, <3>2 DEF Registered
  <2> QED BY <1>2, <2>1, <2>2 DEF Unstarted
<1> QED BY <1>3, <1>4, <1>5, <1>6, <1>7 DEF Replays

(* What its terminal does.                                                 *)
LEMMA TerminalReplays ==
  ASSUME TypeOK, Replays, NEW note \in TerminalNote, NEW defer \in BOOLEAN,
         RouteTerminal(note, defer),
         UNCHANGED <<starter, started, handle, emitted, received, events>>,
         defer => note.turn = started,
         ~defer => batch # <<>>,
         starter = "sending" => UNCHANGED provider,
         \A r \in Runs : started < r => provider'[r] = provider[r],
         batch' = batch \/ (batch # <<>> /\ batch' = Tail(batch))
  PROVE  Replays'
<1> USE DEF TypeOK, RouteVarsType, RouteType
<1>1. /\ BatchInReplay' /\ DeferredEarly' /\ OneTurn'
      /\ \A r \in Runs : started < r => terminal'[r] = terminal[r]
  <2> USE DEF Replays
  <2>1. CASE TerminalIgnored
    BY <2>1 DEF TerminalIgnored, BatchInReplay, DeferredEarly, OneTurn,
                Registered, Deferring
  <2>2. CASE TerminalMismatched(note)
    BY <2>2 DEF TerminalMismatched, BatchInReplay, DeferredEarly, OneTurn,
                Registered, Deferring
  <2>3. CASE TerminalDeferred(note)
    BY <2>3 DEF TerminalDeferred, BatchInReplay, DeferredEarly, OneTurn,
                Registered, Deferring
  <2>4. CASE \E overflow \in BOOLEAN : TerminalAdopted(note, overflow)
    <3>1. PICK overflow \in BOOLEAN : TerminalAdopted(note, overflow)
      BY <2>4
    <3>2. \A r \in Runs : started < r => terminal'[r] = terminal[r]
      <4>1. Registered /\ route.run = started
        BY <3>1 DEF TerminalAdopted, OneTurn
      <4>2. started \in Int /\ Runs \subseteq Int
        BY BoundsAssumption DEF StarterType, Runs
      <4> QED BY <3>1, <4>1, <4>2 DEF TerminalAdopted
    <3>3. CASE route.phase = "starting"
      <4>1. batch = <<>> /\ note.turn = started
        BY <3>1, <3>3 DEF TerminalAdopted, BatchInReplay
      <4>2. /\ route'.deferred = <<>> /\ route'.run = started
            /\ route'.turn = started /\ route'.phase = "ended"
        BY <3>1, <3>3, <4>1 DEF TerminalAdopted, OneTurn
      <4> QED BY <3>2, <4>1, <4>2
              DEF BatchInReplay, DeferredEarly, OneTurn
    <3>4. CASE route.phase # "starting"
      <4>1. ~Registered'
        BY <3>1, <3>4, NoRouteFacts DEF TerminalAdopted, Registered
      <4> QED BY <3>2, <4>1 DEF BatchInReplay, DeferredEarly, OneTurn
    <3> QED BY <3>3, <3>4
  <2> QED BY <2>1, <2>2, <2>3, <2>4, TerminalOutcomes
<1>2. StarterHolds'
  BY DEF Replays, StarterHolds
<1>3. \A r \in Runs : started' < r => Unstarted(r)'
  BY <1>1 DEF Replays, Unstarted
<1> QED BY <1>1, <1>2, <1>3 DEF Replays

(* An event or a terminal the app-server writes belongs to the current     *)
(* turn.                                                                   *)
LEMMA SpokenInTurn ==
  ASSUME TypeOK, SpeaksInTurn, NEW r \in Runs
  PROVE  /\ ReadEvent(r) => r = started
         /\ ReadTerminal(r) => r = started
         /\ ~ReadLate(r)
<1>1. ASSUME ReadEvent(r), r # started PROVE FALSE
  <2>1. PICK item \in Items : emitted' = [emitted EXCEPT ![r] = Append(@, item)]
    BY <1>1 DEF ReadEvent
  <2>2. emitted[r] \in Seq(Items) /\ emitted \in [Runs -> Seq(Items)]
    BY DEF TypeOK, ProviderType
  <2>3. Len(Append(emitted[r], item)) # Len(emitted[r])
    BY <2>2
  <2>4. emitted'[r] = Append(emitted[r], item)
    BY <2>1, <2>2
  <2>5. emitted'[r] = emitted[r]
    BY <1>1 DEF SpeaksInTurn
  <2> QED BY <2>3, <2>4, <2>5
<1>2. ASSUME ReadTerminal(r), r # started PROVE FALSE
  BY <1>2 DEF ReadTerminal, SpeaksInTurn, TypeOK, ProviderType
<1>3. ASSUME ReadLate(r) PROVE FALSE
  <2>1. late \in Nat /\ late' = late + 1
    BY <1>3 DEF ReadLate, TypeOK, ProviderType
  <2> QED BY <2>1 DEF SpeaksInTurn
<1> QED BY <1>1, <1>2, <1>3

(* The notification the router reads next, and the one replayed next.      *)
LEMMA NextNotes ==
  ASSUME TypeOK
  PROVE  /\ \A r \in Runs, item \in Items :
              [kind |-> "event", turn |-> r, place |-> Len(emitted[r]) + 1,
               item |-> item] \in EventNote
         /\ \A r \in Runs, status \in {"ok", "error"} :
              [kind |-> "terminal", turn |-> r, status |-> status]
                \in TerminalNote
         /\ batch # <<>> =>
              /\ Head(batch) \in Note
              /\ Head(batch).kind = "event" => Head(batch) \in EventNote
              /\ Head(batch).kind = "terminal" => Head(batch) \in TerminalNote
<1>1. \A r \in Runs : Len(emitted[r]) + 1 \in Nat
  BY DEF TypeOK, ProviderType
<1>2. batch # <<>> => Head(batch) \in Note
  BY DEF TypeOK, StarterType
<1> QED BY <1>1, <1>2 DEF EventNote, TerminalNote, Note

(* No step of an orderly connection breaks them.                           *)
LEMMA ReplaysStep ==
  ASSUME TypeOK, Replays, Next, SpeaksInTurn
  PROVE  Replays'
<1> USE DEF TypeOK, RouteVarsType, RouteType, Replays
<1>0. started \in Nat /\ Runs \subseteq Nat
  BY BoundsAssumption DEF StarterType, Runs
<1>1. CASE Start
  <2> DEFINE r == started + 1
  <2>1. r \in Runs /\ Unstarted(r) /\ r # started /\ started < r
    BY <1>1, <1>0, BoundsAssumption DEF Start, Runs
  <2>2. /\ started' = r /\ batch' = batch /\ batch = <<>>
        /\ route' = FreshRoute(r) /\ starter' = "sending"
        /\ handle' = [handle EXCEPT ![r] = "starting"]
        /\ UNCHANGED <<terminal, provider, emitted, received, events>>
    BY <1>1 DEF Start, BatchInReplay, providerVars
  <2> HIDE DEF r
  <2>3. BatchInReplay' /\ DeferredEarly'
    BY <2>2 DEF BatchInReplay, DeferredEarly, FreshRoute
  <2>4. OneTurn'
    BY <2>1, <2>2 DEF OneTurn, FreshRoute, Unstarted
  <2>5. StarterHolds'
    BY <2>1, <2>2 DEF StarterHolds, Unstarted, ConsumerType
  <2>6. \A q \in Runs : r < q => Unstarted(q)'
    BY <1>0, <2>1, <2>2 DEF Unstarted, ConsumerType
  <2> QED BY <2>2, <2>3, <2>4, <2>5, <2>6
<1>2. CASE SendTurnStart
  <2>1. UNCHANGED <<route, terminal, batch, started, emitted, received, events,
                    handle>>
    BY <1>2 DEF SendTurnStart, routeVars, consumerVars
  <2>2. /\ starter = "sending" /\ starter' \in {"requesting", "refused"}
        /\ \A r \in Runs : r # started => provider'[r] = provider[r]
    BY <1>2 DEF SendTurnStart, ProviderType
  <2>3. BatchInReplay' /\ DeferredEarly' /\ OneTurn' /\ StarterHolds'
    BY <2>1, <2>2 DEF BatchInReplay, DeferredEarly, OneTurn, StarterHolds,
                      Registered, Deferring
  <2>4. \A r \in Runs : started' < r => Unstarted(r)'
    BY <1>0, <2>1, <2>2 DEF Unstarted
  <2> QED BY <2>3, <2>4
<1>3. CASE RequestTimeout \/ DrainRequest \/ ReadResponse
  <2>1. UNCHANGED <<route, terminal, batch, started, emitted, received, events,
                    handle>>
    BY <1>3 DEF RequestTimeout, DrainRequest, ReadResponse, routeVars,
                consumerVars, providerVars
  <2>2. /\ starter \in {"requesting", "timedout"}
        /\ starter' \in {"timedout", "refused", "acknowledging"}
        /\ \A r \in Runs : r # started => provider'[r] = provider[r]
    BY <1>3 DEF RequestTimeout, DrainRequest, ReadResponse, ProviderType,
                providerVars
  <2>3. BatchInReplay' /\ DeferredEarly' /\ OneTurn' /\ StarterHolds'
    BY <2>1, <2>2 DEF BatchInReplay, DeferredEarly, OneTurn, StarterHolds,
                      Registered, Deferring
  <2>4. \A r \in Runs : started' < r => Unstarted(r)'
    <3>1. \A r \in Runs : started < r => provider'[r] = provider[r]
      BY <1>0, <2>2
    <3> QED BY <2>1, <3>1 DEF Unstarted
  <2> QED BY <2>3, <2>4
<1>4. CASE RefuseStart
  <2>1. /\ batch' = <<>> /\ starter' = "idle" /\ started' = started
        /\ handle' = [handle EXCEPT ![started] = "dropped"]
        /\ UNCHANGED <<received, events, provider, emitted>>
    BY <1>4 DEF RefuseStart, AbandonStart, providerVars
  <2>2. \/ UNCHANGED <<route, terminal>>
        \/ /\ Registered /\ route' = RefusedRoute
           /\ terminal' = [terminal EXCEPT ![route.run] = ErrResult]
    BY <1>4 DEF RefuseStart, routeVars
  <2>3. BatchInReplay' /\ DeferredEarly' /\ OneTurn' /\ StarterHolds'
    BY <2>1, <2>2 DEF BatchInReplay, DeferredEarly, OneTurn, StarterHolds,
                      Registered, Deferring, RefusedRoute
  <2>4. \A r \in Runs : started' < r => Unstarted(r)'
    <3>1. \A r \in Runs : started < r =>
            /\ handle'[r] = handle[r] /\ terminal'[r] = terminal[r]
      BY <1>0, <2>1, <2>2 DEF OneTurn, ConsumerType
    <3> QED BY <2>1, <3>1 DEF Unstarted
  <2> QED BY <2>3, <2>4
<1>5. CASE CancelStart
  <2>1. /\ batch' = <<>> /\ starter' = "idle" /\ started' = started
        /\ handle' = [handle EXCEPT ![started] = "dropped"]
        /\ UNCHANGED <<received, events, provider, emitted, route, terminal>>
    BY <1>5 DEF CancelStart, AbandonStart, providerVars, routeVars
  <2>2. BatchInReplay' /\ DeferredEarly' /\ OneTurn' /\ StarterHolds'
    BY <2>1 DEF BatchInReplay, DeferredEarly, OneTurn, StarterHolds,
                Registered, Deferring
  <2>3. \A r \in Runs : started' < r => Unstarted(r)'
    BY <1>0, <2>1 DEF Unstarted, ConsumerType
  <2> QED BY <2>2, <2>3
<1>6. CASE AcknowledgeStart
  <2>1. /\ started' = started
        /\ UNCHANGED <<received, events, provider, emitted, terminal>>
    BY <1>6 DEF AcknowledgeStart, consumerVars, HandOver, AbandonStart,
                providerVars
  <2>2. CASE /\ Registered /\ route.phase = "starting"
             /\ route' = [route EXCEPT !.phase = "replaying", !.turn = started,
                            !.deferred = <<>>, !.deferredBytes = NoBytes,
                            !.deferredBytesById = NoImages]
             /\ batch' = route.deferred /\ starter' = "replaying"
             /\ UNCHANGED <<started, handle>>
    <3>1. BatchInReplay' /\ DeferredEarly' /\ OneTurn' /\ StarterHolds'
      BY <1>6, <2>1, <2>2
         DEF BatchInReplay, DeferredEarly, OneTurn, StarterHolds,
             Registered, Deferring, AcknowledgeStart
    <3>2. \A r \in Runs : started' < r => Unstarted(r)'
      BY <1>0, <2>1, <2>2 DEF Unstarted
    <3> QED BY <3>1, <3>2
  <2>3. CASE /\ route' \in {route, NoRoute}
             /\ batch' = <<>> /\ starter' = "idle"
             /\ handle' \in {[handle EXCEPT ![started] = "held"],
                             [handle EXCEPT ![started] = "dropped"]}
    <3>1. BatchInReplay' /\ DeferredEarly' /\ OneTurn' /\ StarterHolds'
      BY <1>6, <2>1, <2>3, NoRouteFacts
         DEF BatchInReplay, DeferredEarly, OneTurn, StarterHolds,
             Registered, Deferring
    <3>2. \A r \in Runs : started' < r => Unstarted(r)'
      BY <1>0, <2>1, <2>3 DEF Unstarted, ConsumerType
    <3> QED BY <3>1, <3>2
  <2> QED BY <1>6, <2>2, <2>3
          DEF AcknowledgeStart, AbandonStart, HandOver, consumerVars
<1>7. CASE ReplayOne
  <2>1. /\ batch # <<>> /\ batch' = Tail(batch)
        /\ UNCHANGED <<starter, started, handle, received, provider, emitted>>
    BY <1>7 DEF ReplayOne, consumerVars, providerVars
  <2>2. CASE /\ Head(batch).kind = "event"
             /\ RouteEvent(Head(batch), FALSE) /\ UNCHANGED terminal
    <3>1. Head(batch) \in EventNote /\ FALSE \in BOOLEAN
      BY <2>1, <2>2, NextNotes
    <3> QED BY <2>1, <2>2, <3>1, EventReplays
  <2>3. CASE /\ Head(batch).kind = "terminal"
             /\ RouteTerminal(Head(batch), FALSE) /\ UNCHANGED events
    <3>1. Head(batch) \in TerminalNote /\ FALSE \in BOOLEAN
      BY <2>1, <2>3, NextNotes
    <3> QED BY <2>1, <2>3, <3>1, TerminalReplays
  <2> QED BY <1>7, <2>2, <2>3 DEF ReplayOne
<1>8. CASE ReplayTransition
  <2>1. /\ starter = "replaying" /\ batch = <<>> /\ started' = started
        /\ UNCHANGED <<received, events, provider, emitted, terminal>>
    BY <1>8 DEF ReplayTransition, HandOver, providerVars
  <2>2. CASE /\ Registered /\ route.phase = "replaying"
             /\ batch' = route.deferred
             /\ route' = [route EXCEPT !.deferred = <<>>,
                            !.deferredBytes = NoBytes,
                            !.deferredBytesById = NoImages]
             /\ UNCHANGED <<starter, handle>>
    <3>1. BatchInReplay' /\ DeferredEarly' /\ OneTurn' /\ StarterHolds'
      BY <2>1, <2>2 DEF BatchInReplay, DeferredEarly, OneTurn, StarterHolds,
                        Registered, Deferring
    <3>2. \A r \in Runs : started' < r => Unstarted(r)'
      BY <1>0, <2>1, <2>2 DEF Unstarted
    <3> QED BY <3>1, <3>2
  <2>3. CASE /\ HandOver
             /\ \/ /\ Registered /\ route.phase = "replaying"
                   /\ route.deferred = <<>>
                   /\ route' = [route EXCEPT !.phase = "active"]
                \/ UNCHANGED route
    <3>1. /\ batch' = <<>> /\ starter' = "idle"
          /\ handle' = [handle EXCEPT ![started] = "held"]
      BY <2>3 DEF HandOver
    <3>2. BatchInReplay' /\ DeferredEarly' /\ OneTurn' /\ StarterHolds'
      BY <2>1, <2>3, <3>1
         DEF BatchInReplay, DeferredEarly, OneTurn, StarterHolds,
             Registered, Deferring
    <3>3. \A r \in Runs : started' < r => Unstarted(r)'
      BY <1>0, <2>1, <3>1 DEF Unstarted, ConsumerType
    <3> QED BY <3>2, <3>3
  <2> QED BY <1>8, <2>2, <2>3 DEF ReplayTransition
<1>9. CASE BeginDisconnect \/ AbortDisconnect
  <2>1. UNCHANGED <<route, terminal, batch, starter, started, emitted,
                    received, events, handle, provider>>
    BY <1>9 DEF BeginDisconnect, AbortDisconnect, routeVars, starterVars,
                consumerVars, providerVars
  <2> QED BY <2>1 DEF BatchInReplay, DeferredEarly, OneTurn, StarterHolds,
                      Unstarted, Registered, Deferring
<1>10. CASE FailAllRuns
  <2>1. /\ UNCHANGED <<batch, starter, started, emitted, received, events,
                       handle, provider>>
        /\ \/ UNCHANGED <<route, terminal>>
           \/ Registered /\ route' = NoRoute
              /\ terminal' = FailedTerminal(route.run)
    BY <1>10 DEF FailAllRuns, routeVars, starterVars, consumerVars,
                 providerVars
  <2>2. BatchInReplay' /\ DeferredEarly' /\ OneTurn' /\ StarterHolds'
    BY <2>1, NoRouteFacts
       DEF BatchInReplay, DeferredEarly, OneTurn, StarterHolds, Registered,
           Deferring
  <2>3. ASSUME NEW r \in Runs, started' < r PROVE Unstarted(r)'
    <3>1. Unstarted(r) /\ started < r
      BY <2>1, <2>3
    <3>2. Registered => r # route.run
      BY <1>0, <3>1 DEF OneTurn
    <3>3. terminal'[r] = terminal[r]
      BY <2>1, <3>2 DEF FailedTerminal
    <3> QED BY ONLY <2>1, <3>1, <3>3 DEF Unstarted
  <2> QED BY <2>2, <2>3
<1>11. ASSUME NEW r \in Runs, CancelRegistered(r)
       PROVE  Replays'
  <2>1. /\ UNCHANGED <<terminal, batch, starter, started, emitted, received,
                       events, handle, provider>>
        /\ route' \in {route, NoRoute}
    BY <1>11 DEF CancelRegistered, providerVars
  <2> QED BY <2>1, NoRouteFacts
          DEF BatchInReplay, DeferredEarly, OneTurn, StarterHolds, Unstarted,
              Registered, Deferring
<1>12. ASSUME NEW r \in Runs, ReadEvent(r)
       PROVE  Replays'
  <2>1. PICK item \in Items :
          /\ emitted' = [emitted EXCEPT ![r] = Append(@, item)]
          /\ RouteEvent([kind |-> "event", turn |-> r,
                         place |-> Len(emitted[r]) + 1, item |-> item], TRUE)
    BY <1>12 DEF ReadEvent
  <2>2. r = started /\ TRUE \in BOOLEAN
    BY <1>12, SpokenInTurn
  <2>3. /\ UNCHANGED <<starter, started, handle, provider, terminal, received,
                       batch>>
        /\ \A q \in Runs : started < q => emitted'[q] = emitted[q]
    BY <1>0, <1>12, <2>1, <2>2
       DEF ReadEvent, starterVars, consumerVars, ProviderType
  <2>4. [kind |-> "event", turn |-> r, place |-> Len(emitted[r]) + 1,
         item |-> item] \in EventNote
    BY NextNotes
  <2> QED BY <2>1, <2>2, <2>3, <2>4, EventReplays
<1>13. ASSUME NEW r \in Runs, ReadTerminal(r)
       PROVE  Replays'
  <2>1. PICK status \in {"ok", "error"} :
          RouteTerminal([kind |-> "terminal", turn |-> r, status |-> status],
                        TRUE)
    BY <1>13 DEF ReadTerminal
  <2> DEFINE note == [kind |-> "terminal", turn |-> r, status |-> status]
  <2>2. r = started /\ TRUE \in BOOLEAN
    BY <1>13, SpokenInTurn
  <2>3. /\ UNCHANGED <<starter, started, handle, emitted, received, events,
                       batch>>
        /\ starter = "sending" => UNCHANGED provider
        /\ \A q \in Runs : started < q => provider'[q] = provider[q]
    BY <1>0, <1>13, <2>2
       DEF ReadTerminal, starterVars, consumerVars, ProviderType, StarterHolds
  <2>4. note \in TerminalNote /\ note.turn = started /\ RouteTerminal(note, TRUE)
    BY <2>1, <2>2, NextNotes
  <2> HIDE DEF note
  <2> QED BY <2>2, <2>3, <2>4, TerminalReplays
<1>14. ASSUME NEW r \in Runs, Receive(r) \/ ReceiveTerminal(r) \/ DropRun(r)
       PROVE  Replays'
  <2>1. UNCHANGED <<route, terminal, batch, starter, started, emitted, provider>>
    BY <1>14 DEF Receive, ReceiveTerminal, DropRun, routeVars, starterVars,
                 providerVars
  <2>2. /\ handle[r] \in {"held", "finished"}
        /\ \A q \in Runs : q # r =>
             /\ received'[q] = received[q] /\ events'[q] = events[q]
             /\ handle'[q] = handle[q]
    BY <1>14 DEF Receive, ReceiveTerminal, DropRun, ConsumerType, EventsType
  <2>3. BatchInReplay' /\ DeferredEarly' /\ OneTurn'
    BY <2>1 DEF BatchInReplay, DeferredEarly, OneTurn, Registered, Deferring
  <2>4. StarterHolds'
    BY <2>1, <2>2 DEF StarterHolds, StarterType
  <2>5. \A q \in Runs : started' < q => Unstarted(q)'
    <3>1. \A q \in Runs : started < q => q # r
      BY <2>2 DEF Unstarted
    <3> QED BY <2>1, <2>2, <3>1 DEF Unstarted
  <2> QED BY <2>3, <2>4, <2>5
<1>15. ASSUME NEW r \in Runs,
              \/ UserInterrupt(r) \/ InterruptTask(r)
              \/ \E w \in Watcher : WatchBegin(r, w) \/ WatchEnd(r, w)
       PROVE  Replays'
  <2>1. UNCHANGED <<route, terminal, batch, starter, started, emitted,
                    received, events, handle, provider>>
    BY <1>15 DEF UserInterrupt, InterruptTask, WatchBegin, WatchEnd,
                 routeVars, starterVars, consumerVars, providerVars
  <2> QED BY <2>1 DEF BatchInReplay, DeferredEarly, OneTurn, StarterHolds,
                      Unstarted, Registered, Deferring
<1>16. ASSUME NEW r \in Runs, DeadlineExpires(r)
       PROVE  Replays'
  <2>1. /\ UNCHANGED <<terminal, batch, starter, started, emitted, received,
                       events, handle, provider>>
        /\ \/ UNCHANGED route
           \/ route' = [route EXCEPT !.failure = "timeout"]
    BY <1>16 DEF DeadlineExpires, starterVars, consumerVars, providerVars
  <2> QED BY <2>1 DEF BatchInReplay, DeferredEarly, OneTurn, StarterHolds,
                      Unstarted, Registered, Deferring
<1>17. ASSUME NEW r \in Runs PROVE ~ReadLate(r)
  BY SpokenInTurn
<1> QED
  BY <1>1, <1>2, <1>3, <1>4, <1>5, <1>6, <1>7, <1>8, <1>9, <1>10, <1>11,
     <1>12, <1>13, <1>14, <1>15, <1>16, <1>17 DEF Next

-----------------------------------------------------------------------------
(* What a run's consumer has is in order and without gaps.                 *)
Delivered(r) == handle[r] # "dropped" => Streamed(Seen(r), r, emitted[r])

(* A result that says Ok comes after the terminal and hides nothing.       *)
Complete(r) ==
  terminal[r].status = "ok" /\ ~abandoned[r] /\ handle[r] # "dropped" =>
    /\ provider[r] = "ended"
    /\ terminal[r].text = TextOf(emitted[r])
    /\ terminal[r].images = LatestImages(emitted[r])
    /\ \A n \in DOMAIN emitted[r] :
         Supplanted(emitted[r], n) \/ n \in Places(Seen(r))

(* The route takes what its turn writes: nothing failed and somebody is    *)
(* there to receive it.  Then it has passed on everything up to some       *)
(* frontier, and everything beyond waits to be replayed.                   *)
Taking ==
  /\ Registered /\ route.phase # "ended" /\ route.failure = "none"
  /\ ~abandoned[started] /\ handle[started] # "dropped"
Frontier(k) ==
  /\ PassedOn(Places(Seen(started)), emitted[started], k, route.text,
              route.images)
  /\ Waits(batch, route.deferred, started, emitted[started],
           provider[started] = "ended", k)

Streams ==
  /\ \A r \in Runs : Delivered(r) /\ Complete(r)
  /\ Taking => \E k \in Nat : Frontier(k)

(* Steps that leave the streams of the turns as they are.                  *)
Quiet ==
  /\ UNCHANGED <<started, emitted>>
  /\ \A r \in Runs :
       /\ Seen(r)' = Seen(r) \/ handle'[r] = "dropped"
       /\ provider'[r] = "ended" <=> provider[r] = "ended"
       /\ abandoned[r] => abandoned'[r]
       /\ handle[r] = "dropped" => handle'[r] = "dropped"
       /\ terminal'[r] = terminal[r] \/ terminal'[r].status # "ok"
  /\ Taking' => /\ Taking /\ batch' = batch
                /\ route'.deferred = route.deferred
                /\ route'.text = route.text /\ route'.images = route.images

(* A step that moves neither the stream nor its route keeps Streams.       *)
LEMMA QuietKeeps ==
  ASSUME TypeOK, Replays, Streams, Quiet
  PROVE  Streams'
<1>1. ASSUME NEW r \in Runs
      PROVE  Delivered(r)' /\ Complete(r)'
  <2>1. handle'[r] # "dropped" => Seen(r)' = Seen(r) /\ handle[r] # "dropped"
    BY DEF Quiet
  <2>2. Delivered(r)'
    BY <2>1 DEF Quiet, Streams, Delivered
  <2>3. terminal'[r].status = "ok" => terminal'[r] = terminal[r]
    BY DEF Quiet
  <2>4. Complete(r)'
    BY <2>1, <2>3 DEF Quiet, Streams, Complete
  <2> QED BY <2>2, <2>4
<1>2. ASSUME Taking' PROVE \E k \in Nat : Frontier(k)'
  <2>1. started \in Runs
    <3>1. Registered /\ Taking
      BY <1>2 DEF Quiet, Taking
    <3>2. route.run = started /\ route.run # 0 /\ route.run \in 0..MaxRuns
      BY <3>1 DEF Replays, OneTurn, Registered, TypeOK, RouteVarsType, RouteType
    <3> QED BY <3>2, BoundsAssumption DEF Runs
  <2>2. handle'[started] # "dropped"
    BY <1>2 DEF Taking, Quiet
  <2>3. Seen(started)' = Seen(started)
    BY <2>1, <2>2 DEF Quiet, Seen
  <2>4. PICK k \in Nat : Frontier(k)
    BY <1>2 DEF Quiet, Streams
  <2>5. (provider'[started] = "ended") = (provider[started] = "ended")
    BY <2>1 DEF Quiet
  <2>6. Frontier(k)'
    BY <1>2, <2>3, <2>4, <2>5 DEF Frontier, Quiet
  <2> QED BY <2>6
<1> QED BY <1>1, <1>2 DEF Streams

(* A step that changes neither the notifications nor the route's share of  *)
(* them is quiet.                                                          *)
LEMMA StillIsQuiet ==
  ASSUME TypeOK, UNCHANGED <<started, emitted, received, events, terminal>>,
         \A r \in Runs :
           /\ provider'[r] = "ended" <=> provider[r] = "ended"
           /\ abandoned[r] => abandoned'[r]
           /\ handle[r] = "dropped" => handle'[r] = "dropped",
         Registered => started \in Runs,
         \/ ~Taking'
         \/ batch' = batch /\ route' = route
  PROVE  Quiet
<1>1. \A r \in Runs : Seen(r)' = Seen(r)
  BY DEF Seen
<1>2. Taking' => Taking /\ batch' = batch /\ route' = route
  BY DEF Taking, Registered
<1> QED BY <1>1, <1>2 DEF Quiet

(* The registered run is the one last started.                             *)
LEMMA RunOfRoute ==
  ASSUME TypeOK, Replays
  PROVE  Registered => started \in Runs /\ route.run = started
<1>1. Registered => route.run = started /\ route.run # 0 /\ route.run \in 0..MaxRuns
  BY DEF Replays, OneTurn, Registered, TypeOK, RouteVarsType, RouteType
<1> QED BY <1>1, BoundsAssumption DEF Runs

(* The steps that leave the stream alone.                                  *)
LEMMA QuietSteps ==
  ASSUME TypeOK, Replays,
         \/ SendTurnStart \/ RequestTimeout \/ DrainRequest \/ ReadResponse
         \/ RefuseStart \/ CancelStart
         \/ BeginDisconnect \/ AbortDisconnect \/ FailAllRuns
         \/ \E r \in Runs :
              \/ CancelRegistered(r) \/ Receive(r) \/ ReceiveTerminal(r)
              \/ DropRun(r) \/ UserInterrupt(r) \/ InterruptTask(r)
              \/ DeadlineExpires(r)
              \/ \E w \in Watcher : WatchBegin(r, w) \/ WatchEnd(r, w)
  PROVE  Quiet
<1> USE DEF TypeOK
<1>0. Registered => started \in Runs /\ route.run = started
  BY RunOfRoute
<1>1. CASE SendTurnStart \/ RequestTimeout \/ DrainRequest \/ ReadResponse
  <2>1. UNCHANGED <<route, terminal, batch, started, emitted, received, events,
                    handle, abandoned>>
    BY <1>1 DEF SendTurnStart, RequestTimeout, DrainRequest, ReadResponse,
                routeVars, consumerVars, providerVars
  <2>2. \A r \in Runs : provider'[r] = "ended" <=> provider[r] = "ended"
    <3>1. \/ UNCHANGED provider
          \/ /\ provider[started] # "ended"
             /\ \/ provider' = [provider EXCEPT ![started] = "open"]
                \/ provider' = [provider EXCEPT ![started] = "refused"]
      BY <1>1 DEF SendTurnStart, RequestTimeout, DrainRequest, ReadResponse,
                  providerVars, Replays, StarterHolds
    <3> QED BY <3>1 DEF ProviderType
  <2> QED BY <1>0, <2>1, <2>2, StillIsQuiet
<1>2. CASE RefuseStart
  <2>1. /\ handle' = [handle EXCEPT ![started] = "dropped"]
        /\ started' = started /\ started \in Runs
        /\ UNCHANGED <<received, events, provider, emitted, abandoned>>
    BY <1>2 DEF RefuseStart, AbandonStart, providerVars, StarterType
  <2>2. \A r \in Runs : terminal'[r] = terminal[r] \/ terminal'[r].status # "ok"
    <3>1. \/ UNCHANGED terminal
          \/ terminal' = [terminal EXCEPT ![route.run] = ErrResult]
      BY <1>2 DEF RefuseStart, routeVars
    <3> QED BY <3>1 DEF RouteVarsType, ErrResult
  <2>3. ~Taking'
    BY <2>1 DEF Taking, ConsumerType
  <2> QED BY <2>1, <2>2, <2>3 DEF Quiet, Seen, ConsumerType
<1>3. CASE CancelStart
  <2>1. /\ handle' = [handle EXCEPT ![started] = "dropped"]
        /\ started' = started /\ started \in Runs
        /\ UNCHANGED <<received, events, provider, emitted, abandoned, terminal>>
    BY <1>3 DEF CancelStart, AbandonStart, providerVars, StarterType, routeVars
  <2>2. ~Taking'
    BY <2>1 DEF Taking, ConsumerType
  <2>3. \A r \in Runs : handle[r] = "dropped" => handle'[r] = "dropped"
    BY <2>1 DEF ConsumerType
  <2> QED BY <1>0, <2>1, <2>2, <2>3, StillIsQuiet
<1>4. CASE BeginDisconnect \/ AbortDisconnect
  <2>1. UNCHANGED <<route, terminal, batch, started, emitted, received, events,
                    handle, abandoned, provider>>
    BY <1>4 DEF BeginDisconnect, AbortDisconnect, routeVars, starterVars,
                consumerVars, providerVars
  <2> QED BY <1>0, <2>1, StillIsQuiet
<1>5. CASE FailAllRuns
  <2>1. UNCHANGED <<batch, started, emitted, received, events, handle,
                    abandoned, provider>>
    BY <1>5 DEF FailAllRuns, starterVars, consumerVars, providerVars
  <2>2. CASE UNCHANGED routeVars
    BY <1>0, <2>1, <2>2, StillIsQuiet DEF routeVars
  <2>3. CASE terminal' = FailedTerminal(route.run) /\ route' = NoRoute
    <3>1. ~Taking'
      BY <2>3, NoRouteFacts DEF Taking, Registered
    <3>2. \A r \in Runs : terminal'[r] = terminal[r] \/ terminal'[r].status # "ok"
      BY <2>3 DEF FailedTerminal, RouteVarsType, ErrResult
    <3> QED BY <2>1, <3>1, <3>2 DEF Quiet, Seen
  <2> QED BY <1>5, <2>2, <2>3 DEF FailAllRuns
<1>6. ASSUME NEW r \in Runs, CancelRegistered(r)
      PROVE  Quiet
  <2>1. /\ UNCHANGED <<terminal, batch, started, emitted, received, events,
                       handle, provider>>
        /\ \/ route' = NoRoute /\ UNCHANGED abandoned
           \/ UNCHANGED <<route, abandoned>>
           \/ /\ route' = route
              /\ abandoned' = [abandoned EXCEPT ![route.run] = TRUE]
    BY <1>6 DEF CancelRegistered, providerVars
  <2>2. \A q \in Runs : abandoned[q] => abandoned'[q]
    BY <2>1 DEF ConsumerType
  <2>3. route' = route \/ ~Taking'
    BY <2>1, NoRouteFacts DEF Taking, Registered
  <2> QED BY <1>0, <2>1, <2>2, <2>3, StillIsQuiet
<1>7. ASSUME NEW r \in Runs, Receive(r)
      PROVE  Quiet
  <2>1. /\ events[r] # <<>>
        /\ received' = [received EXCEPT ![r] = Append(@, Head(events[r]))]
        /\ events' = [events EXCEPT ![r] = Tail(@)]
        /\ UNCHANGED <<route, terminal, batch, started, emitted, handle,
                       abandoned, provider>>
    BY <1>7 DEF Receive, routeVars, starterVars, providerVars
  <2>2. \A q \in Runs : Seen(q)' = Seen(q)
    <3>1. ASSUME NEW q \in Runs, q # r PROVE Seen(q)' = Seen(q)
      BY <2>1, <3>1 DEF Seen, ConsumerType, EventsType
    <3>2. Seen(r)' = Seen(r)
      <4>1. events[r] \in Seq(EventNote) /\ received[r] \in Seq(EventNote)
        BY DEF ConsumerType, EventsType
      <4>2. /\ received'[r] = Append(received[r], Head(events[r]))
            /\ events'[r] = Tail(events[r])
        BY <2>1 DEF ConsumerType, EventsType
      <4> QED BY <2>1, <4>1, <4>2, MoveHead DEF Seen
    <3> QED BY <3>1, <3>2
  <2>3. Taking' => Taking
    BY <2>1 DEF Taking, Registered
  <2> QED BY <2>1, <2>2, <2>3 DEF Quiet
<1>8. ASSUME NEW r \in Runs, DropRun(r)
      PROVE  Quiet
  <2>1. /\ handle' = [handle EXCEPT ![r] = "dropped"]
        /\ events' = [events EXCEPT ![r] = <<>>]
        /\ UNCHANGED <<route, terminal, batch, started, emitted, received,
                       provider>>
    BY <1>8 DEF DropRun, routeVars, starterVars, providerVars
  <2>2. \A q \in Runs : abandoned[q] => abandoned'[q]
    BY <1>8 DEF DropRun, ConsumerType
  <2>3. \A q \in Runs : /\ Seen(q)' = Seen(q) \/ handle'[q] = "dropped"
                        /\ handle[q] = "dropped" => handle'[q] = "dropped"
    BY <2>1 DEF Seen, ConsumerType, EventsType
  <2>4. Taking' => Taking
    <3>1. Registered' = Registered
      BY <2>1 DEF Registered
    <3> QED BY <1>0, <2>1, <2>2, <2>3, <3>1 DEF Taking
  <2> QED BY <2>1, <2>2, <2>3, <2>4 DEF Quiet
<1>9. ASSUME NEW r \in Runs,
             \/ ReceiveTerminal(r) \/ UserInterrupt(r) \/ InterruptTask(r)
             \/ \E w \in Watcher : WatchBegin(r, w) \/ WatchEnd(r, w)
      PROVE  Quiet
  <2>1. UNCHANGED <<route, terminal, batch, started, emitted, received, events,
                    abandoned, provider>>
    BY <1>9 DEF ReceiveTerminal, UserInterrupt, InterruptTask, WatchBegin,
                WatchEnd, routeVars, starterVars, consumerVars, providerVars
  <2>2. \A q \in Runs : handle[q] = "dropped" => handle'[q] = "dropped"
    <3>1. \/ UNCHANGED handle
          \/ /\ handle[r] # "dropped"
             /\ handle' = [handle EXCEPT ![r] = "finished"]
      BY <1>9 DEF ReceiveTerminal, UserInterrupt, InterruptTask, WatchBegin,
                  WatchEnd, consumerVars
    <3> QED BY <3>1 DEF ConsumerType
  <2> QED BY <1>0, <2>1, <2>2, StillIsQuiet
<1>10. ASSUME NEW r \in Runs, DeadlineExpires(r)
       PROVE  Quiet
  <2>1. /\ UNCHANGED <<terminal, batch, started, emitted, received, events,
                       handle, abandoned, provider>>
        /\ route' = route \/ route' = [route EXCEPT !.failure = "timeout"]
    BY <1>10 DEF DeadlineExpires, starterVars, consumerVars, providerVars
  <2>2. route' = route \/ ~Taking'
    BY <2>1 DEF Taking, RouteVarsType, RouteType
  <2> QED BY <1>0, <2>1, <2>2, StillIsQuiet
<1> QED BY <1>1, <1>2, <1>3, <1>4, <1>5, <1>6, <1>7, <1>8, <1>9, <1>10

(* A turn of which nothing was written yet.                                *)
LEMMA NothingWritten ==
  ASSUME NEW r
  PROVE  /\ PassedOn({}, <<>>, 0, NoBytes, NoImages)
         /\ Waits(<<>>, <<>>, r, <<>>, FALSE, 0)
<1>1. TextUpTo(<<>>, 0) = NoBytes
  <2>1. <<>> \in Seq(ItemType)
    OBVIOUS
  <2> QED BY <2>1, TextGrows DEF NoBytes
<1>2. UpToDate(NoImages, {}, <<>>)
  BY DEF UpToDate, NoImages
<1>3. DOMAIN <<>> = {} /\ Len(<<>>) = 0
  OBVIOUS
<1>4. PassedOn({}, <<>>, 0, NoBytes, NoImages)
  BY <1>1, <1>2, <1>3 DEF PassedOn
<1>5. Waits(<<>>, <<>>, r, <<>>, FALSE, 0)
  BY <1>3 DEF Waits, AsWritten, Ascending, Before, Beyond
<1> QED BY <1>4, <1>5

(* Session::start begins an empty stream.                                  *)
LEMMA StartKeeps ==
  ASSUME TypeOK, Replays, Streams, Start
  PROVE  Streams'
<1> USE DEF TypeOK
<1> DEFINE r == started + 1
<1>1. r \in Runs /\ Unstarted(r)
  <2>1. started \in Nat /\ r \in Runs
    BY BoundsAssumption DEF Start, StarterType, Runs
  <2> QED BY <2>1 DEF Replays
<1>2. /\ started' = r /\ batch' = batch /\ batch = <<>>
      /\ route' = FreshRoute(r)
      /\ handle' = [handle EXCEPT ![r] = "starting"]
      /\ UNCHANGED <<terminal, provider, emitted, received, events, abandoned>>
  BY DEF Start, Replays, BatchInReplay, providerVars
<1> HIDE DEF r
<1>3. ASSUME NEW q \in Runs PROVE Delivered(q)' /\ Complete(q)'
  <2>1. handle'[q] # "dropped" => handle[q] # "dropped"
    BY <1>1, <1>2 DEF Unstarted, ConsumerType
  <2>2. Seen(q)' = Seen(q)
    BY <1>2 DEF Seen
  <2>3. Delivered(q) /\ Complete(q)
    BY DEF Streams
  <2>4. Delivered(q)'
    BY <1>2, <2>1, <2>2, <2>3 DEF Delivered
  <2>5. Complete(q)'
    BY <1>2, <2>1, <2>2, <2>3 DEF Complete
  <2> QED BY <2>4, <2>5
<1>4. Frontier(0)'
  <2>1. Places(Seen(started)') = {} /\ emitted'[started'] = <<>>
        /\ Seen(started)' = <<>>
    <3>1. received'[r] = <<>> /\ events'[r] = <<>> /\ emitted'[r] = <<>>
      BY <1>1, <1>2 DEF Unstarted
    <3>2. Seen(started)' = <<>>
      BY <1>2, <3>1 DEF Seen
    <3> QED BY <1>2, <3>1, <3>2 DEF Places
  <2>2. /\ route'.text = NoBytes /\ route'.images = NoImages
        /\ route'.deferred = <<>> /\ batch' = <<>>
        /\ (provider'[started'] = "ended") = FALSE
    BY <1>1, <1>2 DEF FreshRoute, Unstarted
  <2> QED BY <2>1, <2>2, NothingWritten DEF Frontier
<1> QED BY <1>3, <1>4 DEF Streams

(* acknowledge_start and replay_transition take what was deferred.         *)
Moved ==
  /\ UNCHANGED <<started, emitted, received, events, terminal, provider,
                 handle, abandoned>>
  /\ batch = <<>> /\ batch' = route.deferred
  /\ route'.deferred = <<>>
  /\ route'.text = route.text /\ route'.images = route.images
  /\ Taking' => Taking

(* The deferred notifications become the batch: what waits is the same.    *)
LEMMA MovedKeeps ==
  ASSUME TypeOK, Replays, Streams, Moved
  PROVE  Streams'
<1>1. ASSUME NEW q \in Runs PROVE Delivered(q)' /\ Complete(q)'
  BY DEF Streams, Moved, Delivered, Complete, Seen
<1>2. ASSUME Taking' PROVE \E k \in Nat : Frontier(k)'
  <2>1. PICK k \in Nat : Frontier(k)
    BY <1>2 DEF Moved, Streams
  <2>2. emitted[started] \in Seq(Items)
    BY <1>2, RunOfRoute DEF Moved, Taking, TypeOK, ProviderType
  <2>3. Waits(route.deferred, <<>>, started, emitted[started],
              provider[started] = "ended", k)
    BY <2>1, <2>2, DeferredIsNext DEF Frontier, Moved
  <2>4. Seen(started)' = Seen(started)
    BY DEF Seen, Moved
  <2>5. Frontier(k)'
    BY <2>1, <2>3, <2>4 DEF Frontier, Moved
  <2> QED BY <2>5
<1> QED BY <1>1, <1>2 DEF Streams

(* What acknowledging and replaying do to the stream: that, or nothing.    *)
LEMMA ReplayMoves ==
  ASSUME TypeOK, Replays, AcknowledgeStart \/ ReplayTransition
  PROVE  Moved \/ Quiet
<1> USE DEF TypeOK
<1>0. Registered => started \in Runs /\ route.run = started
  BY RunOfRoute
<1>1. CASE AcknowledgeStart
  <2>1. /\ started' = started /\ starter = "acknowledging" /\ started \in Runs
        /\ handle[started] = "starting" /\ batch = <<>>
        /\ UNCHANGED <<received, events, provider, emitted, terminal, abandoned>>
    BY <1>1 DEF AcknowledgeStart, consumerVars, HandOver, AbandonStart,
                providerVars, StarterType, Replays, StarterHolds, BatchInReplay
  <2>2. CASE /\ Registered /\ route.phase = "starting"
             /\ route' = [route EXCEPT !.phase = "replaying", !.turn = started,
                            !.deferred = <<>>, !.deferredBytes = NoBytes,
                            !.deferredBytesById = NoImages]
             /\ batch' = route.deferred
             /\ UNCHANGED handle
    <3>1. /\ route'.deferred = <<>> /\ route'.text = route.text
          /\ route'.images = route.images /\ route'.run = route.run
          /\ route'.failure = route.failure
      BY <2>2 DEF RouteVarsType, RouteType
    <3>2. Taking' => Taking
      BY <2>1, <2>2, <3>1 DEF Taking, Registered
    <3> QED BY <2>1, <2>2, <3>1, <3>2 DEF Moved
  <2>3. CASE /\ route' = NoRoute
             /\ handle' = [handle EXCEPT ![started] = "held"]
    <3>1. ~Taking'
      BY <2>3, NoRouteFacts DEF Taking, Registered
    <3>2. \A r \in Runs : handle[r] = "dropped" => handle'[r] = "dropped"
      BY <2>1, <2>3 DEF ConsumerType
    <3> QED BY <2>1, <3>1, <3>2, StillIsQuiet
  <2>4. CASE handle' = [handle EXCEPT ![started] = "dropped"]
    <3>1. ~Taking'
      BY <2>1, <2>4 DEF Taking, ConsumerType
    <3>2. \A r \in Runs : handle[r] = "dropped" => handle'[r] = "dropped"
      BY <2>1, <2>4 DEF ConsumerType
    <3> QED BY <2>1, <3>1, <3>2, StillIsQuiet
  <2> QED BY <1>1, <2>2, <2>3, <2>4
          DEF AcknowledgeStart, HandOver, AbandonStart, consumerVars
<1>2. CASE ReplayTransition
  <2>1. /\ started' = started /\ starter = "replaying" /\ started \in Runs
        /\ handle[started] = "starting" /\ batch = <<>>
        /\ UNCHANGED <<received, events, provider, emitted, terminal, abandoned>>
    BY <1>2 DEF ReplayTransition, HandOver, providerVars, StarterType, Replays,
                StarterHolds
  <2>2. CASE /\ Registered /\ route.phase = "replaying"
             /\ batch' = route.deferred
             /\ route' = [route EXCEPT !.deferred = <<>>,
                            !.deferredBytes = NoBytes,
                            !.deferredBytesById = NoImages]
             /\ UNCHANGED handle
    <3>1. /\ route'.deferred = <<>> /\ route'.text = route.text
          /\ route'.images = route.images /\ route'.run = route.run
          /\ route'.failure = route.failure
      BY <2>2 DEF RouteVarsType, RouteType
    <3>2. Taking' => Taking
      BY <2>1, <2>2, <3>1 DEF Taking, Registered
    <3> QED BY <2>1, <2>2, <3>1, <3>2 DEF Moved
  <2>3. CASE /\ HandOver
             /\ \/ /\ Registered /\ route.phase = "replaying"
                   /\ route.deferred = <<>>
                   /\ route' = [route EXCEPT !.phase = "active"]
                \/ UNCHANGED route
    <3>1. /\ batch' = batch /\ handle' = [handle EXCEPT ![started] = "held"]
      BY <2>1, <2>3 DEF HandOver
    <3>2. \A r \in Runs : handle[r] = "dropped" => handle'[r] = "dropped"
      BY <2>1, <3>1 DEF ConsumerType
    <3>3. CASE UNCHANGED route
      BY <1>0, <2>1, <3>1, <3>2, <3>3, StillIsQuiet
    <3>4. CASE /\ Registered /\ route.phase = "replaying"
               /\ route' = [route EXCEPT !.phase = "active"]
      <4>1. /\ route'.deferred = route.deferred /\ route'.text = route.text
            /\ route'.images = route.images /\ route'.run = route.run
            /\ route'.failure = route.failure
        BY <3>4 DEF RouteVarsType, RouteType
      <4>2. Taking' => Taking
        BY <2>1, <3>4, <4>1 DEF Taking, Registered
      <4> QED BY <2>1, <3>1, <3>2, <4>1, <4>2 DEF Quiet, Seen
    <3> QED BY <2>3, <3>3, <3>4
  <2> QED BY <1>2, <2>2, <2>3 DEF ReplayTransition
<1> QED BY <1>1, <1>2

(* Retaining an event adds its text and its image.                         *)
LEMMA RetainedAdds ==
  ASSUME route \in RouteType, NEW item \in Items
  PROVE  LET kept == Retained(item) IN
         /\ kept.text = route.text + TextSize(item)
         /\ kept.images = ImagesWith(route.images, item)
         /\ kept.deferred = route.deferred
<1>1. CASE item.kind = "text"
  BY <1>1, ItemFacts
     DEF Retained, RouteType, TextSize, ImagesWith, TextWith
<1>2. CASE item.kind = "image"
  <2> DEFINE bytes == ImageBytesWith(item)
             images == [route.images EXCEPT ![item.id] = item.size]
  <2>1. Retained(item) = [route EXCEPT !.imageBytes = bytes, !.images = images]
    BY <1>2 DEF Retained, RouteType
  <2>2. route.text + TextSize(item) = route.text
    BY <1>2 DEF TextSize, RouteType
  <2>3. ImagesWith(route.images, item) = images
    BY <1>2 DEF ImagesWith
  <2> HIDE DEF bytes, images
  <2> QED BY <2>1, <2>2, <2>3 DEF RouteType
<1>3. CASE item.kind = "other"
  BY <1>3, ItemFacts DEF Retained, RouteType, TextSize, ImagesWith
<1> QED BY <1>1, <1>2, <1>3, ItemFacts

(* Only a route that takes its turn's events passes one on, and none of    *)
(* those is ignored.                                                       *)
LEMMA PassedIsTaken ==
  ASSUME TypeOK, Replays, NEW note,
         Accepts(note), ChannelTakes(route.run)
  PROVE  Taking
BY RunOfRoute DEF Accepts, ChannelTakes, ReceiverAlive, Taking

(* A route that still takes the turn accepts its notifications.            *)
LEMMA TakenIsAccepted ==
  ASSUME TypeOK, Replays, Taking, NEW note, note.turn = started
  PROVE  Accepts(note)
BY RunOfRoute DEF Accepts, Taking, Replays, OneTurn

(* The event at the head of a queue reaches the channel.                   *)
LEMMA HeadReaches ==
  ASSUME TypeOK, Replays, Streams, NEW note \in EventNote, EventPassed(note),
         UNCHANGED <<started, received>>,
         NEW items \in Seq(Items), NEW k, NEW now \in Seq(Note),
         NEW next \in Seq(Note), NEW over,
         Streamed(Seen(started), started, items),
         PassedOn(Places(Seen(started)), items, k, route.text, route.images),
         Waits(now, next, started, items, over, k),
         now # <<>>, Head(now) = note
  PROVE  LET x == note.place IN
         /\ x \in Nat
         /\ Streamed(Seen(started)', started, items)
         /\ PassedOn(Places(Seen(started)'), items, x, route'.text,
                     route'.images)
         /\ Waits(Tail(now), next, started, items, over, x)
         /\ \A n \in Places(Seen(started)) : n \in Places(Seen(started)')
<1> DEFINE x == note.place
           seen == Seen(started)
<1>1. started \in Runs /\ route.run = started
  BY RunOfRoute DEF EventPassed, Accepts
<1>2. route.images \in [ImageIds -> Nat] /\ route \in RouteType
  BY DEF TypeOK, RouteVarsType, RouteType
<1>3. note.kind = "event" /\ note.item \in Items /\ x \in Nat
  BY DEF EventNote
<1>4. /\ x \in (k + 1)..Len(items) /\ note.item = items[x]
      /\ note.turn = started
      /\ PassedOn(Places(seen) \cup {x}, items, x,
                  route.text + TextSize(items[x]),
                  ImagesWith(route.images, items[x]))
      /\ Waits(Tail(now), next, started, items, over, x)
  <2>2. Head(now).kind = "event" /\ now # <<>> /\ Head(now) = note
    BY <1>3
  <2> DEFINE had == Places(seen)
  <2>3. PassedOn(had, items, k, route.text, route.images)
    OBVIOUS
  <2> DEFINE text == route.text
             images == route.images
  <2>5. images \in [ImageIds -> Nat] /\ PassedOn(had, items, k, text, images)
    BY <1>2, <2>3
  <2>6. x = Head(now).place
    BY <2>2
  <2> HIDE DEF had, text, images, x
  <2>7. /\ items \in Seq(Items) /\ now \in Seq(Note) /\ next \in Seq(Note)
        /\ Waits(now, next, started, items, over, k)
    OBVIOUS
  <2>8. Head(now).place \in (k + 1)..Len(items)
    BY ONLY <2>2, <2>5, <2>7, HeadPasses
  <2>9. /\ Head(now).turn = started
        /\ Head(now).item = items[Head(now).place]
    <3>1. AsWritten(now, started, items, over)
      BY ONLY <2>7 DEF Waits
    <3>2. 1 \in DOMAIN now /\ Head(now) = now[1]
      BY ONLY <2>2, <2>7
    <3> QED BY ONLY <2>2, <3>1, <3>2 DEF AsWritten
  <2>10. PassedOn(had \cup {Head(now).place}, items, Head(now).place,
                  text + TextSize(items[Head(now).place]),
                  ImagesWith(images, items[Head(now).place]))
    BY ONLY <2>2, <2>5, <2>7, HeadPasses
  <2>11. Waits(Tail(now), next, started, items, over, Head(now).place)
    BY ONLY <2>2, <2>5, <2>7, HeadPasses
  <2>4. /\ x \in (k + 1)..Len(items) /\ Head(now).item = items[x]
        /\ Head(now).turn = started
        /\ PassedOn(had \cup {x}, items, x, text + TextSize(items[x]),
                    ImagesWith(images, items[x]))
        /\ Waits(Tail(now), next, started, items, over, x)
    BY <2>6, <2>8, <2>9, <2>10, <2>11
  <2> QED BY <2>2, <2>4 DEF had, text, images
<1>5. seen \in Seq(EventNote) /\ Seen(started)' = Append(seen, note)
  <2>1. events[started] \in Seq(EventNote) /\ received[started] \in Seq(EventNote)
    BY <1>1 DEF TypeOK, ConsumerType, EventsType
  <2>2. events'[started] = Append(events[started], note)
    BY <1>1 DEF EventPassed, TypeOK, ConsumerType, EventsType
  <2>3. seen \in Seq(EventNote)
    BY <2>1 DEF Seen
  <2>4. Seen(started)' = received[started] \o Append(events[started], note)
    BY <2>2 DEF Seen
  <2>5. received[started] \o Append(events[started], note) = Append(seen, note)
    <3> DEFINE a == received[started]
               b == events[started]
    <3>1. a \in Seq(EventNote) /\ b \in Seq(EventNote)
      BY <2>1
    <3> HIDE DEF a, b
    <3>2. a \o Append(b, note) = Append(a \o b, note)
      BY <3>1, AppendLater
    <3> QED BY <3>2 DEF a, b, Seen
  <2> QED BY <2>3, <2>4, <2>5
<1>6. \A n \in 1..x : Supplanted(items, n) \/ n \in Places(seen) \cup {x}
  BY <1>4 DEF PassedOn
<1>7. /\ Streamed(Append(seen, note), started, items)
      /\ Places(Append(seen, note)) = Places(seen) \cup {x}
  <2> HIDE DEF seen
  <2> QED BY <1>4, <1>5, <1>6, StreamedGrows DEF seen
<1>8. /\ route'.text = route.text + TextSize(items[x])
      /\ route'.images = ImagesWith(route.images, items[x])
  BY <1>2, <1>3, <1>4, RetainedAdds DEF EventPassed
<1> QED BY <1>3, <1>4, <1>5, <1>7, <1>8

(* The caller of Session::start replays an event.                          *)
LEMMA ReplayedEventKeeps ==
  ASSUME TypeOK, Replays, Streams,
         UNCHANGED <<started, received, emitted, terminal, handle, abandoned,
                     provider>>,
         batch # <<>>, batch' = Tail(batch),
         Head(batch).kind = "event", RouteEvent(Head(batch), FALSE)
  PROVE  Streams'
<1> DEFINE note == Head(batch)
<1>1. note \in EventNote
  BY NextNotes
<1>2. /\ \/ EventFails \/ EventIgnored(note) \/ EventPassed(note)
      /\ route \in RouteType
  <2>1. route \in RouteType /\ FALSE \in BOOLEAN
    BY DEF TypeOK, RouteVarsType
  <2> QED BY <1>1, <2>1, EventOutcomes
<1>3. ASSUME Taking
      PROVE  \E k \in Nat : Frontier(k) /\ note.turn = started
  <2>1. PICK k \in Nat : Frontier(k)
    BY <1>3 DEF Streams
  <2>2. 1 \in DOMAIN batch /\ note = batch[1]
    BY DEF TypeOK, StarterType
  <2> QED BY <2>1, <2>2 DEF Frontier, Waits, AsWritten
<1>4. CASE EventFails
  <2>1. ~Taking'
    BY <1>4 DEF EventFails, Taking
  <2>2. UNCHANGED events
    BY <1>4 DEF EventFails
  <2> QED BY <2>1, <2>2, StillIsQuiet, QuietKeeps, RunOfRoute
<1>5. CASE EventIgnored(note)
  <2>1. UNCHANGED <<route, events>>
    BY <1>5 DEF EventIgnored
  <2>2. ~Taking
    BY <1>3, <1>5, TakenIsAccepted DEF EventIgnored
  <2>3. ~Taking'
    BY <2>1, <2>2 DEF Taking, Registered
  <2> QED BY <2>1, <2>3, StillIsQuiet, QuietKeeps, RunOfRoute
<1>6. CASE EventPassed(note)
  <2>1. Taking
    BY <1>6, PassedIsTaken DEF EventPassed
  <2>2. PICK k \in Nat : Frontier(k)
    BY <1>3, <2>1
  <2>3. started \in Runs /\ route.run = started /\ Registered
    BY <1>6, RunOfRoute DEF EventPassed, Accepts
  <2>4. /\ emitted[started] \in Seq(Items) /\ batch \in Seq(Note)
        /\ route.deferred \in Seq(Note) /\ Delivered(started)
    BY <1>2, <2>3 DEF TypeOK, ProviderType, StarterType, RouteType, Streams
  <2>5. Streamed(Seen(started), started, emitted[started])
    BY <2>1, <2>4 DEF Delivered, Taking
  <2> HIDE DEF note
  <2>6. /\ note.place \in Nat
        /\ Streamed(Seen(started)', started, emitted[started])
        /\ PassedOn(Places(Seen(started)'), emitted[started], note.place,
                    route'.text, route'.images)
        /\ Waits(Tail(batch), route.deferred, started, emitted[started],
                 provider[started] = "ended", note.place)
    BY <1>1, <1>6, <2>2, <2>4, <2>5, HeadReaches DEF Frontier, note
  <2>7. route'.deferred = route.deferred
    BY <1>1, <1>2, <1>6, RetainedAdds DEF EventPassed, EventNote
  <2>10. PICK x \in Nat : x = note.place
    BY <2>6
  <2>8. Frontier(x)'
    BY <2>6, <2>7, <2>10 DEF Frontier
  <2>9. ASSUME NEW q \in Runs PROVE Delivered(q)' /\ Complete(q)'
    <3>1. CASE q = started
      <4>1. terminal[started].status = "none"
        BY <1>6, <2>3 DEF EventPassed, Accepts, Replays, OneTurn
      <4>2. Delivered(q)'
        BY <2>6, <3>1 DEF Delivered
      <4>3. Complete(q)'
        BY <3>1, <4>1 DEF Complete
      <4> QED BY <4>2, <4>3
    <3>2. CASE q # started
      <4>1. Seen(q)' = Seen(q)
        BY <1>6, <2>3, <3>2
           DEF Seen, EventPassed, TypeOK, ConsumerType, EventsType
      <4>2. Delivered(q) /\ Complete(q)
        BY DEF Streams
      <4> QED BY <4>1, <4>2 DEF Delivered, Complete
    <3> QED BY <3>1, <3>2
  <2> QED BY <2>8, <2>9 DEF Streams
<1> QED BY <1>2, <1>4, <1>5, <1>6

(* A step that adds nothing to a run's notifications keeps its stream.     *)
LEMMA OthersKeep ==
  ASSUME Streams, NEW q \in Runs, Seen(q)' = Seen(q), emitted'[q] = emitted[q],
         terminal'[q] = terminal[q],
         provider[q] = "ended" => provider'[q] = "ended",
         UNCHANGED <<handle, abandoned>>
  PROVE  Delivered(q)' /\ Complete(q)'
<1>1. Delivered(q) /\ Complete(q)
  BY DEF Streams
<1>2. Delivered(q)'
  BY <1>1 DEF Delivered
<1>3. Complete(q)'
  BY <1>1 DEF Complete
<1> QED BY <1>2, <1>3

(* The queues of an active turn are empty.                                 *)
LEMMA NothingWaits ==
  ASSUME Replays, Registered, ~Deferring
  PROVE  batch = <<>> /\ route.deferred = <<>>
BY DEF Replays, BatchInReplay, DeferredEarly, Deferring

(* A written event is next in line when nothing waits.                     *)
LEMMA WrittenIsNext ==
  ASSUME NEW r, NEW items \in Seq(Items), NEW item \in Items,
         NEW k \in 0..Len(items), Waits(<<>>, <<>>, r, items, FALSE, k),
         NEW note \in EventNote, note.turn = r, note.item = item,
         note.place = Len(items) + 1
  PROVE  Waits(<<note>>, <<>>, r, Append(items, item), FALSE, k)
<1> DEFINE none == <<>>
           queue == Append(Latest(none, item), note)
<1>1. none \in Seq(Note) /\ note \in Note /\ note.kind = "event"
  BY DEF Note, EventNote
<1>2. queue = <<note>>
  <2>1. Latest(none, item) = none
    BY DEF Latest
  <2>2. Append(none, note) = <<note>>
    OBVIOUS
  <2> QED BY <2>1, <2>2
<1>3. Waits(none, none, r, items, FALSE, k)
  OBVIOUS
<1> HIDE DEF none
<1>4. Waits(none, Append(Latest(none, item), note), r, Append(items, item),
            FALSE, k)
  BY <1>1, <1>3, WrittenIsDeferred
<1> USE DEF none
<1>5. Waits(<<>>, <<note>>, r, Append(items, item), FALSE, k)
  BY <1>2, <1>4
<1>6. Append(items, item) \in Seq(Items)
  OBVIOUS
<1> QED BY <1>5, <1>6, DeferredIsNext

(* The router reads an event of the current turn.                          *)
LEMMA ReadEventKeeps ==
  ASSUME TypeOK, Replays, Streams, started \in Runs, ReadEvent(started)
  PROVE  Streams'
<1> DEFINE items == emitted[started]
<1>1. PICK item \in Items :
        /\ emitted' = [emitted EXCEPT ![started] = Append(@, item)]
        /\ RouteEvent([kind |-> "event", turn |-> started,
                       place |-> Len(emitted[started]) + 1,
                       item |-> item], TRUE)
  BY DEF ReadEvent
<1>2. PICK note \in EventNote :
        /\ note.kind = "event" /\ note.turn = started /\ note.item = item
        /\ note.place = Len(items) + 1 /\ RouteEvent(note, TRUE)
  BY <1>1, NextNotes
<1>3. /\ UNCHANGED <<started, received, terminal, handle, abandoned, provider,
                     batch>>
      /\ provider[started] = "open"
  BY DEF ReadEvent, starterVars, consumerVars
<1>4. /\ items \in Seq(Items) /\ emitted'[started] = Append(items, item)
      /\ \A q \in Runs : q # started => emitted'[q] = emitted[q]
  BY <1>1 DEF TypeOK, ProviderType
<1>5. /\ batch \in Seq(Note) /\ route.deferred \in Seq(Note)
      /\ route \in RouteType /\ note \in Note
  BY DEF TypeOK, StarterType, RouteVarsType, RouteType, Note
<1>6. \/ EventFails
      \/ EventIgnored(note)
      \/ EventDeferred(note)
      \/ EventPassed(note) /\ ~Deferring
  <2>1. PICK defer \in BOOLEAN : defer = TRUE /\ RouteEvent(note, defer)
    BY <1>2
  <2> QED BY <1>2, <1>5, <2>1, EventOutcomes
<1>7. Complete(started)'
  <2>1. Complete(started)
    BY DEF Streams
  <2> QED BY <1>3, <2>1 DEF Complete
<1>8. Seen(started) \in Seq(EventNote)
  BY DEF Seen, TypeOK, ConsumerType, EventsType
<1>9. ASSUME UNCHANGED events
      PROVE  \A q \in Runs : Delivered(q)' /\ Complete(q)'
  <2>1. \A q \in Runs : Seen(q)' = Seen(q)
    BY <1>3, <1>9 DEF Seen
  <2>2. ASSUME NEW q \in Runs, q # started PROVE Delivered(q)' /\ Complete(q)'
    BY <1>3, <1>4, <2>1, <2>2, OthersKeep
  <2>3. Delivered(started)'
    <3>1. Delivered(started)
      BY DEF Streams
    <3>2. handle[started] # "dropped" =>
            Streamed(Seen(started), started, Append(items, item))
      BY <1>4, <1>8, <3>1, StreamedStays DEF Delivered
    <3> QED BY <1>3, <1>4, <2>1, <3>2 DEF Delivered
  <2> QED BY <1>3, <1>7, <2>2, <2>3
<1>10. CASE EventFails
  <2>1. ~Taking' /\ UNCHANGED events
    BY <1>10 DEF EventFails, Taking
  <2> QED BY <1>9, <2>1 DEF Streams
<1>11. CASE EventIgnored(note)
  <2>1. UNCHANGED <<route, events>> /\ ~Taking
    BY <1>2, <1>11, TakenIsAccepted DEF EventIgnored
  <2>2. ~Taking'
    BY <1>3, <2>1 DEF Taking, Registered
  <2> QED BY <1>9, <2>1, <2>2 DEF Streams
<1>12. ASSUME Taking
       PROVE  \E k \in Nat :
                /\ k \in 0..Len(items)
                /\ PassedOn(Places(Seen(started)), items, k, route.text,
                            route.images)
                /\ Waits(batch, route.deferred, started, items, FALSE, k)
  <2>1. PICK k \in Nat : Frontier(k)
    BY <1>12 DEF Streams
  <2>2. (provider[started] = "ended") = FALSE
    BY <1>3
  <2>3. k \in 0..Len(items)
    BY <2>1 DEF Frontier, PassedOn
  <2> QED BY <2>1, <2>2, <2>3 DEF Frontier
<1>13. CASE EventDeferred(note)
  <2>1. /\ UNCHANGED events /\ route'.text = route.text
        /\ route'.images = route.images
        /\ route'.deferred = Append(Latest(route.deferred, item), note)
        /\ Taking' => Taking
    BY <1>2, <1>3, <1>13 DEF EventDeferred, SamePlace, Taking, Registered
  <2>2. ASSUME Taking' PROVE \E k \in Nat : Frontier(k)'
    <3>1. PICK k \in Nat :
            /\ k \in 0..Len(items)
            /\ PassedOn(Places(Seen(started)), items, k, route.text,
                        route.images)
            /\ Waits(batch, route.deferred, started, items, FALSE, k)
      BY <1>12, <2>1, <2>2
    <3>2. PassedOn(Places(Seen(started)), Append(items, item), k, route.text,
                   route.images)
      BY <1>4, <3>1, PassedOnStays
    <3> DEFINE next == route.deferred
    <3>3. next \in Seq(Note) /\ Waits(batch, next, started, items, FALSE, k)
      BY <1>5, <3>1
    <3>4. Waits(batch, Append(Latest(next, item), note), started,
                Append(items, item), FALSE, k)
      <4> HIDE DEF next, items
      <4> QED BY <1>2, <1>4, <1>5, <3>1, <3>3, WrittenIsDeferred
    <3>5. Seen(started)' = Seen(started)
      BY <1>3, <2>1 DEF Seen
    <3>6. (provider'[started] = "ended") = FALSE
      BY <1>3
    <3>7. Frontier(k)'
      BY <1>3, <1>4, <2>1, <3>2, <3>4, <3>5, <3>6 DEF Frontier
    <3> QED BY <3>7
  <2> QED BY <1>9, <2>1, <2>2 DEF Streams
<1>14. CASE EventPassed(note) /\ ~Deferring
  <2>1. Taking /\ Registered /\ route.run = started
    BY <1>14, PassedIsTaken, RunOfRoute DEF EventPassed, Accepts
  <2>2. batch = <<>> /\ route.deferred = <<>>
    BY <1>14, <2>1, NothingWaits
  <2>3. PICK k \in Nat :
          /\ k \in 0..Len(items)
          /\ PassedOn(Places(Seen(started)), items, k, route.text,
                      route.images)
          /\ Waits(<<>>, <<>>, started, items, FALSE, k)
    BY <1>12, <2>1, <2>2
  <2> DEFINE more == Append(items, item)
             now == <<note>>
             none == <<>>
  <2>4. PassedOn(Places(Seen(started)), more, k, route.text, route.images)
    BY <1>4, <2>3, PassedOnStays
  <2>5. Waits(now, none, started, more, FALSE, k)
    <3> HIDE DEF items
    <3> QED BY <1>2, <1>4, <2>3, WrittenIsNext
  <2>6. Streamed(Seen(started), started, more)
    <3>1. Delivered(started)
      BY DEF Streams
    <3> QED BY <1>4, <1>8, <2>1, <3>1, StreamedStays DEF Delivered, Taking
  <2>7. /\ now \in Seq(Note) /\ none \in Seq(Note) /\ now # <<>>
        /\ Head(now) = note /\ Tail(now) = none /\ more \in Seq(Items)
    BY <1>4, <1>5
  <2>8. EventPassed(note) /\ UNCHANGED <<started, received>>
    BY <1>3, <1>14
  <2> HIDE DEF items, more, now, none
  <2>9. /\ note.place \in Nat
        /\ Streamed(Seen(started)', started, more)
        /\ PassedOn(Places(Seen(started)'), more, note.place, route'.text,
                    route'.images)
        /\ Waits(none, none, started, more, FALSE, note.place)
    BY <2>4, <2>5, <2>6, <2>7, <2>8, HeadReaches
  <2>10. PICK x \in Nat : x = note.place
    BY <2>9
  <2>11. route'.deferred = <<>>
    <3>1. note.item \in Items
      BY DEF EventNote
    <3> QED BY <1>5, <2>2, <2>8, <3>1, RetainedAdds DEF EventPassed
  <2>12. emitted'[started] = more /\ (provider'[started] = "ended") = FALSE
    BY <1>3, <1>4 DEF more
  <2>13. Frontier(x)'
    BY <1>3, <2>2, <2>9, <2>10, <2>11, <2>12 DEF Frontier, none
  <2>14. Delivered(started)'
    BY <1>3, <2>9, <2>12 DEF Delivered
  <2>15. ASSUME NEW q \in Runs, q # started PROVE Delivered(q)' /\ Complete(q)'
    <3>1. Seen(q)' = Seen(q)
      BY <1>3, <2>1, <2>8, <2>15
         DEF Seen, EventPassed, TypeOK, ConsumerType, EventsType
    <3> QED BY <1>3, <1>4, <2>15, <3>1, OthersKeep
  <2> QED BY <1>3, <1>7, <2>13, <2>14, <2>15 DEF Streams
<1> QED BY <1>6, <1>10, <1>11, <1>13, <1>14

(* A route that no longer takes anything leaves the streams as they are,   *)
(* and a result it publishes is an error or complete.                      *)
LEMMA EndingKeeps ==
  ASSUME Streams, ~Taking',
         UNCHANGED <<emitted, received, events, handle, abandoned>>,
         \A r \in Runs : provider[r] = "ended" => provider'[r] = "ended",
         \A r \in Runs : \/ terminal'[r] = terminal[r]
                         \/ Complete(r)'
  PROVE  Streams'
<1>1. ASSUME NEW r \in Runs PROVE Delivered(r)' /\ Complete(r)'
  <2>1. Delivered(r) /\ Complete(r) /\ Seen(r)' = Seen(r)
    BY DEF Streams, Seen
  <2>2. Delivered(r)'
    BY <2>1 DEF Delivered
  <2>3. CASE terminal'[r] = terminal[r]
    BY <2>1, <2>3, OthersKeep
  <2> QED BY <2>2, <2>3
<1> QED BY <1>1 DEF Streams

(* Adopting a terminal publishes an error, or what the route retains if    *)
(* that is all there is.                                                   *)
LEMMA AdoptedKeeps ==
  ASSUME TypeOK, Replays, Streams, NEW note, NEW overflow,
         TerminalAdopted(note, overflow),
         UNCHANGED <<started, emitted, received, events, handle, abandoned>>,
         \A r \in Runs : provider[r] = "ended" => provider'[r] = "ended",
         ~overflow /\ Taking =>
           /\ provider'[started] = "ended"
           /\ route.text = TextOf(emitted[started])
           /\ route.images = LatestImages(emitted[started])
           /\ \A n \in DOMAIN emitted[started] :
                \/ Supplanted(emitted[started], n)
                \/ n \in Places(Seen(started))
  PROVE  Streams'
<1>1. started \in Runs /\ Registered /\ route.run = started
  BY RunOfRoute DEF TerminalAdopted
<1>2. ~Taking'
  <2>1. CASE route.phase = "starting"
    BY <2>1 DEF TerminalAdopted, Taking, TypeOK, RouteVarsType, RouteType
  <2>2. CASE route.phase # "starting"
    BY <2>2, NoRouteFacts DEF TerminalAdopted, Taking, Registered
  <2> QED BY <2>1, <2>2
<1>3. terminal' = [terminal EXCEPT ![started] = ResultOf(note, overflow)]
  BY <1>1 DEF TerminalAdopted
<1>4. /\ \A r \in Runs : r # started => terminal'[r] = terminal[r]
      /\ terminal'[started] = ResultOf(note, overflow)
  BY <1>1, <1>3 DEF TypeOK, RouteVarsType
<1>5. Complete(started)'
  <2> SUFFICES ASSUME ResultOf(note, overflow).status = "ok",
                      ~abandoned[started], handle[started] # "dropped"
               PROVE  /\ provider'[started] = "ended"
                      /\ ResultOf(note, overflow).text = TextOf(emitted[started])
                      /\ ResultOf(note, overflow).images
                           = LatestImages(emitted[started])
                      /\ \A n \in DOMAIN emitted[started] :
                           \/ Supplanted(emitted[started], n)
                           \/ n \in Places(Seen(started))
    BY <1>4 DEF Complete, Seen
  <2>1. /\ route.failure = "none" /\ ~overflow
        /\ ResultOf(note, overflow).text = route.text
        /\ ResultOf(note, overflow).images = route.images
    BY DEF ResultOf, ErrResult
  <2>2. Taking
    BY <2>1 DEF Taking, TerminalAdopted
  <2> QED BY <2>1, <2>2
<1>6. \A r \in Runs : terminal'[r] = terminal[r] \/ Complete(r)'
  BY <1>4, <1>5
<1> QED BY <1>2, <1>6, EndingKeeps

(* The router reads the terminal of the current turn.                      *)
LEMMA ReadTerminalKeeps ==
  ASSUME TypeOK, Replays, Streams, started \in Runs, ReadTerminal(started)
  PROVE  Streams'
<1> DEFINE items == emitted[started]
           next == route.deferred
<1>1. PICK note \in TerminalNote :
        note.kind = "terminal" /\ note.turn = started /\ RouteTerminal(note, TRUE)
  BY NextNotes DEF ReadTerminal
<1>2. /\ UNCHANGED <<started, emitted, received, events, handle, abandoned,
                     batch>>
      /\ provider[started] = "open" /\ provider'[started] = "ended"
      /\ \A r \in Runs : r # started => provider'[r] = provider[r]
      /\ \A r \in Runs : provider[r] = "ended" => provider'[r] = "ended"
  BY DEF ReadTerminal, starterVars, consumerVars, TypeOK, ProviderType
<1>3. /\ batch \in Seq(Note) /\ next \in Seq(Note) /\ note \in Note
      /\ route \in RouteType /\ items \in Seq(Items)
      /\ route.images \in [ImageIds -> Nat]
  BY DEF TypeOK, StarterType, RouteVarsType, RouteType, Note, ProviderType
<1>4. \/ TerminalIgnored
      \/ TerminalMismatched(note)
      \/ TerminalDeferred(note)
      \/ \E overflow \in BOOLEAN :
           /\ ~overflow => ~(Registered /\ route.failure = "none" /\ Deferring)
           /\ TerminalAdopted(note, overflow)
  <2>1. PICK defer \in BOOLEAN : defer = TRUE /\ RouteTerminal(note, defer)
    BY <1>1
  <2> QED BY <1>1, <1>3, <2>1, TerminalOutcomes
<1>5. ASSUME Taking
      PROVE  \E k \in Nat :
               /\ k \in 0..Len(items)
               /\ PassedOn(Places(Seen(started)), items, k, route.text,
                           route.images)
               /\ Waits(batch, next, started, items, FALSE, k)
  <2>1. PICK k \in Nat : Frontier(k)
    BY <1>5 DEF Streams
  <2>2. (provider[started] = "ended") = FALSE
    BY <1>2
  <2>3. k \in 0..Len(items)
    BY <2>1 DEF Frontier, PassedOn
  <2> QED BY <2>1, <2>2, <2>3 DEF Frontier
<1>6. CASE TerminalIgnored
  <2>1. ~Taking'
    BY <1>6 DEF TerminalIgnored, Taking, Registered
  <2> QED BY <1>2, <1>6, <2>1, EndingKeeps DEF TerminalIgnored
<1>7. CASE TerminalMismatched(note)
  BY <1>1, <1>7 DEF TerminalMismatched, Replays, OneTurn
<1>8. CASE TerminalDeferred(note)
  <2>1. /\ route'.deferred = Append(next, note) /\ route'.text = route.text
        /\ route'.images = route.images /\ route'.run = route.run
        /\ route'.phase = route.phase /\ route'.failure = route.failure
        /\ terminal' = terminal
    <3> DEFINE longer == Append(route.deferred, note)
    <3>1. route' = [route EXCEPT !.deferred = longer] /\ longer \in Seq(Note)
      BY <1>3, <1>8 DEF TerminalDeferred
    <3> HIDE DEF longer
    <3>2. route'.deferred = longer
      BY <1>3, <3>1 DEF RouteType
    <3> QED BY <1>3, <1>8, <3>1, <3>2 DEF TerminalDeferred, RouteType, longer
  <2>2. Taking' => Taking
    BY <1>2, <2>1 DEF Taking, Registered
  <2>3. ASSUME Taking' PROVE \E k \in Nat : Frontier(k)'
    <3>1. PICK k \in Nat :
            /\ k \in 0..Len(items)
            /\ PassedOn(Places(Seen(started)), items, k, route.text,
                        route.images)
            /\ Waits(batch, next, started, items, FALSE, k)
      BY <1>5, <2>2, <2>3
    <3>2. Waits(batch, Append(next, note), started, items, TRUE, k)
      <4> HIDE DEF next, items
      <4> QED BY <1>1, <1>3, <3>1, TerminalIsDeferred
    <3>3. Seen(started)' = Seen(started)
      BY <1>2 DEF Seen
    <3>4. (provider'[started] = "ended") = TRUE
      BY <1>2
    <3>5. Frontier(k)'
      BY <1>2, <2>1, <3>1, <3>2, <3>3, <3>4 DEF Frontier
    <3> QED BY <3>5
  <2>4. ASSUME NEW q \in Runs PROVE Delivered(q)' /\ Complete(q)'
    <3>1. Delivered(q) /\ Complete(q) /\ Seen(q)' = Seen(q)
      BY <1>2 DEF Streams, Seen
    <3>2. Delivered(q)'
      BY <1>2, <3>1 DEF Delivered
    <3>3. Complete(q)'
      BY <1>2, <2>1, <3>1 DEF Complete
    <3> QED BY <3>2, <3>3
  <2> QED BY <2>3, <2>4 DEF Streams
<1>9. ASSUME NEW overflow \in BOOLEAN,
             ~overflow => ~(Registered /\ route.failure = "none" /\ Deferring),
             TerminalAdopted(note, overflow)
      PROVE  Streams'
  <2>1. ASSUME ~overflow, Taking
        PROVE  /\ route.text = TextOf(items)
               /\ route.images = LatestImages(items)
               /\ \A n \in DOMAIN items :
                    Supplanted(items, n) \/ n \in Places(Seen(started))
    <3>1. batch = <<>> /\ next = <<>>
      BY <1>9, <2>1, NothingWaits DEF Taking
    <3>2. PICK k \in Nat :
            /\ k \in 0..Len(items)
            /\ PassedOn(Places(Seen(started)), items, k, route.text,
                        route.images)
            /\ Waits(<<>>, <<>>, started, items, FALSE, k)
      BY <1>5, <2>1, <3>1
    <3> DEFINE none == <<>>
               now == <<note>>
    <3>3. none \in Seq(Note) /\ now \in Seq(Note) /\ now # <<>>
      BY <1>3
    <3>7. Head(now) = note
      OBVIOUS
    <3>8. Waits(none, none, started, items, FALSE, k)
      BY <3>2
    <3>6. Append(none, note) = now
      OBVIOUS
    <3> HIDE DEF none, now, items
    <3>4. Waits(none, now, started, items, TRUE, k)
      BY <1>1, <1>3, <3>2, <3>3, <3>6, <3>8,
         TerminalIsDeferred
    <3>5. Waits(now, none, started, items, TRUE, k)
      BY <1>3, <3>4, DeferredIsNext DEF none
    <3> QED BY <1>1, <1>3, <3>2, <3>3, <3>5, <3>7, TerminalCompletes
  <2> QED BY <1>2, <1>9, <2>1, AdoptedKeeps
<1> QED BY <1>4, <1>6, <1>7, <1>8, <1>9

(* The caller of Session::start replays it.                                *)
LEMMA ReplayedTerminalKeeps ==
  ASSUME TypeOK, Replays, Streams,
         UNCHANGED <<started, received, emitted, events, handle, abandoned,
                     provider>>,
         batch # <<>>, Head(batch).kind = "terminal",
         RouteTerminal(Head(batch), FALSE)
  PROVE  Streams'
<1> DEFINE note == Head(batch)
           items == emitted[started]
<1>1. /\ note \in TerminalNote /\ batch \in Seq(Note) /\ route \in RouteType
      /\ route.deferred \in Seq(Note) /\ route.images \in [ImageIds -> Nat]
  BY NextNotes DEF TypeOK, StarterType, RouteVarsType, RouteType
<1>2. \/ TerminalIgnored
      \/ TerminalMismatched(note)
      \/ \E overflow \in BOOLEAN : ~overflow /\ TerminalAdopted(note, overflow)
  <2>1. PICK defer \in BOOLEAN : ~defer /\ RouteTerminal(note, defer)
    OBVIOUS
  <2> QED BY <1>1, <2>1, TerminalOutcomes
<1>3. ASSUME Taking
      PROVE  /\ note.turn = started /\ provider[started] = "ended"
             /\ route.text = TextOf(items)
             /\ route.images = LatestImages(items)
             /\ \A n \in DOMAIN items :
                  Supplanted(items, n) \/ n \in Places(Seen(started))
  <2>1. PICK k \in Nat : Frontier(k)
    BY <1>3 DEF Streams
  <2>2. items \in Seq(Items)
    BY <1>3, RunOfRoute DEF Taking, TypeOK, ProviderType
  <2> DEFINE next == route.deferred
             over == provider[started] = "ended"
  <2>3. /\ PassedOn(Places(Seen(started)), items, k, route.text, route.images)
        /\ Waits(batch, next, started, items, over, k)
    BY <2>1 DEF Frontier
  <2>4. next \in Seq(Note)
    BY <1>1
  <2> HIDE DEF items, next
  <2>5. over
    <3>1. 1 \in DOMAIN batch /\ note = batch[1]
      BY <1>1
    <3>2. note.kind = "terminal"
      OBVIOUS
    <3> HIDE DEF over, note
    <3> QED BY <2>3, <3>1, <3>2 DEF Waits, AsWritten
  <2>6. note.turn = started
    <3>1. 1 \in DOMAIN batch /\ note = batch[1]
      BY <1>1
    <3> QED BY <2>3, <3>1 DEF Waits, AsWritten
  <2> HIDE DEF over
  <2>7. /\ route.text = TextOf(items) /\ route.images = LatestImages(items)
        /\ \A n \in DOMAIN items :
             Supplanted(items, n) \/ n \in Places(Seen(started))
    BY <1>1, <2>2, <2>3, <2>4, TerminalCompletes
  <2> QED BY <2>5, <2>6, <2>7 DEF over
<1>4. CASE TerminalIgnored
  <2>1. ~Taking'
    BY <1>4 DEF TerminalIgnored, Taking, Registered
  <2> QED BY <1>4, <2>1, EndingKeeps DEF TerminalIgnored
<1>5. CASE TerminalMismatched(note)
  <2>1. ~Taking
    BY <1>3, <1>5 DEF TerminalMismatched, Replays, OneTurn
  <2>2. /\ route'.run = route.run /\ route'.phase = route.phase
        /\ route'.failure = route.failure /\ terminal' = terminal
    BY <1>1, <1>5 DEF TerminalMismatched, RouteType
  <2>3. ~Taking'
    BY <2>1, <2>2 DEF Taking, Registered
  <2> QED BY <2>2, <2>3, EndingKeeps
<1>6. ASSUME NEW overflow \in BOOLEAN, ~overflow,
             TerminalAdopted(note, overflow)
      PROVE  Streams'
  BY <1>3, <1>6, AdoptedKeeps
<1> QED BY <1>2, <1>4, <1>5, <1>6

(* Every step of an orderly connection keeps the streams of the turns.     *)
LEMMA StreamsStep ==
  ASSUME TypeOK, Replays, Streams, Next, SpeaksInTurn
  PROVE  Streams'
<1>1. CASE Start
  BY <1>1, StartKeeps
<1>2. CASE AcknowledgeStart \/ ReplayTransition
  BY <1>2, ReplayMoves, MovedKeeps, QuietKeeps
<1>3. CASE ReplayOne
  <2>1. /\ UNCHANGED <<started, received, emitted, handle, abandoned, provider>>
        /\ batch # <<>> /\ batch' = Tail(batch)
    BY <1>3 DEF ReplayOne, consumerVars, providerVars
  <2>2. CASE /\ Head(batch).kind = "event" /\ RouteEvent(Head(batch), FALSE)
             /\ UNCHANGED terminal
    BY <2>1, <2>2, ReplayedEventKeeps
  <2>3. CASE /\ Head(batch).kind = "terminal"
             /\ RouteTerminal(Head(batch), FALSE)
             /\ UNCHANGED events
    BY <2>1, <2>3, ReplayedTerminalKeeps
  <2> QED BY <1>3, <2>2, <2>3 DEF ReplayOne
<1>4. ASSUME NEW r \in Runs, ReadEvent(r)
      PROVE  Streams'
  <2>1. r = started
    BY <1>4, SpokenInTurn
  <2> QED BY <1>4, <2>1, ReadEventKeeps
<1>5. ASSUME NEW r \in Runs, ReadTerminal(r)
      PROVE  Streams'
  <2>1. r = started
    BY <1>5, SpokenInTurn
  <2> QED BY <1>5, <2>1, ReadTerminalKeeps
<1>6. ASSUME NEW r \in Runs, ReadLate(r)
      PROVE  FALSE
  BY <1>6, SpokenInTurn
<1>7. CASE \/ SendTurnStart \/ RequestTimeout \/ DrainRequest \/ ReadResponse
           \/ RefuseStart \/ CancelStart
           \/ BeginDisconnect \/ AbortDisconnect \/ FailAllRuns
           \/ \E r \in Runs :
                \/ CancelRegistered(r) \/ Receive(r) \/ ReceiveTerminal(r)
                \/ DropRun(r) \/ UserInterrupt(r) \/ InterruptTask(r)
                \/ DeadlineExpires(r)
                \/ \E w \in Watcher : WatchBegin(r, w) \/ WatchEnd(r, w)
  BY <1>7, QuietSteps, QuietKeeps
<1> QED BY <1>1, <1>2, <1>3, <1>4, <1>5, <1>6, <1>7 DEF Next

(* Nothing is written, delivered or waiting at first.                      *)
LEMMA StreamsInit == Init => Streams
<1> SUFFICES ASSUME Init PROVE Streams
  OBVIOUS
<1>1. ~Taking
  BY NoRouteFacts DEF Init, Taking, Registered
<1>2. ASSUME NEW r \in Runs PROVE Delivered(r) /\ Complete(r)
  <2>1. received[r] = <<>> /\ events[r] = <<>> /\ terminal[r].status = "none"
    BY DEF Init, NoResult
  <2>2. Seen(r) = <<>>
    BY <2>1 DEF Seen
  <2>3. Streamed(<<>>, r, emitted[r])
    <3>1. DOMAIN <<>> = {} /\ Places(<<>>) = {}
      BY DEF Places
    <3> QED BY <3>1 DEF Streamed
  <2> QED BY <2>1, <2>2, <2>3 DEF Delivered, Complete
<1> QED BY <1>1, <1>2 DEF Streams

(* A stuttering step keeps Replays.                                        *)
LEMMA ReplaysStutter == Replays /\ UNCHANGED vars => Replays'
BY DEF vars, routeVars, starterVars, consumerVars, providerVars, Replays,
   BatchInReplay, DeferredEarly, OneTurn, StarterHolds, Unstarted, Registered,
   Deferring

(* The inductive invariant of a turn's stream.                             *)
StreamInv == TypeOK /\ Replays /\ Streams

(* StreamInv holds at first.                                               *)
LEMMA StreamInit == Init => StreamInv
BY TypeInit, ReplaysInit, StreamsInit DEF StreamInv

(* StreamInv is kept by every step of an orderly connection.               *)
LEMMA StreamInductive == StreamInv /\ [Next /\ SpeaksInTurn]_vars => StreamInv'
<1> SUFFICES ASSUME StreamInv, [Next /\ SpeaksInTurn]_vars PROVE StreamInv'
  OBVIOUS
<1>1. TypeOK'
  BY TypeStep DEF StreamInv
<1>2. CASE Next /\ SpeaksInTurn
  BY <1>1, <1>2, ReplaysStep, StreamsStep DEF StreamInv
<1>3. CASE UNCHANGED vars
  <2>1. Replays'
    BY <1>3, ReplaysStutter DEF StreamInv
  <2>2. Quiet
    BY <1>3 DEF vars, routeVars, starterVars, consumerVars, providerVars,
       Quiet, Seen, Taking, Registered
  <2>3. Streams'
    BY <2>2, QuietKeeps DEF StreamInv
  <2> QED BY <1>1, <2>1, <2>3 DEF StreamInv
<1> QED BY <1>2, <1>3

(* Hence it holds throughout.                                              *)
LEMMA StreamInvHolds == OrderlySpec => []StreamInv
BY StreamInit, StreamInductive, PTL DEF OrderlySpec

(* Replaced is what the streams call supplanted.                           *)
LEMMA ReplacedIs ==
  ASSUME NEW r, NEW n
  PROVE  Replaced(r, n) <=> Supplanted(emitted[r], n)
BY DEF Replaced, Supplanted

(* While the app-server speaks in turn, a run's handle gets the events in  *)
(* the order they were written and, replaced images aside, without a gap,  *)
(* however the replay by Session::start and the router's deferral          *)
(* interleave (acknowledge_start, replay_transition, route_event).         *)
THEOREM EventsArriveInOrder == OrderlySpec => []DeliveredInOrderWithoutGaps
<1>1. StreamInv => DeliveredInOrderWithoutGaps
  <2> SUFFICES ASSUME StreamInv, NEW r \in Runs,
                      handle[r] \in {"starting", "held", "finished"}
               PROVE  /\ \A i, j \in DOMAIN Seen(r) :
                           i < j => Seen(r)[i].place < Seen(r)[j].place
                      /\ \A i \in DOMAIN Seen(r) :
                           /\ Seen(r)[i].turn = r
                           /\ \A n \in 1..(Seen(r)[i].place - 1) :
                                Replaced(r, n) \/ n \in Places(Seen(r))
    BY DEF DeliveredInOrderWithoutGaps
  <2>1. Streamed(Seen(r), r, emitted[r])
    BY DEF StreamInv, Streams, Delivered
  <2>2. \A i \in DOMAIN Seen(r) : Seen(r)[i].place \in Places(Seen(r))
    BY DEF Places
  <2> QED BY <2>1, <2>2, ReplacedIs DEF Streamed
<1> QED BY <1>1, StreamInvHolds, PTL

(* Such a turn that ends Ok hides nothing of what the app-server wrote:    *)
(* the text is all of it, the images are the latest, and the handle's      *)
(* stream has every event (route_terminal, RunResult).                     *)
THEOREM SuccessHidesNothing == OrderlySpec => []SuccessIsComplete
<1>1. StreamInv => SuccessIsComplete
  <2> SUFFICES ASSUME StreamInv, NEW r \in Runs, terminal[r].status = "ok",
                      ~abandoned[r], handle[r] # "dropped"
               PROVE  /\ terminal[r].text = TextOf(emitted[r])
                      /\ terminal[r].images = LatestImages(emitted[r])
                      /\ \A n \in DOMAIN emitted[r] :
                           Replaced(r, n) \/ n \in Places(Seen(r))
    BY DEF SuccessIsComplete
  <2>1. Complete(r)
    BY DEF StreamInv, Streams
  <2> QED BY <2>1, ReplacedIs DEF Complete
<1> QED BY <1>1, StreamInvHolds, PTL

-----------------------------------------------------------------------------
(* What a route retains is within the limits.                              *)
WithinLimits(rt) ==
  /\ Len(rt.deferred) <= EventCapacity
  /\ rt.text + rt.imageBytes <= MaxOutput
  /\ rt.imageBytes = TotalBytes(rt.images)
  /\ rt.deferredBytes = TotalBytes(rt.deferredBytesById)
  /\ rt.deferredBytes <= MaxOutput
QueuesFit == \A r \in Runs : Len(events[r]) <= EventCapacity

(* The property, of the route and of the queues in turn.                   *)
LEMMA LimitsAre == RetainedWithinLimits <=> WithinLimits(route) /\ QueuesFit
BY DEF RetainedWithinLimits, WithinLimits, QueuesFit

(* A new route retains nothing.                                            *)
LEMMA FreshWithinLimits == \A r : WithinLimits(FreshRoute(r))
<1>1. Len(<<>>) = 0 /\ EventCapacity \in Nat /\ MaxOutput \in Nat
  BY BoundsAssumption
<1> QED BY <1>1, TotalOfNone DEF FreshRoute, WithinLimits, NoBytes

(* Retaining an event that fits keeps them.                                *)
LEMMA RetainedFits ==
  ASSUME route \in RouteType, WithinLimits(route), NEW item \in Items,
         FitsOutput(item)
  PROVE  WithinLimits(Retained(item))
<1> DEFINE rt == Retained(item)
<1>1. CASE item.kind = "text"
  <2>1. /\ rt.text = TextWith(item) /\ rt.imageBytes = route.imageBytes
        /\ rt.images = route.images /\ rt.deferred = route.deferred
        /\ rt.deferredBytes = route.deferredBytes
        /\ rt.deferredBytesById = route.deferredBytesById
    BY <1>1 DEF Retained, RouteType
  <2>2. TextWith(item) + route.imageBytes <= MaxOutput
    BY <1>1 DEF FitsOutput
  <2> HIDE DEF rt
  <2> QED BY <2>1, <2>2 DEF WithinLimits, rt
<1>2. CASE item.kind = "image"
  <2> DEFINE bytes == ImageBytesWith(item)
             images == [route.images EXCEPT ![item.id] = item.size]
  <2>1. item.id \in ImageIds /\ item.size \in Nat
    BY <1>2, ItemFacts
  <2>2. bytes = TotalBytes(images)
    <3>1. route.images \in [ImageIds -> Int] /\ item.size \in Int
      BY <2>1 DEF RouteType
    <3>2. TotalBytes(images)
            = TotalBytes(route.images) - route.images[item.id] + item.size
      BY <2>1, <3>1, TotalReplaces
    <3> QED BY <3>2 DEF ImageBytesWith, WithinLimits
  <2>3. route.text + bytes <= MaxOutput
    BY <1>2 DEF FitsOutput
  <2>4. rt = [route EXCEPT !.imageBytes = bytes, !.images = images]
    BY <1>2 DEF Retained, RouteType
  <2> HIDE DEF bytes, images, rt
  <2>5. /\ rt.text = route.text /\ rt.imageBytes = bytes
        /\ rt.images = images /\ rt.deferred = route.deferred
        /\ rt.deferredBytes = route.deferredBytes
        /\ rt.deferredBytesById = route.deferredBytesById
    BY <2>4 DEF RouteType
  <2> QED BY <2>2, <2>3, <2>5 DEF WithinLimits, rt
<1>3. CASE item.kind = "other"
  BY <1>3 DEF Retained
<1> QED BY <1>1, <1>2, <1>3, ItemFacts

(* record_failure forgets what was deferred, or keeps the queue.           *)
LEMMA FailedFits ==
  ASSUME NEW rt \in RouteType, NEW cause,
         Len(rt.deferred) <= EventCapacity,
         rt.text + rt.imageBytes <= MaxOutput,
         rt.imageBytes = TotalBytes(rt.images)
  PROVE  /\ WithinLimits(WithFailure(rt, cause))
         /\ Deferring =>
              /\ WithFailure(rt, cause).deferred = <<>>
              /\ WithFailure(rt, cause).deferredBytesById = NoImages
<1> DEFINE rest == IF Deferring THEN <<>> ELSE rt.deferred
           failed == WithFailure(rt, cause)
<1>1. failed = [rt EXCEPT !.failure = cause, !.deferred = rest,
                  !.deferredBytes = NoBytes, !.deferredBytesById = NoImages]
  BY DEF WithFailure
<1>2. /\ rest = <<>> \/ rest = rt.deferred
      /\ Len(<<>>) = 0 /\ EventCapacity \in Nat /\ MaxOutput \in Nat
      /\ Deferring => rest = <<>>
  BY BoundsAssumption
<1> HIDE DEF rest, failed
<1>3. /\ failed.deferred = rest /\ failed.text = rt.text
      /\ failed.images = rt.images /\ failed.imageBytes = rt.imageBytes
      /\ failed.deferredBytes = NoBytes
      /\ failed.deferredBytesById = NoImages
  BY <1>1 DEF RouteType
<1>4. Len(rest) <= EventCapacity
  BY <1>2
<1> QED BY <1>2, <1>3, <1>4, TotalOfNone DEF WithinLimits, NoBytes, failed

(* What an event does to the limits and to the count of the deferred       *)
(* images.                                                                 *)
DeferralCounted ==
  Registered /\ Deferring => Counted(route.deferred, route.deferredBytesById)

(* What PassEvent leaves is within the limits.                             *)
LEMMA PassedFits ==
  ASSUME TypeOK, NEW note \in EventNote, PassEvent(note),
         WithinLimits(route), QueuesFit
  PROVE  /\ WithinLimits(route') /\ QueuesFit'
         /\ DeferralCounted => DeferralCounted'
<1>1. note.item \in Items /\ route \in RouteType
  BY DEF EventNote, TypeOK, RouteVarsType
<1>2. /\ Retained(note.item) \in RouteType
      /\ SamePlace(Retained(note.item))
      /\ Retained(note.item).deferred = route.deferred
      /\ Retained(note.item).deferredBytesById = route.deferredBytesById
  <2>1. /\ Retained(note.item).deferred = route.deferred
        /\ Retained(note.item).deferredBytesById = route.deferredBytesById
    BY <1>1, ItemFacts DEF Retained, RouteType
  <2> QED BY <1>1, <2>1, RetainedFacts DEF SamePlace
<1>3. CASE UNCHANGED <<route, events>>
  BY <1>3 DEF QueuesFit, DeferralCounted, Registered, Deferring
<1>4. ASSUME NEW rt \in RouteType, NEW cause \in Failure, SamePlace(rt),
             WithinLimits(rt), FailRoute(rt, cause), UNCHANGED events
      PROVE  /\ WithinLimits(route') /\ QueuesFit' /\ DeferralCounted'
  <2>1. route' = WithFailure(rt, cause)
    BY <1>4 DEF FailRoute
  <2>2. /\ WithinLimits(route')
        /\ Deferring => /\ route'.deferred = <<>>
                        /\ route'.deferredBytesById = NoImages
    BY <1>4, <2>1, FailedFits DEF WithinLimits
  <2>3. SamePlace(route')
    BY <1>4, <2>1, WithFailureFacts DEF SamePlace
  <2>4. DeferralCounted'
    BY <2>2, <2>3, NoneCounted
       DEF DeferralCounted, SamePlace, Registered, Deferring
  <2> QED BY <1>4, <2>2, <2>4 DEF QueuesFit
<1>5. CASE FailRoute(route, "output_limit") /\ UNCHANGED events
  BY <1>1, <1>4, <1>5 DEF Failure, SamePlace
<1>6. ASSUME NEW cause \in {"lagged", "closed"}, FitsOutput(note.item),
             FailRoute(Retained(note.item), cause), UNCHANGED events
      PROVE  /\ WithinLimits(route') /\ QueuesFit' /\ DeferralCounted'
  <2>1. WithinLimits(Retained(note.item)) /\ cause \in Failure
    BY <1>1, <1>6, RetainedFits DEF Failure
  <2> QED BY <1>2, <1>4, <1>6, <2>1
<1>7. CASE /\ FitsOutput(note.item) /\ ChannelTakes(route.run)
           /\ route' = Retained(note.item)
           /\ events' = [events EXCEPT ![route.run] = Append(@, note)]
  <2>1. WithinLimits(route')
    BY <1>1, <1>7, RetainedFits
  <2>2. QueuesFit'
    <3> DEFINE r == route.run
               longer == Append(events[r], note)
    <3>1. events' = [events EXCEPT ![r] = longer]
      BY <1>7
    <3>2. r \in Runs => Len(longer) = Len(events[r]) + 1
                        /\ Len(events[r]) \in Nat
      BY DEF TypeOK, ConsumerType, EventsType
    <3>3. Len(events[r]) < EventCapacity
      BY <1>7 DEF ChannelTakes
    <3>4. EventCapacity \in Nat
      BY BoundsAssumption
    <3> HIDE DEF longer, r
    <3> QED BY <3>1, <3>2, <3>3, <3>4 DEF QueuesFit, TypeOK, ConsumerType, EventsType
  <2>3. DeferralCounted => DeferralCounted'
    BY <1>2, <1>7 DEF DeferralCounted, SamePlace, Registered, Deferring
  <2> QED BY <2>1, <2>2, <2>3
<1> QED BY <1>3, <1>5, <1>6, <1>7 DEF PassEvent

(* What DeferEvent leaves is within the limits.                            *)
LEMMA DeferredFits ==
  ASSUME TypeOK, NEW note \in EventNote, DeferEvent(note), UNCHANGED events,
         Registered, Deferring, WithinLimits(route), QueuesFit
  PROVE  /\ WithinLimits(route') /\ QueuesFit'
         /\ DeferralCounted => DeferralCounted'
<1> DEFINE item == note.item
           next == route.deferred
           sizes == route.deferredBytesById
           rest == Latest(next, item)
           bytes == DeferredBytesWith(item)
           changed == [sizes EXCEPT ![item.id] = item.size]
           counted == IF item.kind = "image"
                      THEN [route EXCEPT
                              !.deferredBytes = bytes,
                              !.deferredBytesById[item.id] = item.size]
                      ELSE route
<1>1. /\ item \in Items /\ item.size \in Nat /\ route \in RouteType
      /\ item.kind = "image" => item.id \in ImageIds
  BY ItemFacts DEF EventNote, TypeOK, RouteVarsType
<1>2. /\ next \in Seq(Note) /\ sizes \in [ImageIds -> Nat]
      /\ rest \in Seq(Note) /\ note \in Note
  BY <1>1, LatestType DEF RouteType, Note
<1>3. item.kind = "image" =>
        bytes \in Int /\ bytes = TotalBytes(changed) /\ changed \in [ImageIds -> Nat]
  <2> SUFFICES ASSUME item.kind = "image"
               PROVE  /\ bytes \in Int /\ bytes = TotalBytes(changed)
                      /\ changed \in [ImageIds -> Nat]
    OBVIOUS
  <2>1. sizes \in [ImageIds -> Int] /\ item.size \in Int /\ item.id \in ImageIds
    BY <1>1, <1>2
  <2>2. TotalBytes(changed) = TotalBytes(sizes) - sizes[item.id] + item.size
    BY <2>1, TotalReplaces
  <2>3. bytes = TotalBytes(changed)
    BY <2>2 DEF DeferredBytesWith, WithinLimits
  <2>4. bytes \in Int
    BY <1>1 DEF DeferredBytesWith, RouteType
  <2> QED BY <1>1, <1>2, <2>3, <2>4
<1>4. \/ FailRoute(route, "output_limit")
      \/ FailRoute(counted, "lagged")
      \/ /\ FitsDeferral(item) /\ Len(rest) < EventCapacity
         /\ route' = [counted EXCEPT !.deferred = Append(rest, note)]
  BY DEF DeferEvent
<1>5. /\ counted \in RouteType /\ SamePlace(counted)
      /\ counted.deferred = next /\ counted.text = route.text
      /\ counted.imageBytes = route.imageBytes
      /\ counted.images = route.images
      /\ item.kind = "image" =>
           /\ counted.deferredBytes = bytes
           /\ counted.deferredBytesById = changed
      /\ item.kind # "image" =>
           /\ counted.deferredBytes = route.deferredBytes
           /\ counted.deferredBytesById = sizes
  <2> HIDE DEF bytes
  <2>1. CASE item.kind = "image"
    <3>1. counted = [route EXCEPT !.deferredBytes = bytes,
                                  !.deferredBytesById = changed]
      BY <1>1, <2>1 DEF RouteType
    <3> HIDE DEF changed, counted
    <3> QED BY <1>1, <1>3, <2>1, <3>1 DEF RouteType, SamePlace
  <2>2. CASE item.kind # "image"
    BY <1>1, <2>2 DEF SamePlace
  <2> QED BY <2>1, <2>2
<1> HIDE DEF counted
<1>6. ASSUME NEW rt \in RouteType, NEW cause \in Failure, SamePlace(rt),
             Len(rt.deferred) <= EventCapacity,
             rt.text + rt.imageBytes <= MaxOutput,
             rt.imageBytes = TotalBytes(rt.images), FailRoute(rt, cause)
      PROVE  WithinLimits(route') /\ DeferralCounted'
  <2>1. route' = WithFailure(rt, cause)
    BY <1>6 DEF FailRoute
  <2>2. /\ WithinLimits(route')
        /\ route'.deferred = <<>> /\ route'.deferredBytesById = NoImages
    BY <1>6, <2>1, FailedFits
  <2> QED BY <2>2, NoneCounted DEF DeferralCounted
<1>7. CASE FailRoute(route, "output_limit")
  <2>1. "output_limit" \in Failure /\ SamePlace(route)
    BY DEF Failure, SamePlace
  <2> QED BY <1>1, <1>6, <1>7, <2>1 DEF WithinLimits, QueuesFit
<1>8. CASE FailRoute(counted, "lagged")
  <2>1. "lagged" \in Failure
    BY DEF Failure
  <2> QED BY <1>5, <1>6, <1>8, <2>1 DEF WithinLimits, QueuesFit
<1>9. CASE /\ FitsDeferral(item) /\ Len(rest) < EventCapacity
           /\ route' = [counted EXCEPT !.deferred = Append(rest, note)]
  <2> DEFINE longer == Append(rest, note)
  <2>1. longer \in Seq(Note) /\ Len(longer) = Len(rest) + 1 /\ Len(rest) \in Nat
    BY <1>2
  <2>2. route' = [counted EXCEPT !.deferred = longer]
    BY <1>9
  <2>3. Len(longer) <= EventCapacity
    <3>1. EventCapacity \in Nat
      BY BoundsAssumption
    <3> HIDE DEF longer, rest
    <3> QED BY <1>9, <2>1, <3>1
  <2> HIDE DEF longer, rest
  <2>4. /\ route'.deferred = longer /\ route'.text = route.text
        /\ route'.imageBytes = route.imageBytes
        /\ route'.images = route.images
        /\ route'.deferredBytes = counted.deferredBytes
        /\ route'.deferredBytesById = counted.deferredBytesById
    BY <1>5, <2>1, <2>2 DEF RouteType
  <2>5. /\ counted.deferredBytes = TotalBytes(counted.deferredBytesById)
        /\ counted.deferredBytes <= MaxOutput
    <3>1. CASE item.kind = "image"
      BY <1>3, <1>5, <1>9, <3>1 DEF FitsDeferral
    <3>2. CASE item.kind # "image"
      BY <1>5, <3>2 DEF WithinLimits
    <3> QED BY <3>1, <3>2
  <2>6. WithinLimits(route')
    BY <2>3, <2>4, <2>5 DEF WithinLimits
  <2>7. DeferralCounted => DeferralCounted'
    <3> SUFFICES ASSUME Counted(next, sizes)
                 PROVE  Counted(longer, counted.deferredBytesById)
      BY <2>4 DEF DeferralCounted
    <3>1. CASE item.kind = "image"
      BY <1>2, <1>5, <3>1, CountedReplaces DEF longer, rest
    <3>2. CASE item.kind # "image"
      <4>1. rest = next
        <5>1. \A m \in DOMAIN next : ~Superseded(next[m], item)
          BY <3>2 DEF Superseded
        <5>2. {m \in DOMAIN next : Superseded(next[m], item)} = {}
          BY <5>1
        <5> QED BY <5>2 DEF Latest, rest
      <4>2. Counted(Append(next, note), sizes)
        BY <1>2, <3>2, CountedGrows
      <4> QED BY <1>5, <3>2, <4>1, <4>2 DEF longer
    <3> QED BY <3>1, <3>2
  <2> QED BY <2>6, <2>7 DEF QueuesFit
<1> QED BY <1>4, <1>7, <1>8, <1>9

(* What a terminal does to them; only one that is turned away for another  *)
(* turn while the queue is full could leave a count behind.                *)
LEMMA TerminalFits ==
  ASSUME TypeOK, NEW note \in TerminalNote, NEW defer \in BOOLEAN,
         RouteTerminal(note, defer), UNCHANGED events,
         WithinLimits(route), QueuesFit
  PROVE  /\ WithinLimits(route') /\ QueuesFit'
         /\ /\ DeferralCounted
            /\ defer /\ Registered => route.turn \in {NoTurn, note.turn}
            => DeferralCounted'
<1> DEFINE deferrable == /\ defer /\ Registered
                         /\ route.failure = "none" /\ Deferring
           next == route.deferred
<1>1. /\ route \in RouteType /\ next \in Seq(Note) /\ note \in Note
      /\ note.kind = "terminal" /\ EventCapacity \in Nat /\ Len(<<>>) = 0
      /\ <<>> \in Seq(Note)
  BY BoundsAssumption DEF TypeOK, RouteVarsType, RouteType, Note, TerminalNote
<1>2. QueuesFit'
  BY DEF QueuesFit
<1>3. ASSUME NEW queue \in Seq(Note), Len(queue) <= EventCapacity,
             route' = [route EXCEPT !.deferred = queue]
      PROVE  /\ WithinLimits(route') /\ route'.deferred = queue
             /\ route'.deferredBytesById = route.deferredBytesById
             /\ SamePlace(route')
  <2>1. /\ route'.deferred = queue /\ route'.text = route.text
        /\ route'.imageBytes = route.imageBytes
        /\ route'.images = route.images
        /\ route'.deferredBytes = route.deferredBytes
        /\ route'.deferredBytesById = route.deferredBytesById
        /\ SamePlace(route')
    BY <1>1, <1>3 DEF RouteType, SamePlace
  <2> QED BY <1>3, <2>1 DEF WithinLimits
<1>4. CASE /\ Len(next) < EventCapacity
           /\ route' = [route EXCEPT !.deferred = Append(@, note)]
  <2> DEFINE longer == Append(next, note)
  <2>1. longer \in Seq(Note) /\ Len(longer) = Len(next) + 1 /\ Len(next) \in Nat
    BY <1>1
  <2>2. route' = [route EXCEPT !.deferred = longer]
    BY <1>1, <1>4
  <2>3. DeferralCounted /\ Registered /\ Deferring =>
          Counted(longer, route.deferredBytesById)
    BY <1>1, CountedGrows DEF DeferralCounted
  <2>4. Len(longer) <= EventCapacity
    <3> HIDE DEF longer, next
    <3> QED BY <1>1, <1>4, <2>1
  <2> HIDE DEF longer
  <2>5. /\ WithinLimits(route') /\ route'.deferred = longer
        /\ route'.deferredBytesById = route.deferredBytesById
        /\ SamePlace(route')
    BY <1>3, <2>1, <2>2, <2>4
  <2>6. DeferralCounted => DeferralCounted'
    BY <2>3, <2>5 DEF DeferralCounted, SamePlace, Registered, Deferring
  <2> QED BY <1>2, <2>5, <2>6
<1>5. CASE UNCHANGED route
  BY <1>2, <1>5 DEF DeferralCounted, Registered, Deferring
<1>6. CASE /\ Registered /\ route.turn \notin {NoTurn, note.turn}
           /\ route' = [route EXCEPT
                          !.deferred = IF deferrable THEN <<>> ELSE @]
  <2>1. CASE deferrable
    <3> DEFINE none == <<>>
    <3>1. none \in Seq(Note) /\ Len(none) <= EventCapacity
      BY <1>1
    <3>2. route' = [route EXCEPT !.deferred = none]
      BY <1>6, <2>1
    <3> HIDE DEF none
    <3>3. WithinLimits(route')
      BY <1>3, <3>1, <3>2
    <3> QED BY <1>2, <1>6, <2>1, <3>3
  <2>2. CASE ~deferrable
    <3>1. route' = route
      BY <1>1, <1>6, <2>2 DEF RouteType
    <3> QED BY <1>5, <3>1
  <2> QED BY <2>1, <2>2
<1>7. CASE route' = [route EXCEPT !.phase = "ended", !.turn = note.turn,
                       !.failure = "none", !.deferred = <<>>]
  <2>1. /\ route'.deferred = <<>> /\ route'.text = route.text
        /\ route'.imageBytes = route.imageBytes
        /\ route'.images = route.images
        /\ route'.deferredBytes = route.deferredBytes
        /\ route'.deferredBytesById = route.deferredBytesById
        /\ route'.phase = "ended"
    BY <1>1, <1>7 DEF RouteType
  <2>2. WithinLimits(route')
    BY <1>1, <2>1 DEF WithinLimits
  <2>3. DeferralCounted'
    BY <2>1 DEF DeferralCounted, Deferring
  <2> QED BY <1>2, <2>2, <2>3
<1>8. CASE route' = NoRoute
  <2>1. WithinLimits(route') /\ ~Registered'
    BY <1>8, FreshWithinLimits, NoRouteFacts DEF NoRoute, Registered
  <2> QED BY <1>2, <2>1 DEF DeferralCounted
<1>9. CASE AdoptTerminal(note, deferrable)
  <2> HIDE DEF deferrable
  <2>1. \/ UNCHANGED route
        \/ /\ Registered /\ route.turn \notin {NoTurn, note.turn}
           /\ route' = [route EXCEPT
                          !.deferred = IF deferrable THEN <<>> ELSE @]
        \/ route' = [route EXCEPT !.phase = "ended", !.turn = note.turn,
                       !.failure = "none", !.deferred = <<>>]
        \/ route' = NoRoute
    BY <1>9 DEF AdoptTerminal, routeVars
  <2> QED BY <1>5, <1>6, <1>7, <1>8, <2>1
<1> QED BY <1>4, <1>9 DEF RouteTerminal

(* What an event does.                                                     *)
LEMMA EventFits ==
  ASSUME TypeOK, NEW note \in EventNote, NEW defer, RouteEvent(note, defer),
         WithinLimits(route), QueuesFit
  PROVE  /\ WithinLimits(route') /\ QueuesFit'
         /\ DeferralCounted => DeferralCounted'
<1>1. CASE /\ defer /\ Registered /\ route.failure = "none" /\ Deferring
           /\ DeferEvent(note) /\ UNCHANGED events
  BY <1>1, DeferredFits
<1>2. CASE PassEvent(note)
  BY <1>2, PassedFits
<1> QED BY <1>1, <1>2 DEF RouteEvent

(* A step that keeps what the route retains, or resets the deferral.       *)
LEMMA KeptFits ==
  ASSUME WithinLimits(route), QueuesFit,
         \A r \in Runs : Len(events'[r]) <= Len(events[r]),
         events \in EventsType, events' \in EventsType,
         route'.text = route.text, route'.images = route.images,
         route'.imageBytes = route.imageBytes,
         \/ /\ route'.deferred = route.deferred
            /\ route'.deferredBytes = route.deferredBytes
            /\ route'.deferredBytesById = route.deferredBytesById
            /\ Registered' /\ Deferring' => Registered /\ Deferring
         \/ /\ route'.deferred = <<>> /\ route'.deferredBytes = NoBytes
            /\ route'.deferredBytesById = NoImages
         \/ /\ route'.deferred = <<>> /\ ~Deferring'
            /\ route'.deferredBytes = route.deferredBytes
            /\ route'.deferredBytesById = route.deferredBytesById
  PROVE  /\ WithinLimits(route') /\ QueuesFit'
         /\ DeferralCounted => DeferralCounted'
<1>1. QueuesFit'
  <2>1. \A r \in Runs : Len(events[r]) \in Nat /\ Len(events'[r]) \in Nat
    BY DEF EventsType
  <2>2. EventCapacity \in Nat
    BY BoundsAssumption
  <2> QED BY <2>1, <2>2 DEF QueuesFit
<1>2. Len(<<>>) = 0 /\ EventCapacity \in Nat /\ MaxOutput \in Nat
  BY BoundsAssumption
<1>3. WithinLimits(route')
  BY <1>2, TotalOfNone DEF WithinLimits, NoBytes
<1>4. DeferralCounted => DeferralCounted'
  BY NoneCounted DEF DeferralCounted
<1> QED BY <1>1, <1>3, <1>4

(* No step exceeds a limit, and none loses count of the deferred images    *)
(* while the app-server speaks in turn.                                    *)
LEMMA FitsStep ==
  ASSUME TypeOK, Next, WithinLimits(route), QueuesFit
  PROVE  /\ WithinLimits(route') /\ QueuesFit'
         /\ Replays /\ SpeaksInTurn /\ DeferralCounted => DeferralCounted'
<1> DEFINE Fits == /\ WithinLimits(route') /\ QueuesFit'
                   /\ DeferralCounted => DeferralCounted'
<1>1. /\ route \in RouteType /\ events \in EventsType
      /\ route' \in RouteType /\ events' \in EventsType
      /\ \A r \in Runs : Len(events[r]) \in Nat
  <2>1. TypeOK'
    BY TypeStep
  <2>2. route \in RouteType /\ events \in EventsType
        /\ route' \in RouteType /\ events' \in EventsType
    BY <2>1 DEF TypeOK, RouteVarsType, ConsumerType
  <2> QED BY <2>2 DEF EventsType
<1>2. ASSUME route' = route, UNCHANGED events
      PROVE  Fits
  <2>1. (Registered' <=> Registered) /\ (Deferring' <=> Deferring)
    BY <1>2 DEF Registered, Deferring
  <2> QED BY <1>1, <1>2, <2>1 DEF QueuesFit, DeferralCounted
<1>3. ASSUME route' = NoRoute, UNCHANGED events
      PROVE  Fits
  <2>1. WithinLimits(route') /\ ~Registered'
    BY <1>3, FreshWithinLimits, NoRouteFacts DEF NoRoute, Registered
  <2> QED BY <1>3, <2>1 DEF QueuesFit, DeferralCounted
<1>4. CASE Start
  <2>1. route' = FreshRoute(started + 1) /\ UNCHANGED events
    BY <1>4 DEF Start
  <2>2. WithinLimits(route') /\ QueuesFit'
    BY <2>1, FreshWithinLimits DEF QueuesFit
  <2>3. DeferralCounted'
    BY <2>1, NoneCounted DEF DeferralCounted, FreshRoute
  <2> QED BY <2>2, <2>3
<1>5. CASE \/ SendTurnStart \/ RequestTimeout \/ DrainRequest \/ ReadResponse
           \/ CancelStart \/ BeginDisconnect \/ AbortDisconnect
  <2>1. route' = route /\ UNCHANGED events
    BY <1>5 DEF SendTurnStart, RequestTimeout, DrainRequest, ReadResponse,
                CancelStart, BeginDisconnect, AbortDisconnect, routeVars
  <2> QED BY <1>2, <2>1
<1>6. CASE RefuseStart
  <2>1. UNCHANGED events /\ route' \in {route, RefusedRoute}
    BY <1>6 DEF RefuseStart, routeVars
  <2>2. CASE route' = RefusedRoute
    <3>1. /\ route'.deferred = <<>> /\ route'.phase = "ended"
          /\ route'.text = route.text /\ route'.images = route.images
          /\ route'.imageBytes = route.imageBytes
          /\ route'.deferredBytes = route.deferredBytes
          /\ route'.deferredBytesById = route.deferredBytesById
      BY <1>1, <2>2 DEF RefusedRoute, RouteType
    <3>2. ~Deferring' /\ \A r \in Runs : Len(events'[r]) <= Len(events[r])
      BY <1>1, <2>1, <3>1 DEF Deferring
    <3>3. Fits
      BY <1>1, <3>1, <3>2, KeptFits
    <3> QED BY <3>3
  <2> QED BY <1>2, <2>1, <2>2
<1>7. ASSUME UNCHANGED events,
             \/ route' = [route EXCEPT !.phase = "replaying", !.turn = started,
                            !.deferred = <<>>, !.deferredBytes = NoBytes,
                            !.deferredBytesById = NoImages]
             \/ route' = [route EXCEPT !.deferred = <<>>,
                            !.deferredBytes = NoBytes,
                            !.deferredBytesById = NoImages]
      PROVE  Fits
  <2>1. /\ route'.deferred = <<>> /\ route'.deferredBytes = NoBytes
        /\ route'.deferredBytesById = NoImages
        /\ route'.text = route.text /\ route'.images = route.images
        /\ route'.imageBytes = route.imageBytes
    BY <1>1, <1>7 DEF RouteType
  <2>2. \A r \in Runs : Len(events'[r]) <= Len(events[r])
    BY <1>1, <1>7
  <2> QED BY <1>1, <2>1, <2>2, KeptFits
<1>8. ASSUME UNCHANGED events,
             \/ route' = [route EXCEPT !.phase = "active"]
             \/ route' = [route EXCEPT !.failure = "timeout"]
      PROVE  Fits
  <2>1. /\ route'.deferred = route.deferred
        /\ route'.deferredBytes = route.deferredBytes
        /\ route'.deferredBytesById = route.deferredBytesById
        /\ route'.text = route.text /\ route'.images = route.images
        /\ route'.imageBytes = route.imageBytes /\ route'.run = route.run
        /\ route'.phase \in {route.phase, "active"}
    BY <1>1, <1>8 DEF RouteType
  <2>2. \A r \in Runs : Len(events'[r]) <= Len(events[r])
    BY <1>1, <1>8
  <2>3. Registered' /\ Deferring' => Registered /\ Deferring
    BY <2>1 DEF Registered, Deferring
  <2> QED BY <1>1, <2>1, <2>2, <2>3, KeptFits
<1>9. CASE AcknowledgeStart
  <2>1. /\ UNCHANGED events
        /\ \/ route' = [route EXCEPT !.phase = "replaying", !.turn = started,
                          !.deferred = <<>>, !.deferredBytes = NoBytes,
                          !.deferredBytesById = NoImages]
           \/ route' = NoRoute
           \/ route' = route
    BY <1>9 DEF AcknowledgeStart
  <2> QED BY <1>2, <1>3, <1>7, <2>1
<1>10. CASE ReplayTransition
  <2>1. /\ UNCHANGED events
        /\ \/ route' = [route EXCEPT !.deferred = <<>>,
                          !.deferredBytes = NoBytes,
                          !.deferredBytesById = NoImages]
           \/ route' = [route EXCEPT !.phase = "active"]
           \/ route' = route
    BY <1>10 DEF ReplayTransition
  <2> QED BY <1>2, <1>7, <1>8, <2>1
<1>11. CASE ReplayOne
  <2>1. CASE /\ batch # <<>> /\ Head(batch).kind = "event"
             /\ RouteEvent(Head(batch), FALSE)
    BY <2>1, NextNotes, EventFits
  <2>2. CASE /\ batch # <<>> /\ Head(batch).kind = "terminal"
             /\ RouteTerminal(Head(batch), FALSE) /\ UNCHANGED events
    <3>1. Head(batch) \in TerminalNote
      BY <2>2, NextNotes
    <3>2. PICK defer \in BOOLEAN : ~defer /\ RouteTerminal(Head(batch), defer)
      BY <2>2
    <3> QED BY <2>2, <3>1, <3>2, TerminalFits
  <2> QED BY <1>11, <2>1, <2>2 DEF ReplayOne
<1>12. CASE FailAllRuns
  <2>1. UNCHANGED events /\ route' \in {route, NoRoute}
    BY <1>12 DEF FailAllRuns, routeVars
  <2> QED BY <1>2, <1>3, <2>1
<1>13. ASSUME NEW r \in Runs, CancelRegistered(r)
       PROVE  Fits
  <2>1. UNCHANGED events /\ route' \in {route, NoRoute}
    BY <1>13 DEF CancelRegistered
  <2> QED BY <1>2, <1>3, <2>1
<1>14. ASSUME NEW r \in Runs, ReadEvent(r)
       PROVE  Fits
  <2>1. PICK item \in Items :
          RouteEvent([kind |-> "event", turn |-> r,
                      place |-> Len(emitted[r]) + 1, item |-> item], TRUE)
    BY <1>14 DEF ReadEvent
  <2>2. [kind |-> "event", turn |-> r, place |-> Len(emitted[r]) + 1,
         item |-> item] \in EventNote
    BY NextNotes
  <2> QED BY <2>1, <2>2, EventFits
<1>15. ASSUME NEW r \in Runs, NEW note \in TerminalNote, note.turn = r,
              RouteTerminal(note, TRUE), UNCHANGED events
       PROVE  /\ WithinLimits(route') /\ QueuesFit'
              /\ Replays /\ r = started /\ DeferralCounted => DeferralCounted'
  <2>1. PICK defer \in BOOLEAN : defer = TRUE /\ RouteTerminal(note, defer)
    BY <1>15
  <2>2. Replays /\ r = started /\ Registered =>
          route.turn \in {NoTurn, note.turn}
    BY <1>15 DEF Replays, OneTurn
  <2> QED BY <1>15, <2>1, <2>2, TerminalFits
<1>16. ASSUME NEW r \in Runs, ReadTerminal(r)
       PROVE  /\ WithinLimits(route') /\ QueuesFit'
              /\ Replays /\ SpeaksInTurn /\ DeferralCounted => DeferralCounted'
  <2>1. PICK note \in TerminalNote :
          note.turn = r /\ RouteTerminal(note, TRUE)
    BY <1>16, NextNotes DEF ReadTerminal
  <2>2. UNCHANGED events
    BY <1>16 DEF ReadTerminal
  <2>3. SpeaksInTurn => r = started
    BY <1>16, SpokenInTurn
  <2> QED BY <1>15, <2>1, <2>2, <2>3
<1>17. ASSUME NEW r \in Runs, ReadLate(r)
       PROVE  /\ WithinLimits(route') /\ QueuesFit'
              /\ Replays /\ SpeaksInTurn /\ DeferralCounted => DeferralCounted'
  <2>1. ~SpeaksInTurn
    BY <1>17, SpokenInTurn
  <2>2. CASE \E item \in Items :
               RouteEvent([kind |-> "event", turn |-> r, place |-> 0,
                           item |-> item], TRUE)
    <3>1. PICK item \in Items :
            RouteEvent([kind |-> "event", turn |-> r, place |-> 0,
                        item |-> item], TRUE)
      BY <2>2
    <3>2. [kind |-> "event", turn |-> r, place |-> 0, item |-> item]
            \in EventNote
      BY DEF EventNote
    <3> QED BY <2>1, <3>1, <3>2, EventFits
  <2>3. CASE /\ RouteTerminal([kind |-> "terminal", turn |-> r,
                               status |-> "ok"], TRUE)
             /\ UNCHANGED events
    <3>1. PICK note \in TerminalNote :
            note.turn = r /\ RouteTerminal(note, TRUE)
      BY <2>3 DEF TerminalNote
    <3> QED BY <1>15, <2>1, <2>3, <3>1
  <2> QED BY <1>17, <2>2, <2>3 DEF ReadLate
<1>18. ASSUME NEW r \in Runs, Receive(r) \/ DropRun(r)
       PROVE  Fits
  <2>1. route' = route
    BY <1>18 DEF Receive, DropRun, routeVars
  <2>2. \A q \in Runs : Len(events'[q]) <= Len(events[q])
    <3>1. CASE Receive(r)
      <4>1. events[r] # <<>> /\ events' = [events EXCEPT ![r] = Tail(@)]
        BY <3>1 DEF Receive
      <4>2. events[r] \in Seq(EventNote)
        BY <1>1 DEF EventsType
      <4>3. Len(Tail(events[r])) = Len(events[r]) - 1
        BY <4>1, <4>2
      <4>4. events'[r] = Tail(events[r])
            /\ \A q \in Runs : q # r => events'[q] = events[q]
        BY <1>1, <4>1 DEF EventsType
      <4>5. Len(events[r]) \in Nat /\ Len(events'[r]) <= Len(events[r])
        <5>1. Len(events[r]) \in Nat
          BY <1>1
        <5> QED BY <4>3, <4>4, <5>1
      <4>6. ASSUME NEW q \in Runs, q # r PROVE Len(events'[q]) <= Len(events[q])
        BY <1>1, <4>4, <4>6
      <4> QED BY <4>5, <4>6
    <3>2. CASE DropRun(r)
      <4> DEFINE none == <<>>
      <4>1. events' = [events EXCEPT ![r] = none] /\ Len(none) = 0
        BY <3>2 DEF DropRun
      <4> HIDE DEF none
      <4> QED BY <1>1, <4>1 DEF EventsType
    <3> QED BY <1>18, <3>1, <3>2
  <2>3. (Registered' <=> Registered) /\ (Deferring' <=> Deferring)
    BY <2>1 DEF Registered, Deferring
  <2> QED BY <1>1, <2>1, <2>2, <2>3, KeptFits
<1>19. ASSUME NEW r \in Runs,
              \/ ReceiveTerminal(r) \/ UserInterrupt(r) \/ InterruptTask(r)
              \/ \E w \in Watcher : WatchBegin(r, w) \/ WatchEnd(r, w)
       PROVE  Fits
  <2>1. route' = route /\ UNCHANGED events
    BY <1>19 DEF ReceiveTerminal, UserInterrupt, InterruptTask, WatchBegin,
                 WatchEnd, routeVars
  <2> QED BY <1>2, <2>1
<1>20. ASSUME NEW r \in Runs, DeadlineExpires(r)
       PROVE  Fits
  <2>1. /\ UNCHANGED events
        /\ route' = route \/ route' = [route EXCEPT !.failure = "timeout"]
    BY <1>20 DEF DeadlineExpires
  <2> QED BY <1>2, <1>8, <2>1
<1> QED
  BY <1>4, <1>5, <1>6, <1>9, <1>10, <1>11, <1>12, <1>13, <1>14, <1>16, <1>17,
     <1>18, <1>19, <1>20 DEF Next

LimitsInv == TypeOK /\ WithinLimits(route) /\ QueuesFit

(* LimitsInv holds at first.                                               *)
LEMMA LimitsInit == Init => LimitsInv
<1> SUFFICES ASSUME Init PROVE LimitsInv
  OBVIOUS
<1>1. TypeOK
  BY TypeInit
<1>2. WithinLimits(route)
  BY FreshWithinLimits DEF Init, NoRoute
<1>3. QueuesFit
  <2>1. Len(<<>>) = 0 /\ EventCapacity \in Nat
    BY BoundsAssumption
  <2>2. \A r \in Runs : events[r] = <<>>
    BY DEF Init
  <2> QED BY <2>1, <2>2 DEF QueuesFit
<1> QED BY <1>1, <1>2, <1>3 DEF LimitsInv

(* LimitsInv is kept by every step.                                        *)
LEMMA LimitsInductive == LimitsInv /\ [Next]_vars => LimitsInv'
<1> SUFFICES ASSUME LimitsInv, [Next]_vars PROVE LimitsInv'
  OBVIOUS
<1>1. TypeOK'
  BY TypeStep DEF LimitsInv
<1>2. CASE Next
  BY <1>1, <1>2, FitsStep DEF LimitsInv
<1>3. CASE UNCHANGED vars
  BY <1>1, <1>3 DEF LimitsInv, vars, routeVars, QueuesFit
<1> QED BY <1>2, <1>3

(* Whatever the app-server writes, of whatever turn and however late, the  *)
(* queues of a turn and the output it retains stay within the session's    *)
(* limits, and the byte counters are the sums they stand for (route_event, *)
(* route_event_after_start, record_failure).                               *)
THEOREM LimitsAlwaysHold == Spec => []RetainedWithinLimits
<1>1. LimitsInv => RetainedWithinLimits
  BY LimitsAre DEF LimitsInv
<1> QED BY <1>1, LimitsInit, LimitsInductive, PTL DEF Spec

(* At most one member.                                                     *)
LEMMA FewMembers ==
  ASSUME NEW S, \A n, m \in S : n = m
  PROVE  Cardinality(S) <= 1
<1>1. CASE S = {}
  BY <1>1, FS_EmptySet
<1>2. CASE S # {}
  <2>1. PICK x : S = {x}
    BY <1>2
  <2>2. Cardinality({x}) = 1
    BY FS_Singleton
  <2> QED BY <2>1, <2>2
<1> QED BY <1>1, <1>2

(* The inductive invariant of the byte counters.                           *)
BytesInv == LimitsInv /\ Replays /\ DeferralCounted

(* BytesInv holds at first.                                                *)
LEMMA BytesInit == Init => BytesInv
<1> SUFFICES ASSUME Init PROVE BytesInv
  OBVIOUS
<1>1. DeferralCounted
  BY NoRouteFacts DEF Init, DeferralCounted, Registered
<1> QED BY <1>1, LimitsInit, ReplaysInit DEF BytesInv

(* BytesInv is kept by every step of an orderly connection.                *)
LEMMA BytesInductive == BytesInv /\ [Next /\ SpeaksInTurn]_vars => BytesInv'
<1> SUFFICES ASSUME BytesInv, [Next /\ SpeaksInTurn]_vars PROVE BytesInv'
  OBVIOUS
<1>1. LimitsInv'
  BY LimitsInductive DEF BytesInv
<1>2. Replays'
  BY ReplaysStep, ReplaysStutter DEF BytesInv, LimitsInv
<1>3. DeferralCounted'
  <2>1. CASE Next /\ SpeaksInTurn
    BY <2>1, FitsStep DEF BytesInv, LimitsInv
  <2>2. CASE UNCHANGED vars
    BY <2>2 DEF BytesInv, vars, routeVars, DeferralCounted, Registered, Deferring
  <2> QED BY <2>1, <2>2
<1> QED BY <1>1, <1>2, <1>3 DEF BytesInv

(* While it speaks in turn, the deferral also counts exactly what it       *)
(* holds: one notification of each image at most, and its size.            *)
THEOREM BytesAreExact == OrderlySpec => []RetainedBytesExact
<1>1. BytesInv => RetainedBytesExact
  <2> SUFFICES ASSUME BytesInv PROVE RetainedBytesExact
    OBVIOUS
  <2>1. RetainedWithinLimits
    BY LimitsAre DEF BytesInv, LimitsInv
  <2>2. ASSUME Registered, Deferring, NEW i \in ImageIds
        PROVE  /\ Cardinality(DeferredImages(i)) <= 1
               /\ route.deferredBytesById[i] # 0 <=> DeferredImages(i) # {}
               /\ \A n \in DeferredImages(i) :
                    route.deferred[n].item.size = route.deferredBytesById[i]
    <3>1. DeferredImages(i) = ImagesIn(route.deferred, i)
      BY DEF DeferredImages, ImagesIn
    <3>2. /\ \A n, m \in DeferredImages(i) : n = m
          /\ route.deferredBytesById[i] # 0 <=> DeferredImages(i) # {}
          /\ \A n \in DeferredImages(i) :
               route.deferred[n].item.size = route.deferredBytesById[i]
      BY <2>2, <3>1 DEF BytesInv, DeferralCounted, Counted
    <3> QED BY <3>2, FewMembers
  <2> QED BY <2>1, <2>2 DEF RetainedBytesExact, DeferredImagesCounted
<1> QED BY <1>1, BytesInit, BytesInductive, PTL DEF OrderlySpec
=============================================================================
