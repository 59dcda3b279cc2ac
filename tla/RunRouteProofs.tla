--------------------------- MODULE RunRouteProofs ---------------------------
(***************************************************************************)
(* The safety theorems about the route of a turn (RunRoute).               *)
(*                                                                         *)
(* The argument for the ownership of the thread goes through one           *)
(* classification of the steps: a step leaves the ownership alone, claims  *)
(* the thread, settles the turn that owns it, gives that turn up, or       *)
(* removes a route that ended earlier.  What a step does to the ownership  *)
(* then follows from its kind, not from which of the actions it was.       *)
(***************************************************************************)
EXTENDS RunRouteTypes

Keeps ==
  /\ UNCHANGED <<started, active, terminal>>
  /\ route'.run = route.run
  /\ route'.phase # route.phase => /\ route.phase # "ended"
                                   /\ route'.phase # "ended"

Claims ==
  /\ ~active
  /\ started < MaxRuns
  /\ started' = started + 1
  /\ active'
  /\ route'.run = started + 1
  /\ route'.phase = "starting"
  /\ UNCHANGED terminal

Owning == Registered /\ route.phase # "ended"

Settles ==
  /\ Owning
  /\ ~active'
  /\ \E result \in ResultType :
       /\ result.status \in {"ok", "error"}
       /\ terminal' = [terminal EXCEPT ![route.run] = result]
  /\ \/ route'.run = route.run /\ route'.phase = "ended"
     \/ route' = NoRoute
  /\ UNCHANGED started

GivesUp ==
  /\ Owning
  /\ ~active'
  /\ route' = NoRoute
  /\ UNCHANGED <<started, terminal>>

Removes ==
  /\ ~Owning
  /\ ~active'
  /\ route' = NoRoute
  /\ UNCHANGED <<started, terminal>>

Kind == Keeps \/ Claims \/ Settles \/ GivesUp \/ Removes

-----------------------------------------------------------------------------
(* An adopted terminal keeps the ownership of the thread or settles it.   *)
LEMMA AdoptTerminalKind ==
  ASSUME TypeOK, NEW note \in TerminalNote, NEW overflow \in BOOLEAN,
         AdoptTerminal(note, overflow), UNCHANGED started
  PROVE  Keeps \/ Settles
<1>1. CASE UNCHANGED routeVars
  BY <1>1 DEF routeVars, Keeps
<1>2. CASE /\ route' = [route EXCEPT !.deferred = IF overflow THEN <<>> ELSE @]
           /\ UNCHANGED <<active, terminal, adopted, fence>>
  BY <1>2 DEF Keeps, TypeOK, RouteVarsType, RouteType
<1>3. CASE /\ Registered /\ ~Settled
           /\ terminal' =
                [terminal EXCEPT ![route.run] = ResultOf(note, overflow)]
           /\ active' = FALSE
           /\ route' = IF route.phase = "starting"
                       THEN [route EXCEPT !.phase = "ended",
                                          !.turn = note.turn,
                                          !.failure = "none",
                                          !.deferred = <<>>]
                       ELSE NoRoute
  <2>1. /\ ResultOf(note, overflow) \in ResultType
        /\ ResultOf(note, overflow).status \in {"ok", "error"}
    BY ResultTypes DEF TypeOK, RouteVarsType
  <2>2. \/ route'.run = route.run /\ route'.phase = "ended"
        \/ route' = NoRoute
    BY <1>3 DEF TypeOK, RouteVarsType, RouteType
  <2> QED BY <1>3, <2>1, <2>2 DEF Settles, Owning, Settled
<1> QED BY <1>1, <1>2, <1>3 DEF AdoptTerminal

(* So does route_terminal, which may also defer it.                       *)
LEMMA RouteTerminalKind ==
  ASSUME TypeOK, NEW note \in TerminalNote, NEW defer \in BOOLEAN,
         RouteTerminal(note, defer), UNCHANGED started
  PROVE  Keeps \/ Settles
<1> DEFINE deferrable == /\ defer /\ Registered
                         /\ route.failure = "none" /\ Deferring
<1>1. deferrable \in BOOLEAN
  OBVIOUS
<1>2. \/ AdoptTerminal(note, deferrable)
      \/ /\ route' = [route EXCEPT !.deferred = Append(@, note)]
         /\ UNCHANGED <<active, terminal, adopted, fence>>
  BY DEF RouteTerminal
<1> HIDE DEF deferrable
<1>3. CASE AdoptTerminal(note, deferrable)
  BY <1>1, <1>3, AdoptTerminalKind
<1>4. CASE /\ route' = [route EXCEPT !.deferred = Append(@, note)]
           /\ UNCHANGED <<active, terminal, adopted, fence>>
  BY <1>4 DEF Keeps, TypeOK, RouteVarsType, RouteType
<1> QED BY <1>2, <1>3, <1>4

(* An event never changes who owns the thread.                            *)
LEMMA RouteEventKind ==
  ASSUME TypeOK, NEW note \in EventNote, NEW defer \in BOOLEAN,
         RouteEvent(note, defer), UNCHANGED <<started, active, terminal>>
  PROVE  Keeps
BY RouteEventFacts
   DEF Keeps, SamePlace, TypeOK, RouteVarsType, ConsumerType, TaskType

(* Every step is one of the five kinds of step of the ownership.          *)
LEMMA StepKind ==
  ASSUME TypeOK, ActiveTracksRoute, EndedIsSettled, [Next]_vars
  PROVE  Kind
<1> USE DEF TypeOK, RouteVarsType
<1>1. CASE Start
  BY <1>1, NoRouteFacts, BoundsAssumption
     DEF Start, Claims, Kind, StarterType
<1>2. CASE \/ SendTurnStart \/ RequestTimeout \/ DrainRequest \/ CancelStart
           \/ ReadResponse \/ BeginDisconnect \/ AbortDisconnect
  BY <1>2 DEF SendTurnStart, RequestTimeout, DrainRequest, CancelStart,
              ReadResponse, BeginDisconnect, AbortDisconnect, AbandonStart,
              routeVars, starterVars, Keeps, Kind
<1>3. CASE RefuseStart
  <2>1. CASE UNCHANGED routeVars
    BY <1>3, <2>1 DEF RefuseStart, AbandonStart, routeVars, Keeps, Kind
  <2>2. CASE /\ Registered /\ route.phase = "starting"
             /\ active' = FALSE
             /\ terminal' = [terminal EXCEPT ![route.run] = ErrResult]
             /\ route' = RefusedRoute
    <3>1. RefusedRoute.run = route.run /\ RefusedRoute.phase = "ended"
      BY DEF RefusedRoute, RouteType
    <3>2. ErrResult \in ResultType /\ ErrResult.status = "error"
      BY Zeros DEF ErrResult, ResultType
    <3> QED BY <1>3, <2>2, <3>1, <3>2
            DEF RefuseStart, AbandonStart, Settles, Owning, Kind
  <2> QED BY <1>3, <2>1, <2>2 DEF RefuseStart
<1>4. CASE AcknowledgeStart
  <2>1. CASE route.phase = "starting"
    BY <1>4, <2>1
       DEF AcknowledgeStart, RouteType, Keeps, Kind, AbandonStart
  <2>2. CASE route.phase # "starting"
    BY <1>4, <2>2
       DEF AcknowledgeStart, AbandonStart, Keeps, Removes, Owning, Kind,
           ActiveTracksRoute
  <2> QED BY <2>1, <2>2
<1>5. CASE ReplayOne
  <2>1. Head(batch) \in Note
    BY <1>5 DEF ReplayOne, StarterType
  <2>2. Head(batch).kind = "event" => Head(batch) \in EventNote
    BY <2>1 DEF Note, TerminalNote
  <2>3. Head(batch).kind = "terminal" => Head(batch) \in TerminalNote
    BY <2>1 DEF Note, EventNote
  <2> QED BY <1>5, <2>2, <2>3, RouteEventKind, RouteTerminalKind
          DEF ReplayOne, Kind
<1>6. CASE ReplayTransition
  BY <1>6 DEF ReplayTransition, HandOver, RouteType, Keeps, Kind
<1>7. CASE FailAllRuns
  <2>1. CASE UNCHANGED routeVars
    BY <1>7, <2>1 DEF FailAllRuns, starterVars, routeVars, Keeps, Kind
  <2>2. CASE /\ Registered
             /\ active' = FALSE
             /\ terminal' = FailedTerminal(route.run)
             /\ route' = NoRoute
    <3>1. CASE terminal[route.run].status = "none" /\ Owning
      <4>1. ErrResult \in ResultType /\ ErrResult.status = "error"
        BY Zeros DEF ErrResult, ResultType
      <4> QED BY <1>7, <2>2, <3>1, <4>1
              DEF FailAllRuns, starterVars, FailedTerminal, Settles, Kind
    <3>2. CASE terminal[route.run].status # "none"
      BY <1>7, <2>2, <3>2
         DEF FailAllRuns, starterVars, FailedTerminal, GivesUp, Removes,
             Owning, Kind
    <3> QED BY <2>2, <3>1, <3>2 DEF EndedIsSettled, Owning
  <2> QED BY <1>7, <2>1, <2>2 DEF FailAllRuns
<1>8. ASSUME NEW r \in Runs, CancelRegistered(r)
      PROVE  Kind
  <2>1. CASE active' = FALSE /\ route' = NoRoute
    BY <1>8, <2>1
       DEF CancelRegistered, GivesUp, Removes, Owning, Kind
  <2>2. CASE UNCHANGED <<active, route>>
    BY <1>8, <2>2 DEF CancelRegistered, Keeps, Kind
  <2> QED BY <1>8, <2>1, <2>2 DEF CancelRegistered
<1>9. ASSUME NEW r \in Runs, ReadEvent(r)
      PROVE  Kind
  <2>1. PICK item \in Items :
          RouteEvent([kind |-> "event", turn |-> r,
                      place |-> Len(emitted[r]) + 1, item |-> item], TRUE)
    BY <1>9 DEF ReadEvent
  <2>2. Len(emitted[r]) + 1 \in Nat
    BY DEF ProviderType
  <2>3. [kind |-> "event", turn |-> r, place |-> Len(emitted[r]) + 1,
         item |-> item] \in EventNote
    BY <2>2 DEF EventNote
  <2> QED BY <1>9, <2>1, <2>3, RouteEventKind
          DEF ReadEvent, starterVars, Kind
<1>10. ASSUME NEW r \in Runs, ReadTerminal(r)
       PROVE  Kind
  <2>1. PICK status \in {"ok", "error"} :
          RouteTerminal([kind |-> "terminal", turn |-> r, status |-> status],
                        TRUE)
    BY <1>10 DEF ReadTerminal
  <2>2. [kind |-> "terminal", turn |-> r, status |-> status] \in TerminalNote
    BY DEF TerminalNote
  <2> QED BY <1>10, <2>1, <2>2, RouteTerminalKind
          DEF ReadTerminal, starterVars, Kind
<1>11. ASSUME NEW r \in Runs, ReadLate(r)
       PROVE  Kind
  <2>1. \A item \in Items :
          [kind |-> "event", turn |-> r, place |-> 0, item |-> item]
            \in EventNote
    BY DEF EventNote
  <2>2. [kind |-> "terminal", turn |-> r, status |-> "ok"] \in TerminalNote
    BY DEF TerminalNote
  <2> QED BY <1>11, <2>1, <2>2, RouteEventKind, RouteTerminalKind
          DEF ReadLate, starterVars, Kind
<1>12. ASSUME NEW r \in Runs,
              \/ Receive(r) \/ ReceiveTerminal(r) \/ DropRun(r)
              \/ UserInterrupt(r) \/ InterruptTask(r)
              \/ \E w \in Watcher : WatchBegin(r, w) \/ WatchEnd(r, w)
       PROVE  Kind
  BY <1>12 DEF Receive, ReceiveTerminal, DropRun, UserInterrupt,
               InterruptTask, WatchBegin, WatchEnd, routeVars, starterVars,
               Keeps, Kind
<1>13. ASSUME NEW r \in Runs, DeadlineExpires(r)
       PROVE  Kind
  BY <1>13 DEF DeadlineExpires, RouteType, starterVars, Keeps, Kind
<1>14. CASE UNCHANGED vars
  BY <1>14 DEF vars, routeVars, starterVars, Keeps, Kind
<1> QED
  BY <1>1, <1>2, <1>3, <1>4, <1>5, <1>6, <1>7, <1>8, <1>9, <1>10, <1>11,
     <1>12, <1>13, <1>14 DEF Next

-----------------------------------------------------------------------------
(* The thread is busy exactly while a turn owns it.                        *)

(* The first state of the ownership invariant: no run, not active.        *)
LEMMA OwnedInit == Init => ActiveTracksRoute /\ EndedIsSettled
BY NoRouteFacts DEF Init, ActiveTracksRoute, EndedIsSettled, Registered

(* The run number of a route is a run or 0.                               *)
LEMMA RunOrNone == \A n \in 0..MaxRuns : n # 0 => n \in Runs
BY BoundsAssumption DEF Runs

(* Each kind of step keeps Session::active in line with the route.        *)
LEMMA OwnedStep ==
  ASSUME TypeOK, ActiveTracksRoute, EndedIsSettled, Kind
  PROVE  ActiveTracksRoute' /\ EndedIsSettled'
<1> USE NoRouteFacts DEF ActiveTracksRoute, EndedIsSettled, Registered,
                         TypeOK, RouteVarsType, RouteType
<1>1. CASE Keeps
  BY <1>1 DEF Keeps
<1>2. CASE Claims
  <2>1. started \in Nat
    BY BoundsAssumption DEF StarterType
  <2>2. started + 1 # 0
    BY <2>1
  <2> QED BY <1>2, <2>2 DEF Claims
<1>3. CASE Settles
  <2>1. PICK result \in ResultType :
          /\ result.status \in {"ok", "error"}
          /\ terminal' = [terminal EXCEPT ![route.run] = result]
    BY <1>3 DEF Settles
  <2>2. route.run \in Runs
    <3>1. route.run \in 0..MaxRuns /\ route.run # 0
      BY <1>3 DEF Settles, Owning
    <3> QED BY <3>1, RunOrNone
  <2>3. terminal'[route.run].status # "none"
    <3>1. DOMAIN terminal = Runs
      OBVIOUS
    <3>2. terminal'[route.run] = result
      BY ONLY <2>1, <2>2, <3>1
    <3>3. result.status # "none"
      BY ONLY <2>1
    <3> QED BY ONLY <3>2, <3>3
  <2>4. (route'.run = route.run /\ route'.phase = "ended") \/ route' = NoRoute
    BY <1>3 DEF Settles
  <2>5. ~(Registered' /\ route'.phase # "ended")
    BY <2>4
  <2>6. EndedIsSettled'
    BY <2>3, <2>4
  <2>7. ~active'
    BY <1>3 DEF Settles
  <2>8. ActiveTracksRoute'
    BY <2>5, <2>7, Zenon
  <2> QED BY <2>6, <2>8
<1>4. CASE GivesUp \/ Removes
  BY <1>4 DEF GivesUp, Removes
<1> QED BY <1>1, <1>2, <1>3, <1>4 DEF Kind

-----------------------------------------------------------------------------
(* One interrupt per turn.                                                 *)

(* No interrupt is written at first.                                      *)
LEMMA WrittenInit == Init => WrittenByTask
BY DEF Init, WrittenByTask

(* Only a run's one interrupt task writes turn/interrupt                  *)
(* (try_start_interrupt).                                                 *)
LEMMA WrittenStep ==
  ASSUME TypeOK, WrittenByTask, [Next]_vars
  PROVE  WrittenByTask'
<1> USE DEF TypeOK, TaskType
<1>1. CASE UNCHANGED <<interrupt, sent>>
  BY <1>1 DEF WrittenByTask
<1>2. ASSUME NEW r \in Runs, TryStartInterrupt(r), UNCHANGED sent
      PROVE  WrittenByTask'
  BY <1>2 DEF TryStartInterrupt, WrittenByTask
<1>3. ASSUME NEW r \in Runs, InterruptTask(r)
      PROVE  WrittenByTask'
  <2>1. sent[r] = 0
    BY <1>3 DEF InterruptTask, WrittenByTask
  <2> DEFINE count == sent[r] + (IF adopted[r] \/ link # "up" THEN 0 ELSE 1)
  <2>2. count \in {0, 1}
    BY <2>1
  <2> HIDE DEF count
  <2>3. sent' = [sent EXCEPT ![r] = count]
    BY <1>3 DEF InterruptTask, count
  <2>4. interrupt' = [interrupt EXCEPT ![r] = "done"]
    BY <1>3 DEF InterruptTask
  <2> QED BY <2>2, <2>3, <2>4 DEF WrittenByTask
<1>4. CASE UNCHANGED vars
  BY <1>1, <1>4 DEF vars, taskVars
<1>5. CASE \/ Start \/ SendTurnStart \/ RequestTimeout \/ DrainRequest
           \/ RefuseStart \/ CancelStart \/ AcknowledgeStart \/ ReplayOne
           \/ ReplayTransition \/ ReadResponse \/ BeginDisconnect
           \/ AbortDisconnect \/ FailAllRuns
  BY <1>1, <1>5
     DEF Start, SendTurnStart, RequestTimeout, DrainRequest, RefuseStart,
         CancelStart, AcknowledgeStart, ReplayOne, ReplayTransition,
         ReadResponse, BeginDisconnect, AbortDisconnect, FailAllRuns, taskVars
<1>6. ASSUME NEW r \in Runs,
             \/ CancelRegistered(r) \/ ReadEvent(r) \/ ReadTerminal(r)
             \/ ReadLate(r) \/ Receive(r) \/ ReceiveTerminal(r)
             \/ DropRun(r) \/ DeadlineExpires(r)
             \/ \E w \in Watcher : WatchEnd(r, w)
      PROVE  WrittenByTask'
  BY <1>1, <1>6
     DEF CancelRegistered, ReadEvent, ReadTerminal, ReadLate, Receive,
         ReceiveTerminal, DropRun, DeadlineExpires, WatchEnd, taskVars
<1>7. ASSUME NEW r \in Runs,
             \/ UserInterrupt(r)
             \/ \E w \in Watcher : WatchBegin(r, w)
      PROVE  WrittenByTask'
  BY <1>1, <1>2, <1>7 DEF UserInterrupt, WatchBegin
<1> QED BY <1>3, <1>4, <1>5, <1>6, <1>7 DEF Next

-----------------------------------------------------------------------------
(* A failed start keeps the thread's route until its own cleanup.          *)

(* No start is under way at first.                                        *)
LEMMA HoldsInit == Init => StartHoldsRoute
BY DEF Init, StartHoldsRoute

(* A notification moves a route that is starting to its end at most.       *)
LEMMA HeldThroughNotes ==
  ASSUME TypeOK, ActiveTracksRoute, NEW r \in Runs, HoldsRoute(r),
         \/ \E note \in EventNote, defer \in BOOLEAN : RouteEvent(note, defer)
         \/ \E note \in TerminalNote, defer \in BOOLEAN :
              RouteTerminal(note, defer)
  PROVE  HoldsRoute(r)'
<1> USE DEF TypeOK, RouteVarsType, RouteType
<1>1. CASE \E note \in EventNote, defer \in BOOLEAN : RouteEvent(note, defer)
  BY <1>1, RouteEventFacts
     DEF SamePlace, ConsumerType, TaskType, HoldsRoute
<1>2. ASSUME NEW note \in TerminalNote, NEW defer \in BOOLEAN,
             RouteTerminal(note, defer)
      PROVE  HoldsRoute(r)'
  <2>1. ASSUME NEW overflow \in BOOLEAN, AdoptTerminal(note, overflow)
        PROVE  HoldsRoute(r)'
    <3>1. CASE UNCHANGED route
      BY <3>1 DEF HoldsRoute
    <3>2. CASE route' = [route EXCEPT !.deferred =
                                        IF overflow THEN <<>> ELSE @]
      BY <3>2 DEF HoldsRoute
    <3>3. CASE /\ ~Settled
               /\ route' = IF route.phase = "starting"
                           THEN [route EXCEPT !.phase = "ended",
                                              !.turn = note.turn,
                                              !.failure = "none",
                                              !.deferred = <<>>]
                           ELSE NoRoute
      BY <3>3 DEF HoldsRoute, Settled
    <3> QED BY <2>1, <3>1, <3>2, <3>3 DEF AdoptTerminal, routeVars
  <2> DEFINE deferrable == /\ defer /\ Registered
                           /\ route.failure = "none" /\ Deferring
  <2>2. deferrable \in BOOLEAN
    OBVIOUS
  <2>3. \/ AdoptTerminal(note, deferrable)
        \/ route' = [route EXCEPT !.deferred = Append(@, note)]
    BY <1>2 DEF RouteTerminal
  <2> HIDE DEF deferrable
  <2>4. CASE route' = [route EXCEPT !.deferred = Append(@, note)]
    BY <2>4 DEF HoldsRoute
  <2> QED BY <2>1, <2>2, <2>3, <2>4
<1> QED BY <1>1, <1>2

(* No step takes the route of a failed start before its own clean-up      *)
(* runs.                                                                  *)
LEMMA HoldsStep ==
  ASSUME TypeOK, ActiveTracksRoute, StartHoldsRoute, [Next]_vars
  PROVE  StartHoldsRoute'
<1> USE DEF TypeOK, RouteVarsType, RouteType
<1> SUFFICES ASSUME link' = "up"
             PROVE  StartHoldsRoute'
  BY DEF StartHoldsRoute
<1>1. CASE /\ link = "up"
           /\ UNCHANGED starterVars
           /\ \A r \in Runs : HoldsRoute(r) => HoldsRoute(r)'
  <2>1. starter \notin {"idle", "replaying"} => started \in Runs
    BY DEF StarterType
  <2>2. cancelling \subseteq Runs
    BY DEF StarterType
  <2> QED BY <1>1, <2>1, <2>2 DEF StartHoldsRoute, starterVars, HoldsRoute
<1>2. CASE UNCHANGED <<link, starterVars, route>>
  BY <1>1, <1>2 DEF HoldsRoute
<1>3. CASE AbandonStart /\ link = "up" /\ starter \notin {"idle", "replaying"}
           /\ HoldsRoute(started)'
  <2>1. cancelling = {}
    BY <1>3 DEF StartHoldsRoute
  <2>2. starter' = "idle" /\ cancelling' = {started} /\ started' = started
    BY <1>3, <2>1 DEF AbandonStart
  <2> QED BY <1>3, <2>2 DEF StartHoldsRoute, HoldsRoute
<1>4. CASE Start
  <2>1. cancelling = {} /\ link = "up"
    BY <1>4, BoundsAssumption
       DEF Start, StartHoldsRoute, HoldsRoute, Registered, StarterType, Runs,
           linkVars
  <2>2. started + 1 \in 0..MaxRuns
    BY <1>4, BoundsAssumption DEF Start, StarterType
  <2>3. route'.run = started' /\ route'.phase = "starting"
    BY <1>4, <2>2, NoRouteFacts DEF Start
  <2>4. cancelling' = {}
    BY <1>4, <2>1 DEF Start
  <2> QED BY <2>3, <2>4 DEF StartHoldsRoute, HoldsRoute
<1>5. CASE \/ SendTurnStart \/ RequestTimeout \/ DrainRequest \/ ReadResponse
  <2>1. /\ link = "up"
        /\ starter \notin {"idle", "replaying"}
        /\ UNCHANGED <<started, cancelling, route>>
    BY <1>5 DEF SendTurnStart, RequestTimeout, DrainRequest, ReadResponse,
                routeVars, linkVars
  <2> QED BY <2>1 DEF StartHoldsRoute, HoldsRoute
<1>6. CASE RefuseStart
  <2>1. link = "up" /\ starter = "refused" /\ HoldsRoute(started)
    BY <1>6 DEF RefuseStart, StartHoldsRoute
  <2>2. AbandonStart /\ started' = started
    BY <1>6 DEF RefuseStart, AbandonStart
  <2>3. HoldsRoute(started)'
    BY <1>6, <2>1, <2>2
       DEF RefuseStart, RefusedRoute, HoldsRoute, routeVars
  <2> QED BY <1>3, <2>1, <2>2, <2>3
<1>7. CASE CancelStart
  <2>1. /\ link = "up" /\ starter \notin {"idle", "replaying"}
        /\ HoldsRoute(started) /\ UNCHANGED <<started, route>>
    BY <1>7 DEF CancelStart, StartHoldsRoute, AbandonStart, routeVars
  <2> QED BY <1>3, <1>7, <2>1 DEF CancelStart, HoldsRoute
<1>8. CASE AcknowledgeStart
  <2>1. /\ link = "up" /\ starter = "acknowledging" /\ HoldsRoute(started)
        /\ cancelling = {}
    BY <1>8 DEF AcknowledgeStart, StartHoldsRoute
  <2>2. CASE starter' \in {"idle", "replaying"} /\ cancelling' = cancelling
    BY <2>1, <2>2 DEF StartHoldsRoute
  <2>3. CASE AbandonStart /\ UNCHANGED route
    BY <1>3, <2>1, <2>3 DEF AbandonStart, HoldsRoute
  <2> QED BY <1>8, <2>2, <2>3 DEF AcknowledgeStart, HandOver
<1>9. CASE ReplayOne \/ ReplayTransition
  <2>1. /\ link = "up" /\ starter = "replaying"
        /\ cancelling = {} /\ cancelling' = cancelling
        /\ starter' \in {"idle", "replaying"}
    BY <1>9 DEF ReplayOne, ReplayTransition, StartHoldsRoute, HandOver,
                linkVars
  <2> QED BY <2>1 DEF StartHoldsRoute
<1>10. CASE BeginDisconnect \/ AbortDisconnect \/ FailAllRuns
  BY <1>10 DEF BeginDisconnect, AbortDisconnect, FailAllRuns
<1>11. ASSUME NEW r \in Runs, CancelRegistered(r)
       PROVE  StartHoldsRoute'
  <2>1. /\ link = "up" /\ starter = "idle" /\ starter' = "idle"
        /\ HoldsRoute(r)
        /\ \A q \in cancelling : HoldsRoute(q)
    BY <1>11 DEF CancelRegistered, StartHoldsRoute, linkVars
  <2>2. cancelling' = {}
    BY <1>11, <2>1 DEF CancelRegistered, HoldsRoute
  <2> QED BY <2>1, <2>2 DEF StartHoldsRoute
<1>12. ASSUME NEW r \in Runs, ReadEvent(r)
       PROVE  StartHoldsRoute'
  <2>1. PICK item \in Items :
          RouteEvent([kind |-> "event", turn |-> r,
                      place |-> Len(emitted[r]) + 1, item |-> item], TRUE)
    BY <1>12 DEF ReadEvent
  <2>2. Len(emitted[r]) + 1 \in Nat
    BY DEF ProviderType
  <2>3. [kind |-> "event", turn |-> r, place |-> Len(emitted[r]) + 1,
         item |-> item] \in EventNote
    BY <2>2 DEF EventNote
  <2>4. \A q \in Runs : HoldsRoute(q) => HoldsRoute(q)'
    BY <2>1, <2>3, HeldThroughNotes
  <2> QED BY <1>1, <1>12, <2>4 DEF ReadEvent, linkVars
<1>13. ASSUME NEW r \in Runs, ReadTerminal(r)
       PROVE  StartHoldsRoute'
  <2>1. \A status \in {"ok", "error"} :
          [kind |-> "terminal", turn |-> r, status |-> status]
            \in TerminalNote
    BY DEF TerminalNote
  <2>2. \A q \in Runs : HoldsRoute(q) => HoldsRoute(q)'
    BY <1>13, <2>1, HeldThroughNotes DEF ReadTerminal
  <2> QED BY <1>1, <1>13, <2>2 DEF ReadTerminal
<1>14. ASSUME NEW r \in Runs, ReadLate(r)
       PROVE  StartHoldsRoute'
  <2>1. \A item \in Items :
          [kind |-> "event", turn |-> r, place |-> 0, item |-> item]
            \in EventNote
    BY DEF EventNote
  <2>2. [kind |-> "terminal", turn |-> r, status |-> "ok"] \in TerminalNote
    BY DEF TerminalNote
  <2>3. \A q \in Runs : HoldsRoute(q) => HoldsRoute(q)'
    BY <1>14, <2>1, <2>2, HeldThroughNotes DEF ReadLate
  <2> QED BY <1>1, <1>14, <2>3 DEF ReadLate
<1>15. ASSUME NEW r \in Runs,
              \/ Receive(r) \/ ReceiveTerminal(r) \/ DropRun(r)
              \/ UserInterrupt(r) \/ InterruptTask(r)
              \/ \E w \in Watcher : WatchBegin(r, w) \/ WatchEnd(r, w)
       PROVE  StartHoldsRoute'
  BY <1>2, <1>15 DEF Receive, ReceiveTerminal, DropRun, UserInterrupt,
                     InterruptTask, WatchBegin, WatchEnd, routeVars, linkVars
<1>16. ASSUME NEW r \in Runs, DeadlineExpires(r)
       PROVE  StartHoldsRoute'
  BY <1>1, <1>16 DEF DeadlineExpires, HoldsRoute, linkVars
<1>17. CASE UNCHANGED vars
  BY <1>2, <1>17 DEF vars, routeVars, linkVars
<1> QED
  BY <1>4, <1>5, <1>6, <1>7, <1>8, <1>9, <1>10, <1>11, <1>12, <1>13, <1>14,
     <1>15, <1>16, <1>17 DEF Next

-----------------------------------------------------------------------------
(* The theorems.                                                           *)

(* The conjunction of the parts is inductive.                              *)
THEOREM RouteInvariant == Spec => []RouteInv
<1>1. Init => RouteInv
  BY TypeInit, OwnedInit, WrittenInit, HoldsInit DEF RouteInv
<1>2. RouteInv /\ [Next]_vars => RouteInv'
  BY TypeStep, StepKind, OwnedStep, WrittenStep, HoldsStep DEF RouteInv
<1> QED BY <1>1, <1>2, PTL DEF Spec

(* Session::active is set exactly while the thread's route expects a       *)
(* terminal.                                                               *)
THEOREM ActiveIsExact == Spec => []ActiveTracksRoute
BY RouteInvariant, PTL DEF RouteInv

(* A late cancel_registered_run meets the route of its own start only.     *)
THEOREM CancelIsOwn == Spec => []CancelMeetsOwnRun
<1>1. RouteInv => CancelMeetsOwnRun
  BY DEF RouteInv, StartHoldsRoute, HoldsRoute, CancelMeetsOwnRun
<1> QED BY <1>1, RouteInvariant, PTL

(* No turn is interrupted twice, whoever asks for it.                      *)
THEOREM InterruptIsSingle == Spec => []AtMostOneInterrupt
<1>1. RouteInv => AtMostOneInterrupt
  BY DEF RouteInv, WrittenByTask, AtMostOneInterrupt
<1> QED BY <1>1, RouteInvariant, PTL

(* The routes, replays, interrupts and disconnects implement the abstract  *)
(* ownership of the thread: an outcome is published once, only for the     *)
(* owner, in the step that frees the thread.                               *)
THEOREM RouteImplementsOwnership == Spec => ImplementsOwnership
<1> DEFINE owner == IF active THEN route.run ELSE 0
           outcome == [r \in Runs |-> terminal[r].status]
<1>1. Init => Ownership!Init
  BY DEF Init, Ownership!Init, Runs, NoResult
<1>2. ASSUME RouteInv, RouteInv', [Next]_vars
      PROVE  [Ownership!Next]_(Ownership!ownershipVars)
  <2> USE DEF RouteInv, TypeOK, RouteVarsType, RouteType
  <2>1. Kind
    BY <1>2, StepKind
  <2>2. CASE Keeps
    BY <1>2, <2>2 DEF Keeps, Ownership!ownershipVars
  <2>3. CASE Claims
    BY <1>2, <2>3 DEF Claims, Ownership!Next, Ownership!Claim
  <2>4. CASE Settles
    <3>1. active /\ owner = route.run /\ route.run # 0
      BY <1>2, <2>4 DEF Settles, Owning, ActiveTracksRoute, Registered
    <3>2. PICK result \in ResultType :
            /\ result.status \in {"ok", "error"}
            /\ terminal' = [terminal EXCEPT ![route.run] = result]
      BY <2>4 DEF Settles
    <3>3. outcome' = [outcome EXCEPT ![route.run] = result.status]
      BY <1>2, <3>2
    <3>4. owner' = 0 /\ started' = started
      BY <2>4 DEF Settles
    <3> QED BY <3>1, <3>2, <3>3, <3>4
            DEF Ownership!Next, Ownership!Settle
  <2>5. CASE GivesUp
    <3>1. active /\ owner = route.run /\ route.run # 0
      BY <1>2, <2>5 DEF GivesUp, Owning, ActiveTracksRoute, Registered
    <3> QED BY <2>5, <3>1 DEF GivesUp, Ownership!Next, Ownership!Forfeit
  <2>6. CASE Removes
    <3>1. ~active
      BY <1>2, <2>6 DEF Removes, Owning, ActiveTracksRoute
    <3> QED BY <2>6, <3>1 DEF Removes, Ownership!ownershipVars
  <2> QED BY <2>1, <2>2, <2>3, <2>4, <2>5, <2>6 DEF Kind
<1> QED BY <1>1, <1>2, RouteInvariant, PTL
        DEF Spec, ImplementsOwnership, Ownership!Spec
=============================================================================
