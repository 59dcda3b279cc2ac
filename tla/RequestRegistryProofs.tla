----------------------- MODULE RequestRegistryProofs -----------------------
(***************************************************************************)
(* The safety theorems about the ownership of request outcomes             *)
(* (RequestRegistry), for any set of requests.                             *)
(***************************************************************************)
EXTENDS RequestRegistry, TLAPS

(* No step of any task leaves the types of the registry.                  *)
LEMMA TypeStep ==
  ASSUME TypeOK, AnsweredOnce, [Next]_vars
  PROVE  TypeOK'
<1> USE RequestsAssumption
    DEF TypeOK, Go, Return, LeaveArmed, Cut, Idle, callerVars, registryVars,
        writerVars, peerVars, linkVars, processVars
<1>1. ASSUME NEW r \in Requests, Admit(r)
      PROVE  TypeOK'
  BY <1>1 DEF Admit
<1>2. ASSUME NEW r \in Requests, CallerStep(r)
      PROVE  TypeOK'
  <2>1. CASE Register(r)
    BY <2>1 DEF Register
  <2>2. CASE Clear(r) \/ MarkDispatched(r)
    BY <2>2 DEF Clear, MarkDispatched
  <2>3. CASE RefuseSend(r)
    BY <2>3 DEF RefuseSend
  <2>4. CASE Acknowledged(r)
    BY <2>4 DEF Acknowledged
  <2>5. CASE Unacknowledged(r)
    BY <2>5 DEF Unacknowledged
  <2>6. CASE RemoveUnacknowledged(r)
    BY <2>6 DEF RemoveUnacknowledged
  <2>7. CASE TakeResponse(r)
    BY <2>7 DEF TakeResponse
  <2>8. CASE Expire(r)
    BY <2>8 DEF Expire
  <2>9. CASE TimeOut(r)
    BY <2>9 DEF TimeOut
  <2>10. CASE Fence(r)
    BY <2>10 DEF Fence
  <2>11. CASE Cleaned(r)
    BY <2>11 DEF Cleaned
  <2>12. CASE Queue(r)
    BY <2>12 DEF Queue
  <2>13. CASE GiveUp(r)
    BY <2>13 DEF GiveUp
  <2> QED
    BY <1>2, <2>1, <2>2, <2>3, <2>4, <2>5, <2>6, <2>7, <2>8, <2>9, <2>10,
       <2>11, <2>12, <2>13 DEF CallerStep
<1>3. ASSUME NEW r \in Requests, DropCaller(r)
      PROVE  TypeOK'
  BY <1>3 DEF DropCaller
<1>4. ASSUME NEW r \in Requests, CancelAborted(r)
      PROVE  TypeOK'
  BY <1>4 DEF CancelAborted
<1>5. ASSUME NEW r \in Requests, CancelFence(r)
      PROVE  TypeOK'
  BY <1>5 DEF CancelFence
<1>6. ASSUME NEW r \in Requests, Write(r) \/ WriteFails(r) \/ Answer(r)
      PROVE  TypeOK'
  <2>1. CASE Write(r)
    BY <2>1 DEF Write
  <2>2. CASE WriteFails(r)
    <3>1. peer' \in [Requests -> {"none", "read", "ok", "refused"}]
      BY <2>2 DEF WriteFails
    <3> QED BY <2>2, <3>1 DEF WriteFails
  <2>3. CASE Answer(r)
    <3>1. peer' \in [Requests -> {"none", "read", "ok", "refused"}]
      BY <2>3 DEF Answer
    <3> QED BY <2>3, <3>1 DEF Answer
  <2> QED BY <1>6, <2>1, <2>2, <2>3
<1>7. ASSUME NEW r \in Requests, ReadResponse(r)
      PROVE  TypeOK'
  BY <1>7 DEF ReadResponse, MarkSuccess
<1>8. ASSUME NEW r \in Requests, SendResponse(r)
      PROVE  TypeOK'
  <2>1. router.on = r
    BY <1>8 DEF SendResponse
  <2>2. peer[r] \in {"ok", "refused"}
    BY <2>1 DEF AnsweredOnce
  <2> QED BY <1>8, <2>2 DEF SendResponse
<1>9. ASSUME NEW r \in Requests, CheckHandoff(r)
      PROVE  TypeOK'
  BY <1>9 DEF CheckHandoff
<1>10. CASE RouterFence \/ RouterClosed
  BY <1>10 DEF RouterFence, RouterClosed
<1>11. CASE \/ Kill \/ KillEnds \/ Drain \/ Drained
            \/ BeginClosing \/ StopProcess \/ AppEnds
  <2>1. CASE Kill
    BY <2>1 DEF Kill
  <2>2. CASE KillEnds
    BY <2>2 DEF KillEnds
  <2>3. CASE Drain
    BY <2>3 DEF Drain
  <2>4. CASE Drained
    BY <2>4 DEF Drained
  <2>5. CASE BeginClosing
    BY <2>5 DEF BeginClosing
  <2>6. CASE StopProcess
    BY <2>6 DEF StopProcess
  <2>7. CASE AppEnds
    BY <2>7 DEF AppEnds
  <2> QED BY <1>11, <2>1, <2>2, <2>3, <2>4, <2>5, <2>6, <2>7
<1>12. ASSUME NEW r \in Requests, FailOne(r)
       PROVE  TypeOK'
  BY <1>12 DEF FailOne, FailureOf
<1>13. CASE UNCHANGED vars
  BY <1>13 DEF vars
<1> QED
  BY <1>1, <1>2, <1>3, <1>4, <1>5, <1>6, <1>7, <1>8, <1>9, <1>10, <1>11,
     <1>12, <1>13
     DEF Next, CancelStep, RouterStep, DisconnectStep

(* A request is the caller's alone until send_tracked dispatches it.      *)
LEMMA CallerFirstStep ==
  ASSUME TypeOK, CallerFirst, [Next]_vars
  PROVE  CallerFirst'
<1> USE DEF TypeOK, CallerFirst, Go, Return, LeaveArmed, callerVars,
            registryVars
<1>1. ASSUME NEW r \in Requests,
             Admit(r) \/ Register(r) \/ Acknowledged(r) \/ Unacknowledged(r)
               \/ RemoveUnacknowledged(r) \/ Expire(r)
      PROVE  CallerFirst'
  BY <1>1 DEF Admit, Register, Acknowledged, Unacknowledged,
              RemoveUnacknowledged, Expire
<1>2. ASSUME NEW r \in Requests, Clear(r) \/ MarkDispatched(r) \/ Queue(r)
      PROVE  CallerFirst'
  BY <1>2 DEF Clear, MarkDispatched, Queue
<1>3. ASSUME NEW r \in Requests,
             RefuseSend(r) \/ GiveUp(r) \/ TakeResponse(r)
      PROVE  CallerFirst'
  BY <1>3 DEF RefuseSend, GiveUp, TakeResponse
<1>4. ASSUME NEW r \in Requests, TimeOut(r) \/ Fence(r)
      PROVE  CallerFirst'
  BY <1>4 DEF TimeOut, Fence
<1>5. ASSUME NEW r \in Requests, Cleaned(r) \/ DropCaller(r)
      PROVE  CallerFirst'
  BY <1>5 DEF Cleaned, DropCaller
<1>6. ASSUME NEW r \in Requests, CancelStep(r)
      PROVE  CallerFirst'
  BY <1>6 DEF CancelStep, CancelAborted, CancelFence
<1>7. ASSUME UNCHANGED <<caller, dispatched, canceller>>
      PROVE  CallerFirst'
  BY <1>7
<1>8. ASSUME NEW r \in Requests,
             Write(r) \/ WriteFails(r) \/ Answer(r) \/ ReadResponse(r)
               \/ SendResponse(r) \/ CheckHandoff(r) \/ FailOne(r)
      PROVE  CallerFirst'
  BY <1>7, <1>8 DEF Write, WriteFails, Answer, ReadResponse, SendResponse,
                    CheckHandoff, FailOne
<1>9. CASE \/ RouterFence \/ RouterClosed \/ Kill \/ KillEnds \/ Drain
           \/ Drained \/ BeginClosing \/ StopProcess \/ AppEnds
           \/ UNCHANGED vars
  BY <1>7, <1>9 DEF RouterFence, RouterClosed, Kill, KillEnds, Drain, Drained,
                    BeginClosing, StopProcess, AppEnds, vars
<1> QED
  BY <1>1, <1>2, <1>3, <1>4, <1>5, <1>6, <1>8, <1>9
     DEF Next, CallerStep, RouterStep, DisconnectStep

(* The router completes only what the app-server answered, once.          *)
LEMMA AnsweredOnceStep ==
  ASSUME TypeOK, CallerFirst, AnsweredOnce, [Next]_vars
  PROVE  AnsweredOnce'
<1> USE RequestsAssumption
    DEF TypeOK, AnsweredOnce, callerVars, registryVars, writerVars, peerVars,
        linkVars
<1>1. ASSUME NEW r \in Requests, MarkDispatched(r) \/ Queue(r)
      PROVE  AnsweredOnce'
  <2>1. CASE MarkDispatched(r)
    BY <2>1 DEF MarkDispatched, CallerFirst, Go
  <2>2. CASE Queue(r)
    <3>1. r \in dispatched
      BY <2>2 DEF Queue, CallerFirst
    <3>2. \A q \in Requests :
            caller'[q] = "marked" => q # r /\ caller[q] = "marked"
      BY <2>2 DEF Queue, Go
    <3> QED BY <2>2, <3>1, <3>2 DEF Queue
  <2> QED BY <1>1, <2>1, <2>2
<1>2. ASSUME NEW r \in Requests, Write(r)
      PROVE  AnsweredOnce'
  BY <1>2 DEF Write
<1>3. ASSUME NEW r \in Requests, WriteFails(r)
      PROVE  AnsweredOnce'
  <2>1. CASE UNCHANGED peer
    BY <1>3, <2>1 DEF WriteFails
  <2>2. CASE peer' = [peer EXCEPT ![r] = "read"]
    BY <1>3, <2>2 DEF WriteFails
  <2> QED BY <1>3, <2>1, <2>2 DEF WriteFails
<1>4. ASSUME NEW r \in Requests, Answer(r)
      PROVE  AnsweredOnce'
  <2>1. PICK answer \in {"ok", "refused"} :
          peer' = [peer EXCEPT ![r] = answer]
    BY <1>4 DEF Answer
  <2> QED BY <1>4, <2>1 DEF Answer
<1>5. ASSUME NEW r \in Requests, ReadResponse(r)
      PROVE  AnsweredOnce'
  BY <1>5 DEF ReadResponse
<1>6. ASSUME NEW r \in Requests, SendResponse(r) \/ CheckHandoff(r)
      PROVE  AnsweredOnce'
  BY <1>6 DEF SendResponse, CheckHandoff, Idle
<1>7. CASE RouterFence \/ RouterClosed
  BY <1>7 DEF RouterFence, RouterClosed, Idle
<1>8. ASSUME UNCHANGED <<dispatched, outbound, peer, heard, router, channel>>,
             \A r \in Requests : caller'[r] = "marked" => caller[r] = "marked"
      PROVE  AnsweredOnce'
  BY <1>8
<1>9. ASSUME NEW r \in Requests,
             \/ Admit(r) \/ Register(r) \/ RefuseSend(r) \/ Clear(r)
             \/ GiveUp(r) \/ Acknowledged(r)
             \/ Unacknowledged(r) \/ RemoveUnacknowledged(r)
             \/ TakeResponse(r) \/ Expire(r) \/ TimeOut(r) \/ Fence(r)
             \/ Cleaned(r) \/ DropCaller(r) \/ CancelStep(r)
      PROVE  AnsweredOnce'
  <2>1. UNCHANGED <<dispatched, outbound, peer, heard, router, channel>>
    BY <1>9
       DEF Admit, Register, RefuseSend, Clear, GiveUp, Acknowledged,
           Unacknowledged, RemoveUnacknowledged, TakeResponse, Expire,
           TimeOut, Fence, Cleaned, DropCaller, CancelStep, CancelAborted,
           CancelFence
  <2>2. \/ UNCHANGED caller
        \/ \E place \in {"admitted", "registered", "cleared", "waiting",
                         "expired", "unacked", "fencing", "cleaning", "done",
                         "dropped"} : Go(r, place)
    BY <1>9
       DEF Admit, Register, RefuseSend, Clear, GiveUp, Acknowledged,
           Unacknowledged, RemoveUnacknowledged, TakeResponse, Expire,
           TimeOut, Fence, Cleaned, DropCaller, CancelStep, CancelAborted,
           CancelFence, Return
  <2>3. \A q \in Requests : caller'[q] = "marked" => caller[q] = "marked"
    BY <2>2 DEF Go
  <2> QED BY <1>8, <2>1, <2>3
<1>11. ASSUME NEW r \in Requests, FailOne(r)
       PROVE  AnsweredOnce'
  BY <1>11 DEF FailOne, FailureOf
<1>10. CASE \/ Kill \/ KillEnds \/ Drain \/ Drained \/ BeginClosing
            \/ StopProcess \/ AppEnds \/ UNCHANGED vars
  BY <1>8, <1>10 DEF Kill, KillEnds, Drain, Drained, BeginClosing,
                     StopProcess, AppEnds, vars
<1> QED
  BY <1>1, <1>2, <1>3, <1>4, <1>5, <1>6, <1>7, <1>9, <1>10,
     <1>11
     DEF Next, CallerStep, RouterStep, DisconnectStep

(* The senders stop and the app-server is killed before fail_all, which    *)
(* fails by dispatch.                                                      *)
LEMMA StoppedBeforeDrainStep ==
  ASSUME TypeOK, CallerFirst, AnsweredOnce, StoppedBeforeDrain, [Next]_vars
  PROVE  StoppedBeforeDrain'
<1> USE RequestsAssumption
    DEF TypeOK, StoppedBeforeDrain, Failable, NeverSent, Go, Return, Cut,
        callerVars, registryVars, linkVars, processVars, peerVars
<1>1. ASSUME NEW r \in Requests, MarkDispatched(r)
      PROVE  StoppedBeforeDrain'
  BY <1>1 DEF MarkDispatched
<1>2. ASSUME NEW r \in Requests,
             \/ RefuseSend(r) \/ Clear(r) \/ Queue(r) \/ GiveUp(r)
             \/ TimeOut(r)
      PROVE  StoppedBeforeDrain'
  BY <1>2 DEF RefuseSend, Clear, Queue, GiveUp, TimeOut, CallerFirst
<1>3. ASSUME NEW r \in Requests, TakeResponse(r)
      PROVE  StoppedBeforeDrain'
  BY <1>3 DEF TakeResponse
<1>4. ASSUME NEW r \in Requests, Fence(r) \/ Cleaned(r)
      PROVE  StoppedBeforeDrain'
  BY <1>4 DEF Fence, Cleaned
<1>5. ASSUME NEW r \in Requests, DropCaller(r)
      PROVE  StoppedBeforeDrain'
  BY <1>5 DEF DropCaller
<1>6. ASSUME NEW r \in Requests,
             \/ Admit(r) \/ Register(r) \/ Acknowledged(r)
             \/ Unacknowledged(r) \/ RemoveUnacknowledged(r) \/ Expire(r)
      PROVE  StoppedBeforeDrain'
  BY <1>6 DEF Admit, Register, Acknowledged, Unacknowledged,
              RemoveUnacknowledged, Expire
<1>7. ASSUME NEW r \in Requests, SendResponse(r)
      PROVE  StoppedBeforeDrain'
  <2>1. router.on = r
    BY <1>7 DEF SendResponse
  <2>2. peer[r] \in {"ok", "refused"}
    BY <2>1 DEF AnsweredOnce
  <2> QED BY <1>7, <2>2 DEF SendResponse
<1>8. CASE RouterFence \/ RouterClosed \/ Kill \/ KillEnds \/ Drain \/ Drained
  BY <1>8 DEF RouterFence, RouterClosed, Kill, KillEnds, Drain, Drained
<1>9. ASSUME NEW r \in Requests, FailOne(r)
      PROVE  StoppedBeforeDrain'
  <2>1. link = "draining" /\ app # "running"
    BY <1>9 DEF FailOne
  <2>2. r \notin dispatched => peer[r] = "none"
    BY DEF AnsweredOnce
  <2> QED BY <1>9, <2>1, <2>2 DEF FailOne, FailureOf
<1>10. ASSUME NEW r \in Requests, Write(r) \/ WriteFails(r) \/ Answer(r)
       PROVE  StoppedBeforeDrain'
  <2>1. app = "gone" => \A q \in Requests : peer[q] = "none" => peer'[q] = "none"
    BY <1>10 DEF Write, WriteFails, Answer
  <2>2. /\ UNCHANGED <<caller, report, dispatched, channel, app, link, draining>>
        /\ stopped => stopped'
    BY <1>10 DEF Write, WriteFails, Answer
  <2> QED BY <2>1, <2>2
<1>11. ASSUME NEW r \in Requests,
              CancelStep(r) \/ ReadResponse(r) \/ CheckHandoff(r)
       PROVE  StoppedBeforeDrain'
  BY <1>11 DEF CancelStep, CancelAborted, CancelFence, ReadResponse,
               CheckHandoff
<1>12. CASE BeginClosing \/ StopProcess \/ AppEnds \/ UNCHANGED vars
  BY <1>12 DEF BeginClosing, StopProcess, AppEnds, vars
<1> QED
  BY <1>1, <1>2, <1>3, <1>4, <1>5, <1>6, <1>7, <1>8, <1>9, <1>10, <1>11,
     <1>12
     DEF Next, CallerStep, RouterStep, DisconnectStep

(* A caller that waits stays known to the map, the router or fail_all.    *)
LEMMA WaiterKnownStep ==
  ASSUME TypeOK, CallerFirst, AnsweredOnce, StoppedBeforeDrain, WaiterKnown,
         [Next]_vars
  PROVE  WaiterKnown'
<1> USE RequestsAssumption
    DEF TypeOK, WaiterKnown, Go, Return, Cut, callerVars, registryVars,
        linkVars, processVars
<1>1. ASSUME NEW r \in Requests, Register(r)
      PROVE  WaiterKnown'
  BY <1>1 DEF Register
<1>2. ASSUME NEW r \in Requests, Clear(r)
      PROVE  WaiterKnown'
  <2>1. link \notin {"draining", "cut"}
    BY <1>2 DEF Clear, MayDispatch, StoppedBeforeDrain
  <2> QED BY <1>2, <2>1 DEF Clear
<1>3. ASSUME NEW r \in Requests,
             \/ RefuseSend(r) \/ GiveUp(r) \/ TimeOut(r)
             \/ RemoveUnacknowledged(r)
      PROVE  WaiterKnown'
  BY <1>3 DEF RefuseSend, GiveUp, TimeOut, RemoveUnacknowledged
<1>4. ASSUME NEW r \in Requests,
             \/ Admit(r) \/ MarkDispatched(r) \/ Queue(r) \/ Acknowledged(r)
             \/ Unacknowledged(r) \/ TakeResponse(r) \/ Expire(r)
      PROVE  WaiterKnown'
  BY <1>4 DEF Admit, MarkDispatched, Queue, Acknowledged, Unacknowledged,
              TakeResponse, Expire
<1>5. ASSUME NEW r \in Requests, Fence(r) \/ Cleaned(r) \/ DropCaller(r)
      PROVE  WaiterKnown'
  BY <1>5 DEF Fence, Cleaned, DropCaller
<1>6. ASSUME NEW r \in Requests, CancelStep(r)
      PROVE  WaiterKnown'
  BY <1>6 DEF CancelStep, CancelAborted, CancelFence, CallerFirst
<1>7. ASSUME NEW r \in Requests, ReadResponse(r)
      PROVE  WaiterKnown'
  <2>1. \A q \in Requests : router # [on |-> q, step |-> "send"]
    BY <1>7 DEF ReadResponse, Idle
  <2>2. /\ UNCHANGED <<caller, channel, draining, link>>
        /\ \/ UNCHANGED pending
           \/ /\ pending' = pending \ {r}
              /\ router' = [on |-> r, step |-> "send"]
    BY <1>7 DEF ReadResponse
  <2>3. \A q \in Requests \ {r} : q \in pending' <=> q \in pending
    BY <2>2
  <2>4. r \in pending => r \in pending' \/ router' = [on |-> r, step |-> "send"]
    BY <2>2
  <2>5. r \in pending' => r \in pending
    BY <2>2
  <2> HIDE DEF WaiterKnown
  <2>6. ASSUME NEW q \in Requests
        PROVE  /\ caller'[q] \in {"registered", "cleared", "marked", "queued",
                                "waiting"}
                  => (\/ q \in pending' \/ q \in draining'
                      \/ channel'[q] # "empty"
                      \/ router' = [on |-> q, step |-> "send"])
               /\ link' \in {"draining", "cut"} /\ q \in pending'
                  => caller'[q] \notin {"cleared", "marked", "queued", "waiting"}
    <3>1. caller[q] \in {"registered", "cleared", "marked", "queued", "waiting"}
            => q \in pending \/ q \in draining \/ channel[q] # "empty"
      BY <2>1 DEF WaiterKnown
    <3>2. link \in {"draining", "cut"} /\ q \in pending
            => caller[q] \notin {"cleared", "marked", "queued", "waiting"}
      BY DEF WaiterKnown
    <3>3. CASE q = r
      BY <2>2, <2>4, <2>5, <3>1, <3>2, <3>3
    <3>4. CASE q # r
      BY <2>2, <2>3, <3>1, <3>2, <3>4
    <3> QED BY <3>3, <3>4
  <2> QED BY <2>6 DEF WaiterKnown
<1>8. ASSUME NEW r \in Requests, SendResponse(r)
      PROVE  WaiterKnown'
  <2>1. router = [on |-> r, step |-> "send"]
    BY <1>8 DEF SendResponse
  <2>2. peer[r] \in {"ok", "refused"}
    BY <2>1 DEF AnsweredOnce
  <2>3. \A q \in Requests \ {r} : router # [on |-> q, step |-> "send"]
    BY <2>1
  <2>4. UNCHANGED <<caller, pending, draining, link>>
    BY <1>8 DEF SendResponse
  <2>5. \A q \in Requests \ {r} : channel'[q] = channel[q]
    BY <1>8 DEF SendResponse
  <2>6. caller[r] \in {"registered", "cleared", "marked", "queued", "waiting"}
          => channel'[r] # "empty"
    BY <1>8, <2>2 DEF SendResponse, ReceiverAlive
  <2> HIDE DEF WaiterKnown
  <2>7. ASSUME NEW q \in Requests
        PROVE  /\ caller'[q] \in {"registered", "cleared", "marked", "queued",
                                "waiting"}
                  => (\/ q \in pending' \/ q \in draining'
                      \/ channel'[q] # "empty"
                      \/ router' = [on |-> q, step |-> "send"])
               /\ link' \in {"draining", "cut"} /\ q \in pending'
                  => caller'[q] \notin {"cleared", "marked", "queued", "waiting"}
    <3>1. q # r /\ caller[q] \in {"registered", "cleared", "marked", "queued", "waiting"}
            => q \in pending \/ q \in draining \/ channel[q] # "empty"
      BY <2>3 DEF WaiterKnown
    <3>2. link \in {"draining", "cut"} /\ q \in pending
            => caller[q] \notin {"cleared", "marked", "queued", "waiting"}
      BY DEF WaiterKnown
    <3>3. CASE q = r
      BY <2>4, <2>6, <3>2, <3>3
    <3>4. CASE q # r
      BY <2>4, <2>5, <3>1, <3>2, <3>4
    <3> QED BY <3>3, <3>4
  <2> QED BY <2>7 DEF WaiterKnown
<1>9. ASSUME NEW r \in Requests, CheckHandoff(r)
      PROVE  WaiterKnown'
  BY <1>9 DEF CheckHandoff
<1>10. CASE RouterFence \/ RouterClosed
  BY <1>10 DEF RouterFence, RouterClosed, Idle
<1>11. CASE Drain \/ Drained \/ Kill \/ KillEnds
  BY <1>11 DEF Drain, Drained, Kill, KillEnds, StoppedBeforeDrain
<1>12. ASSUME NEW r \in Requests, FailOne(r)
       PROVE  WaiterKnown'
  BY <1>12 DEF FailOne, FailureOf, ReceiverAlive
<1>13. ASSUME NEW r \in Requests, Write(r) \/ WriteFails(r) \/ Answer(r)
       PROVE  WaiterKnown'
  BY <1>13 DEF Write, WriteFails, Answer
<1>14. CASE BeginClosing \/ StopProcess \/ AppEnds \/ UNCHANGED vars
  BY <1>14 DEF BeginClosing, StopProcess, AppEnds, vars
<1> QED
  BY <1>1, <1>2, <1>3, <1>4, <1>5, <1>6, <1>7, <1>8, <1>9, <1>10, <1>11,
     <1>12, <1>13, <1>14
     DEF Next, CallerStep, RouterStep, DisconnectStep

(* The parts are inductive together.                                      *)
LEMMA RegistryInvStep ==
  ASSUME RegistryInv, [Next]_vars
  PROVE  RegistryInv'
BY TypeStep, CallerFirstStep, AnsweredOnceStep, StoppedBeforeDrainStep,
   WaiterKnownStep DEF RegistryInv

(* The fresh registry satisfies them.                                     *)
LEMMA RegistryInvInit == Init => RegistryInv
<1> SUFFICES ASSUME Init PROVE RegistryInv
  OBVIOUS
<1> USE RequestsAssumption DEF Init, Idle
<1>1. TypeOK
  BY DEF TypeOK
<1>2. CallerFirst
  BY DEF CallerFirst
<1>3. AnsweredOnce
  BY DEF AnsweredOnce
<1>4. StoppedBeforeDrain
  BY DEF StoppedBeforeDrain
<1>5. WaiterKnown
  BY DEF WaiterKnown
<1> QED BY <1>1, <1>2, <1>3, <1>4, <1>5 DEF RegistryInv

(* The inductive invariant: in every reachable state the caller, the       *)
(* registry, the router and the disconnect agree about who holds a         *)
(* request.                                                                *)
THEOREM RegistryInvariant == Spec => []RegistryInv
<1>1. RegistryInv /\ [Next]_vars => RegistryInv'
  BY RegistryInvStep
<1> QED BY RegistryInvInit, <1>1, PTL DEF Spec

(* Every variable keeps its type, and no task cancels an uncancelled      *)
(* request.                                                               *)
THEOREM TypeCorrect == Spec => []TypeOK
<1>1. RegistryInv => TypeOK
  BY DEF RegistryInv
<1> QED BY <1>1, RegistryInvariant, PTL

(* send_tracked never reports a shutdown for a non-idempotent request that *)
(* the app-server carried out, and fail_all never a plain disconnect,      *)
(* unless the app-server survived the disconnect's kill, which the message *)
(* of that disconnect says.                                                *)
THEOREM FailureIsHonest == Spec => []HonestFailure
<1>1. RegistryInv => HonestFailure
  BY RequestsAssumption
     DEF RegistryInv, StoppedBeforeDrain, Failable, NeverSent, AnsweredOnce,
         HonestFailure
<1> QED BY <1>1, RegistryInvariant, PTL

(* After fail_all no caller waits for anything but an answer it has or the *)
(* router is delivering.                                                   *)
THEOREM WaitersReleased == Spec => []NoWaiterLeft
<1>1. RegistryInv => NoWaiterLeft
  <2> SUFFICES ASSUME RegistryInv, link = "cut", NEW r \in Requests,
                      caller[r] \in {"queued", "waiting"}
               PROVE  channel[r] # "empty" \/ router.on = r
    BY DEF NoWaiterLeft
  <2>1. r \notin pending /\ r \notin draining
    BY DEF RegistryInv, WaiterKnown, StoppedBeforeDrain
  <2> QED BY <2>1 DEF RegistryInv, WaiterKnown
<1> QED BY <1>1, RegistryInvariant, PTL

-----------------------------------------------------------------------------
(* The fence.  Without a deadline for the whole operation a dispatched     *)
(* non-idempotent request never leaves the sight of everyone who would end *)
(* the connection for it.                                                  *)

(* A caller that gives up an unobserved request leaves a task that        *)
(* looks at it.                                                           *)
LEMMA CallerTracks ==
  ASSUME RegistryInv, OutcomeTracked, ~OperationDeadline,
         NEW r \in Requests, CallerStep(r)
  PROVE  OutcomeTracked'
<1> USE RequestsAssumption
    DEF RegistryInv, TypeOK, OutcomeTracked, Unobserved, Refused, Go, Return,
        LeaveArmed, callerVars, registryVars, linkVars, peerVars
<1>1. CASE Register(r) \/ Acknowledged(r) \/ Unacknowledged(r) \/ Expire(r)
  BY <1>1 DEF Register, Acknowledged, Unacknowledged, Expire
<1>2. CASE MarkDispatched(r)
  <2>1. ASSUME link = "up" PROVE r \in pending
    <3>1. channel[r] = "empty" /\ router.on # r
      BY <1>2, <2>1
         DEF MarkDispatched, CallerFirst, AnsweredOnce, StoppedBeforeDrain
    <3> QED BY <1>2, <2>1, <3>1
            DEF MarkDispatched, WaiterKnown, StoppedBeforeDrain
  <2>2. canceller[r] = "none"
    BY <1>2 DEF MarkDispatched, CallerFirst
  <2> QED BY <1>2, <2>1, <2>2 DEF MarkDispatched
<1>3. CASE RefuseSend(r)
  BY <1>3 DEF RefuseSend, CallerFirst
<1>4. CASE RemoveUnacknowledged(r)
  BY <1>4 DEF RemoveUnacknowledged
<1>5. CASE TakeResponse(r)
  <2>1. link = "up" => channel[r] \in {"ok", "refused"}
    BY <1>5 DEF TakeResponse, StoppedBeforeDrain
  <2> QED BY <1>5, <2>1 DEF TakeResponse
<1>6. CASE TimeOut(r)
  <2>1. canceller[r] = "none"
    BY <1>6 DEF TimeOut, CallerFirst
  <2> QED BY <1>6, <2>1 DEF TimeOut, MayBeLost
<1>7. CASE Fence(r) \/ Cleaned(r)
  BY <1>7 DEF Fence, Cleaned, Cut
<1>8. CASE Clear(r) \/ Queue(r)
  BY <1>8 DEF Clear, Queue
<1>9. CASE GiveUp(r)
  BY <1>9 DEF GiveUp, CallerFirst
<1> QED
  BY <1>1, <1>2, <1>3, <1>4, <1>5, <1>6, <1>7, <1>8, <1>9 DEF CallerStep

(* No step loses sight of a dispatched non-idempotent request.            *)
LEMMA OutcomeTrackedStep ==
  ASSUME RegistryInv, OutcomeTracked, ~OperationDeadline, [Next]_vars
  PROVE  OutcomeTracked'
<1> USE RequestsAssumption
    DEF RegistryInv, TypeOK, OutcomeTracked, Unobserved, Refused, Go, Return,
        LeaveArmed, Cut, callerVars, registryVars, linkVars, peerVars
<1>1. ASSUME NEW r \in Requests, CallerStep(r)
      PROVE  OutcomeTracked'
  BY <1>1, CallerTracks
<1>2. ASSUME NEW r \in Requests, Admit(r)
      PROVE  OutcomeTracked'
  BY <1>2 DEF Admit
<1>3. ASSUME NEW r \in Requests, DropCaller(r)
      PROVE  OutcomeTracked'
  <2>1. canceller[r] = "none"
    BY <1>3 DEF DropCaller, CallerFirst
  <2> QED BY <1>3, <2>1 DEF DropCaller
<1>4. ASSUME NEW r \in Requests, CancelAborted(r)
      PROVE  OutcomeTracked'
  <2>1. caller[r] # "fencing"
    BY <1>4 DEF CancelAborted, CallerFirst
  <2> QED BY <1>4, <2>1 DEF CancelAborted, MayBeLost
<1>5. ASSUME NEW r \in Requests, CancelFence(r)
      PROVE  OutcomeTracked'
  BY <1>5 DEF CancelFence
<1>6. ASSUME NEW r \in Requests, Write(r)
      PROVE  OutcomeTracked'
  BY <1>6 DEF Write, AnsweredOnce
<1>7. ASSUME NEW r \in Requests, WriteFails(r) \/ Answer(r)
      PROVE  OutcomeTracked'
  <2>1. \A q \in Requests \ {r} : peer'[q] = peer[q]
    BY <1>7 DEF WriteFails, Answer
  <2>2. r \notin heard
    BY <1>7 DEF WriteFails, Answer, AnsweredOnce
  <2> QED BY <1>7, <2>1, <2>2 DEF WriteFails, Answer
<1>8. ASSUME NEW r \in Requests, ReadResponse(r)
      PROVE  OutcomeTracked'
  BY <1>8 DEF ReadResponse, MarkSuccess
<1>9. ASSUME NEW r \in Requests,
             SendResponse(r) \/ CheckHandoff(r) \/ FailOne(r)
      PROVE  OutcomeTracked'
  BY <1>9 DEF SendResponse, CheckHandoff, FailOne
<1>10. CASE RouterFence \/ RouterClosed \/ Kill \/ KillEnds \/ Drain \/ Drained
  BY <1>10 DEF RouterFence, RouterClosed, Kill, KillEnds, Drain, Drained
<1>11. CASE BeginClosing \/ StopProcess \/ AppEnds \/ UNCHANGED vars
  BY <1>11 DEF BeginClosing, StopProcess, AppEnds, vars
<1> QED
  BY <1>1, <1>2, <1>3, <1>4, <1>5, <1>6, <1>7, <1>8, <1>9, <1>10, <1>11
     DEF Next, CancelStep, RouterStep, DisconnectStep

(* An outcome nobody observed ends the connection (PROTOCOL_CONTRACT.md:104*)
(* "dispatched, or the response not attributed to the caller"), as long as *)
(* no deadline is set for the whole operation; with one, the run           *)
(* DeadlineAfterDispatch shows the exception.                              *)
THEOREM OrphansFenced ==
  ASSUME ~OperationDeadline
  PROVE  Spec => []OrphanFences
<1>1. Init => RegistryInv /\ OutcomeTracked
  BY RegistryInvInit DEF Init, OutcomeTracked
<1>2. /\ RegistryInv /\ OutcomeTracked
      /\ [Next]_vars
      => (RegistryInv /\ OutcomeTracked)'
  BY RegistryInvStep, OutcomeTrackedStep
<1>3. RegistryInv /\ OutcomeTracked => OrphanFences
  <2> SUFFICES ASSUME RegistryInv, OutcomeTracked, link = "up",
                      NEW r \in NonIdempotent \cap dispatched,
                      Unobserved(r), Decided(r)
               PROVE  Refused(r)
    BY DEF OrphanFences, Refused
  <2>1. r \in Requests
    BY RequestsAssumption
  <2>2. canceller[r] = "done"
    BY <2>1 DEF OutcomeTracked, Decided
  <2> QED BY <2>2 DEF OutcomeTracked
<1> QED BY <1>1, <1>2, <1>3, PTL DEF Spec

=============================================================================
