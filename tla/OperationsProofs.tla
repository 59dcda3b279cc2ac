--------------------------- MODULE OperationsProofs ---------------------------
(***************************************************************************)
(* Proofs about Approvals and ImageOperation, for any number of reverse    *)
(* requests and image operations, about ProcessHandle, for channels of any *)
(* capacity, and about PngScan, for images of any number of chunks.        *)
(***************************************************************************)
EXTENDS Approvals, ImageOperation, ProcessHandle, PngScan, TLAPS

-----------------------------------------------------------------------------
(* Approvals.  OneAnswer depends on who may still cause an answer: who     *)
(* holds the event has sent no command yet, who waits for a reply has sent *)
(* the only one, and an owner that was told of a failure leaves nothing    *)
(* explicit in the channel or in the task.                                 *)

Settled(r) ==
  /\ answers[r] = IF wire[r] = "none" THEN 0 ELSE 1
  /\ responder[r] # "ended" /\ asked[r] # "refused" => wire[r] = "none"
  /\ asked[r] \in {"unread", "refusing", "refused"} =>
       /\ holder[r] = "none" /\ responder[r] = "none"
       /\ command[r] = "none" /\ reply[r] = "none"
  /\ asked[r] \in Kinds => responder[r] # "none" /\ wire[r] # "error"
  /\ holder[r] \in {"run", "owner"} =>
       command[r] = "none" /\ responder[r] # "explicit" /\ wire[r] # "explicit"
  /\ holder[r] = "responding" =>
       command[r] = "explicit" /\ responder[r] \in {"waiting", "explicit"}
  /\ holder[r] # "none" => reply[r] = "none"
  /\ reply[r] = "ok" => responder[r] = "ended" /\ wire[r] = "explicit"
  /\ reply[r] \in {"failed", "invalid"} /\ link = "up" =>
       /\ responder[r] \in {"waiting", "fallback", "ended"}
       /\ responder[r] = "waiting" => command[r] = "fallback"
       /\ wire[r] \in {"none", "fallback"}

ApprovalInvariant == ApprovalTypeOK /\ \A r \in Reverse : Settled(r)

LEMMA ApprovalStarts == LinkInit /\ ApprovalInit => ApprovalInvariant
BY DEF LinkInit, LinkType, ApprovalInit, ApprovalInvariant, ApprovalTypeOK, Settled,
       Kinds

(* What the steps of the owner have in common.                             *)
LEMMA OwnerKeeps ==
  ASSUME ApprovalInvariant, NEW r \in Reverse,
         TakeEvent(r) \/ DropEvent(r) \/ Respond(r) \/ AnswerInvalid(r)
           \/ DropRespond(r)
  PROVE  ApprovalInvariant'
<1> USE DEF ApprovalInvariant, TakeEvent, DropEvent, Respond, AnswerInvalid,
            DropRespond, Commands
<1>1. ApprovalTypeOK'
  BY DEF ApprovalTypeOK, LinkType, Kinds
<1>2. ASSUME NEW q \in Reverse PROVE Settled(q)'
  BY DEF Settled, ApprovalTypeOK, Kinds
<1> QED BY <1>1, <1>2

LEMMA TaskKeeps ==
  ASSUME ApprovalInvariant, NEW r \in Reverse, TaskTakes(r) \/ TaskTimesOut(r)
  PROVE  ApprovalInvariant'
<1> USE DEF ApprovalInvariant, TaskTakes, TaskTimesOut, Tells
<1>1. ApprovalTypeOK'
  BY DEF ApprovalTypeOK, LinkType
<1>2. ASSUME NEW q \in Reverse PROVE Settled(q)'
  BY DEF Settled, ApprovalTypeOK, Kinds
<1> QED BY <1>1, <1>2

(* The two steps that write: of the router and of the task.                *)
LEMMA SendKeeps ==
  ASSUME ApprovalInvariant, NEW r \in Reverse, Refuse(r) \/ TaskSends(r)
  PROVE  ApprovalInvariant'
<1> PICK answer \in {"error", "explicit", "fallback"}, ok \in BOOLEAN :
      Sends(r, answer, ok)
      /\ \/ answer = "error" /\ Refuse(r)
         \/ answer = responder[r] /\ TaskSends(r)
            /\ IF answer = "explicit" THEN Tells(r, IF ok THEN "ok" ELSE "failed")
               ELSE UNCHANGED <<holder, reply>>
  BY DEF Refuse, TaskSends
<1>1. wire[r] = "none"
  BY DEF ApprovalInvariant, ApprovalTypeOK, Settled, Refuse, TaskSends
<1>3. /\ Writes(r, answer) \/ (UNCHANGED <<answers, wire>> /\ ~ok)
      /\ link' \in {"up", "cutting", "cut"}
      /\ link' = "up" => ok /\ link = "up"
      /\ ok => Writes(r, answer)
  BY DEF Sends, ApprovalInvariant, ApprovalTypeOK, LinkType
<1>4. ApprovalTypeOK'
  BY <1>3 DEF ApprovalInvariant, ApprovalTypeOK, LinkType, Refuse, TaskSends, Tells,
                Writes
<1>5. ASSUME NEW q \in Reverse PROVE Settled(q)'
  <2>1. CASE q # r
    BY <1>3, <2>1
       DEF ApprovalInvariant, ApprovalTypeOK, Settled, Refuse, TaskSends, Tells,
           Writes
  <2>2. CASE q = r /\ answer = "error"
    BY <1>1, <1>3, <2>2
       DEF ApprovalInvariant, ApprovalTypeOK, Settled, Refuse, TaskSends, Kinds,
           Writes
  <2>3. CASE q = r /\ answer # "error"
    BY <1>1, <1>3, <2>3
       DEF ApprovalInvariant, ApprovalTypeOK, Settled, Refuse, TaskSends, Tells, Kinds,
           Writes
  <2> QED BY <2>1, <2>2, <2>3
<1> QED BY <1>4, <1>5 DEF ApprovalInvariant

LEMMA ApprovalKept ==
  ApprovalInvariant /\ [ApprovalNext]_<<link, approvalVars>> => ApprovalInvariant'
<1> SUFFICES ASSUME ApprovalInvariant, [ApprovalNext]_<<link, approvalVars>>
             PROVE  ApprovalInvariant'
  OBVIOUS
<1>1. CASE UNCHANGED <<link, approvalVars>>
  BY <1>1 DEF ApprovalInvariant, ApprovalTypeOK, LinkType, Settled, approvalVars
<1>2. CASE CutElsewhere
  BY <1>2 DEF ApprovalInvariant, ApprovalTypeOK, LinkType, Settled, approvalVars,
              CutElsewhere, BeginDisconnect
<1>3. ASSUME NEW r \in Reverse, AskedInVain(r) \/ \E kind \in Kinds : Asked(r, kind)
      PROVE  ApprovalInvariant'
  <2> USE <1>3 DEF ApprovalInvariant, AskedInVain, Asked, Kinds
  <2>1. ApprovalTypeOK'
    BY DEF ApprovalTypeOK, LinkType
  <2>2. ASSUME NEW q \in Reverse PROVE Settled(q)'
    BY DEF Settled, ApprovalTypeOK
  <2> QED BY <2>1, <2>2
<1> QED BY <1>1, <1>2, <1>3, OwnerKeeps, TaskKeeps, SendKeeps DEF ApprovalNext, TaskStep

(* The reverse requests and their tasks are in states the model names.     *)
THEOREM ApprovalTypes == ApprovalSpec => []ApprovalTypeOK
BY ApprovalStarts, ApprovalKept, PTL DEF ApprovalSpec, ApprovalInvariant

LEMMA SettledIsOneAnswer == ApprovalInvariant => OneAnswer
BY DEF ApprovalInvariant, ApprovalTypeOK, Settled, OneAnswer

(* Decision, drop and timeout of approval_response_task answer a reverse   *)
(* request at most once, and its owner is told the truth about it.         *)
THEOREM AnswersOnce == ApprovalSpec => []OneAnswer
BY ApprovalStarts, ApprovalKept, SettledIsOneAnswer, PTL DEF ApprovalSpec

-----------------------------------------------------------------------------
(* ImageOperation.  BilledOnce and AbandonedIsFatal depend on what a phase *)
(* says about the requests: a worker that may still post has an operation  *)
(* all of whose posts were refused, one that has posted was dispatched,    *)
(* and a caller that is gone left a phase in which nothing is posted any   *)
(* more or owes the disconnect.                                            *)

Posting == {"posted", "body", "checked"}

Accounted(i) ==
  /\ refused[i] <= posts[i] /\ posts[i] <= attempt[i] /\ posts[i] <= refused[i] + 1
  /\ caller[i] = "idle" => attempt[i] = 0
  /\ caller[i] \in {"idle", "auth"} =>
       /\ attempt[i] <= 1 /\ posts[i] = refused[i]
       /\ worker[i] = "none" /\ phase[i] = "Pending"
  /\ caller[i] = "endpoint" =>
       /\ worker[i] # "none" <=> outcome[i] = "none"
       /\ worker[i] = "queued" => phase[i] = "Pending"
       /\ worker[i] \in Posting => phase[i] = "Dispatched"
       /\ posts[i] > refused[i] => phase[i] \in {"Dispatched", "Finished"}
       /\ outcome[i] = "unauthorized" => phase[i] = "Pending"
  /\ worker[i] = "queued" => posts[i] = refused[i] /\ posts[i] < attempt[i]
  /\ worker[i] \in Posting => posts[i] = refused[i] + 1
  /\ outcome[i] = "unauthorized" => posts[i] = refused[i]
  /\ outcome[i] = "image" => posts[i] = refused[i] + 1
  /\ caller[i] = "dropped" /\ worker[i] = "queued" =>
       phase[i] = "CancelledBeforeDispatch"
  /\ caller[i] = "returned" => worker[i] = "none"
  /\ result[i] # "none" => caller[i] = "returned"
  /\ result[i] = "image" => posts[i] = refused[i] + 1
  /\ posts[i] > refused[i] /\ (caller[i] = "dropped" \/ result[i] = "unknown") =>
       i \in owed \/ link # "up"

ImageInvariant == LinkType /\ ImageTypeOK /\ \A i \in Images : Accounted(i)

LEMMA ImageStarts == LinkInit /\ ImageInit => ImageInvariant
BY DEF LinkInit, LinkType, ImageInit, ImageInvariant, ImageTypeOK, Accounted, Posting

LEMMA ImageCallerKeeps ==
  ASSUME ImageInvariant, NEW i \in Images,
         \/ Generate(i) \/ AuthFails(i) \/ AuthReady(i) \/ EndpointReturns(i)
         \/ AbandonGenerate(i) \/ GuardDisconnects(i)
  PROVE  ImageInvariant'
<1> USE DEF ImageInvariant, Generate, AuthFails, AuthReady, EndpointReturns,
            AbandonGenerate, GuardDisconnects, Returns, GuardDrops, Retries
<1>1. LinkType'
  BY DEF LinkType
<1>2. ImageTypeOK'
  BY DEF ImageTypeOK, Accounted
<1>3. ASSUME NEW j \in Images PROVE Accounted(j)'
  BY DEF ImageTypeOK, Accounted, Posting
<1> QED BY <1>1, <1>2, <1>3

LEMMA ImageWorkerKeeps ==
  ASSUME ImageInvariant, NEW i \in Images,
         \/ BodyTooLarge(i) \/ BeginDispatch(i) \/ PostLost(i) \/ Unauthorized(i)
         \/ OtherStatus(i) \/ ReadBody(i) \/ BodyUseless(i) \/ BodyChecked(i)
         \/ Deliver(i)
  PROVE  ImageInvariant'
<1> USE DEF ImageInvariant, BodyTooLarge, BeginDispatch, PostLost, Unauthorized,
            OtherStatus, ReadBody, BodyUseless, BodyChecked, Deliver, WorkerEnds,
            Finish
<1>1. LinkType'
  BY DEF LinkType
<1>2. ImageTypeOK'
  BY DEF ImageTypeOK, Accounted, Posting
<1>3. ASSUME NEW j \in Images PROVE Accounted(j)'
  BY DEF ImageTypeOK, Accounted, Posting
<1> QED BY <1>1, <1>2, <1>3

LEMMA ImageKept ==
  ImageInvariant /\ [ImageNext]_<<link, imageVars>> => ImageInvariant'
<1> SUFFICES ASSUME ImageInvariant, [ImageNext]_<<link, imageVars>>
             PROVE  ImageInvariant'
  OBVIOUS
<1>1. CASE UNCHANGED <<link, imageVars>>
  BY <1>1 DEF ImageInvariant, ImageTypeOK, LinkType, Accounted, imageVars
<1>2. CASE ImageCut
  BY <1>2 DEF ImageInvariant, ImageTypeOK, LinkType, Accounted, imageVars,
              ImageCut, BeginDisconnect
<1> QED BY <1>1, <1>2, ImageCallerKeeps, ImageWorkerKeeps DEF ImageNext

(* Phases, callers and workers of the image operations are in states the   *)
(* model names, and no operation is attempted more than twice.             *)
THEOREM ImageTypes == ImageSpec => []ImageTypeOK
BY ImageStarts, ImageKept, PTL DEF ImageSpec, ImageInvariant

LEMMA AccountedMeans == ImageInvariant => BilledOnce /\ AbandonedIsFatal
BY DEF ImageInvariant, ImageTypeOK, Accounted, Posting, BilledOnce, AbandonedIsFatal,
       MayBeBilled

(* generate_image pays for one request at most, whoever is dropped when    *)
(* and whichever answer is lost.                                           *)
THEOREM ImagesBilledOnce == ImageSpec => []BilledOnce
BY ImageStarts, ImageKept, AccountedMeans, PTL DEF ImageSpec

(* A request that may have been billed is never forgotten: the guard of    *)
(* the operation disconnects the client.                                   *)
THEOREM ImagesNotForgotten == ImageSpec => []AbandonedIsFatal
BY ImageStarts, ImageKept, AccountedMeans, PTL DEF ImageSpec

-----------------------------------------------------------------------------
(* ProcessHandle.  CleanShutdown and FailureStopsChild depend on who holds *)
(* the child's Mutex: only its holder reaps or signals, it holds it only   *)
(* while the child is there to be reaped, and the steps of the one         *)
(* shutdown leave behind what the later ones rely on.                      *)

(* Before spawn has succeeded there is nothing else.                       *)
SpawnOwns ==
  IF spawn = "up"
  THEN /\ child # "none" /\ router # "none"
       /\ owned <=> child \in {"running", "stopping", "zombie"}
       /\ \A t \in Tasks : task[t] # "none"
  ELSE /\ child = "none" /\ ~owned /\ lock = "free"
       /\ router = "none" /\ \A t \in Tasks : task[t] = "none"
       /\ \A k \in Killers : kill[k] = "idle"
       /\ shut = "idle" /\ ~failures

(* The Mutex is held by who waits for the child, and a child is owned then.*)
MutexHeld ==
  /\ lock = "shutdown" <=> shut \in {"waiting", "reaping"}
  /\ \A k \in Killers : lock = k <=> kill[k] = "reaping"
  /\ lock # "free" => owned

JoinedWriter == {"reader", "stderr", "removing", "router", "done"}
JoinedReader == JoinedWriter \ {"reader"}
JoinedStderr == JoinedReader \ {"stderr"}
PastChild == JoinedWriter \cup {"writer"}
PastClose == PastChild \cup {"locking", "waiting", "reaping"}

(* Who has given the connection up has seen the child signalled or gone.   *)
ChildSignalled ==
  \/ \E k \in Killers : kill[k] \in {"reaping", "done"}
  \/ task["writer"] = "reporting"
  \/ shut \in PastChild \cup {"reaping"}
  => child # "running"

(* What the steps of shutdown have done by now.                            *)
ShutdownDone ==
  /\ shut \in PastClose /\ ~failures => ack = "closed"
  /\ shut \in PastChild /\ ~failures => child = "reaped"
  /\ shut \in JoinedWriter => task["writer"] = "ended"
  /\ shut \in JoinedReader => task["reader"] = "ended"
  /\ shut \in JoinedStderr => task["stderr"] = "ended"
  /\ shut \in {"router", "done"} /\ ~failures => files = {}
  /\ shut = "done" => router = "ended"

ProcessInductive ==
  ProcessTypeOK /\ SpawnOwns /\ MutexHeld /\ ChildSignalled /\ ShutdownDone

(* The types, in parts.                                                    *)
OwnershipTyped ==
  /\ spawn \in {"verifying", "directory", "helper", "up", "failed"}
  /\ files \subseteq {"directory", "helper"}
  /\ child \in {"none", "running", "stopping", "zombie", "reaped"}
  /\ lock \in {"free", "shutdown"} \cup Killers

StatesTyped ==
  /\ ack \in {"none", "waiting", "closed", "lost"}
  /\ router \in {"none", "receiving", "replying", "busy", "last", "orphan",
                 "ended"}
  /\ shut \in {"idle", "queueing", "closing", "locking", "waiting", "reaping",
               "writer", "reader", "stderr", "removing", "router", "done"}

FlagsTyped == {owned, stopping, expired, late, failures} \subseteq BOOLEAN

ActorsTyped ==
  /\ task \in [Tasks -> {"none", "waiting", "writing", "failing", "sending",
                         "reporting", "ended"}]
  /\ kill \in [Killers -> {"idle", "locking", "reaping", "done", "dropped"}]
  /\ sent \in [frames : 0 .. MaxFrames, messages : 0 .. MaxMessages]

ChannelsBounded ==
  /\ outbound \in Seq({"frame", "close"}) /\ Len(outbound) <= OutboundCapacity
  /\ events \in Seq({"message", "closed"}) /\ Len(events) <= EventCapacity

(* What the steps do to a bounded channel.                                 *)
LEMMA QueueSteps ==
  ASSUME NEW S, NEW q \in Seq(S), NEW n \in Nat, Len(q) <= n, NEW r,
         \/ r \in {q, <<>>}
         \/ q # <<>> /\ r = Tail(q)
         \/ Len(q) < n /\ \E e \in S : r = Append(q, e)
  PROVE  r \in Seq(S) /\ Len(r) <= n
<1>1. <<>> \in Seq(S) /\ Len(<<>>) <= n
  OBVIOUS
<1>2. CASE q # <<>> /\ r = Tail(q)
  BY <1>2
<1>3. CASE Len(q) < n /\ \E e \in S : r = Append(q, e)
  BY <1>3
<1> QED BY <1>1, <1>2, <1>3

(* A channel grows by one message where there is room, loses its first, or *)
(* is emptied.                                                             *)
LEMMA ChannelsKept ==
  ASSUME ProcessTypeOK, ProcessNext
  PROVE  ChannelsBounded'
<1> USE ProcessBounds DEF ProcessTypeOK
<1>1. \/ outbound' \in {outbound, <<>>}
      \/ outbound # <<>> /\ outbound' = Tail(outbound)
      \/ /\ Len(outbound) < OutboundCapacity
         /\ \E e \in {"frame", "close"} : outbound' = Append(outbound, e)
  BY DEF ProcessNext, WriterStep, RouterStep, KillStep, ShutdownWorks,
         RefuseSpawn, CreateDirectory, ExtractFails, ExtractHelper,
         DeadlineBeforeSpawn, UndoSpawn, Spawn, SpawnFails, Exit, QueueFrame,
         WriterTakes, WriteFrame, WriteFails, WriterTerminates, WriterReports,
         ReadMessage, ReadFails, ReaderSends, StderrEnds, RouterReceives,
         RouterReplied, ReplyFails, RouterDisconnected, DropClient, OrphanEnds,
         RouterAt, Disconnects, CallerKills, DropCaller, KillLocks, KillReaps,
         BeginShutdown, Deadline, QueueClose, CloseAcked, ShutdownLocks,
         ReapChild, WaitTimesOut, ReapFails, RemoveFiles, JoinRouter, JoinTask,
         channels
<1>2. \/ events' = events
      \/ events # <<>> /\ events' = Tail(events)
      \/ /\ Len(events) < EventCapacity
         /\ \E e \in {"message", "closed"} : events' = Append(events, e)
  BY DEF ProcessNext, WriterStep, RouterStep, KillStep, ShutdownWorks,
         RefuseSpawn, CreateDirectory, ExtractFails, ExtractHelper,
         DeadlineBeforeSpawn, UndoSpawn, Spawn, SpawnFails, Exit, QueueFrame,
         WriterTakes, WriteFrame, WriteFails, WriterTerminates, WriterReports,
         ReadMessage, ReadFails, ReaderSends, StderrEnds, RouterReceives,
         RouterReplied, ReplyFails, RouterDisconnected, DropClient, OrphanEnds,
         RouterAt, Disconnects, CallerKills, DropCaller, KillLocks, KillReaps,
         BeginShutdown, Deadline, QueueClose, CloseAcked, ShutdownLocks,
         ReapChild, WaitTimesOut, ReapFails, RemoveFiles, JoinRouter, JoinTask,
         RoomFor, channels
<1>3. outbound' \in Seq({"frame", "close"}) /\ Len(outbound') <= OutboundCapacity
  BY <1>1, QueueSteps, Zenon
<1>4. events' \in Seq({"message", "closed"}) /\ Len(events') <= EventCapacity
  BY <1>2, QueueSteps, Zenon
<1> QED BY <1>3, <1>4 DEF ChannelsBounded

(* spawn.                                                                  *)
LEMMA SpawnKeeps ==
  ASSUME ProcessInductive, ChannelsBounded',
         \/ RefuseSpawn \/ CreateDirectory \/ ExtractFails \/ ExtractHelper
         \/ DeadlineBeforeSpawn \/ UndoSpawn \/ Spawn
  PROVE  ProcessInductive'
<1> USE ProcessBounds
        DEF ProcessInductive, RefuseSpawn, CreateDirectory, ExtractFails,
            ExtractHelper, DeadlineBeforeSpawn, UndoSpawn, Spawn,
            SpawnFails, Leaves, ownership, channels, actors, shutdownVars,
            Tasks, Killers
<1>1. ProcessTypeOK'
  <2>1. OwnershipTyped'
    BY DEF ProcessTypeOK, OwnershipTyped
  <2>2. StatesTyped'
    BY DEF ProcessTypeOK, StatesTyped
  <2>3. FlagsTyped'
    BY DEF ProcessTypeOK, FlagsTyped
  <2>4. ActorsTyped'
    BY DEF ProcessTypeOK, ActorsTyped
  <2> QED
    BY <2>1, <2>2, <2>3, <2>4
       DEF ProcessTypeOK, OwnershipTyped, StatesTyped, FlagsTyped, ActorsTyped,
           ChannelsBounded
<1>2. SpawnOwns'
  BY DEF ProcessTypeOK, SpawnOwns, MutexHeld
<1>3. MutexHeld'
  BY DEF ProcessTypeOK, SpawnOwns, MutexHeld
<1>4. ChildSignalled'
  BY DEF ProcessTypeOK, SpawnOwns, MutexHeld, ChildSignalled, PastChild,
         JoinedWriter
<1>5. ShutdownDone'
  BY DEF ProcessTypeOK, SpawnOwns, MutexHeld, ShutdownDone, PastClose,
         PastChild, JoinedWriter, JoinedReader, JoinedStderr
<1> QED BY <1>1, <1>2, <1>3, <1>4, <1>5

(* The child, the senders and the writer.                                  *)
LEMMA WriterKeeps ==
  ASSUME ProcessInductive, ChannelsBounded',
         \/ Exit \/ QueueFrame \/ WriterTakes \/ WriteFrame \/ WriteFails
         \/ WriterTerminates \/ WriterReports
  PROVE  ProcessInductive'
<1> USE ProcessBounds
        DEF ProcessInductive, Exit, QueueFrame, WriterTakes, WriteFrame,
            WriteFails, WriterTerminates, WriterReports, Terminated,
            ownership, channels, actors, shutdownVars, Tasks, Killers
<1>1. ProcessTypeOK'
  <2>1. OwnershipTyped'
    BY DEF ProcessTypeOK, OwnershipTyped
  <2>2. StatesTyped'
    BY DEF ProcessTypeOK, StatesTyped
  <2>3. FlagsTyped'
    BY DEF ProcessTypeOK, FlagsTyped
  <2>4. ActorsTyped'
    BY DEF ProcessTypeOK, ActorsTyped
  <2> QED
    BY <2>1, <2>2, <2>3, <2>4
       DEF ProcessTypeOK, OwnershipTyped, StatesTyped, FlagsTyped, ActorsTyped,
           ChannelsBounded
<1>2. SpawnOwns'
  BY DEF ProcessTypeOK, SpawnOwns, MutexHeld
<1>3. MutexHeld'
  BY DEF ProcessTypeOK, SpawnOwns, MutexHeld
<1>4. ChildSignalled'
  BY DEF ProcessTypeOK, SpawnOwns, MutexHeld, ChildSignalled, PastChild,
         JoinedWriter
<1>5. ShutdownDone'
  BY DEF ProcessTypeOK, SpawnOwns, MutexHeld, ShutdownDone, PastClose,
         PastChild, JoinedWriter, JoinedReader, JoinedStderr
<1> QED BY <1>1, <1>2, <1>3, <1>4, <1>5

(* The reader, stderr_loop and the client that is dropped.                 *)
LEMMA ReaderKeeps ==
  ASSUME ProcessInductive, ChannelsBounded',
         \/ ReadMessage \/ ReadFails \/ ReaderSends \/ StderrEnds \/ DropClient
  PROVE  ProcessInductive'
<1> USE ProcessBounds
        DEF ProcessInductive, ReadMessage, ReadFails, ReaderSends,
            StderrEnds, DropClient, Terminated, ownership, channels, actors, shutdownVars, Tasks,
            Killers
<1>1. ProcessTypeOK'
  <2>1. OwnershipTyped'
    BY DEF ProcessTypeOK, OwnershipTyped
  <2>2. StatesTyped'
    BY DEF ProcessTypeOK, StatesTyped
  <2>3. FlagsTyped'
    BY DEF ProcessTypeOK, FlagsTyped
  <2>4. ActorsTyped'
    <3>1. /\ sent'.frames = sent.frames
          /\ sent' \in [frames : 0 .. MaxFrames, messages : 0 .. MaxMessages]
      BY DEF ProcessTypeOK
    <3> QED BY <3>1 DEF ProcessTypeOK, ActorsTyped
  <2> QED
    BY <2>1, <2>2, <2>3, <2>4
       DEF ProcessTypeOK, OwnershipTyped, StatesTyped, FlagsTyped, ActorsTyped,
           ChannelsBounded
<1>2. SpawnOwns'
  BY DEF ProcessTypeOK, SpawnOwns, MutexHeld
<1>3. MutexHeld'
  BY DEF ProcessTypeOK, SpawnOwns, MutexHeld
<1>4. ChildSignalled'
  BY DEF ProcessTypeOK, SpawnOwns, MutexHeld, ChildSignalled, PastChild,
         JoinedWriter
<1>5. ShutdownDone'
  BY DEF ProcessTypeOK, SpawnOwns, MutexHeld, ShutdownDone, PastClose,
         PastChild, JoinedWriter, JoinedReader, JoinedStderr
<1> QED BY <1>1, <1>2, <1>3, <1>4, <1>5

(* The router: it leaves the child alone and at most begins a force_kill.  *)
LEMMA RouterKeeps ==
  ASSUME ProcessInductive, ChannelsBounded',
         \/ RouterReceives \/ RouterReplied \/ ReplyFails
         \/ RouterDisconnected \/ OrphanEnds
  PROVE  ProcessInductive'
<1>1. /\ UNCHANGED <<ownership, ack, task, shutdownVars, sent>>
      /\ router \notin {"none", "ended"}
      /\ router' \in {"receiving", "replying", "busy", "last", "ended"}
      /\ \/ UNCHANGED <<kill, stopping>>
         \/ kill["router"] = "idle" /\ stopping' = TRUE
              /\ kill' = [kill EXCEPT !["router"] = "locking"]
  BY DEF ProcessInductive, ProcessTypeOK, RouterReceives, RouterReplied,
         ReplyFails, RouterDisconnected, OrphanEnds, RouterAt, Disconnects
<1>2. kill' \in [Killers -> {"idle", "locking", "reaping", "done", "dropped"}]
      /\ \A k \in Killers :
           kill'[k] = kill[k] \/ (kill[k] = "idle" /\ kill'[k] = "locking")
  BY <1>1 DEF ProcessInductive, ProcessTypeOK, Killers
<1> USE <1>1, <1>2 DEF ProcessInductive, ownership, shutdownVars
<1>3. ProcessTypeOK'
  <2>1. stopping' \in BOOLEAN
    BY DEF ProcessTypeOK
  <2>2. router' \in {"none", "receiving", "replying", "busy", "last", "orphan",
                    "ended"}
    BY Zenon
  <2> QED BY <2>1, <2>2 DEF ProcessTypeOK, ChannelsBounded
<1>4. SpawnOwns' /\ MutexHeld'
  BY DEF SpawnOwns, MutexHeld
<1>5. ChildSignalled' /\ ShutdownDone'
  BY DEF ChildSignalled, ShutdownDone
<1> QED BY <1>3, <1>4, <1>5

(* force_kill_with_deadline, and a caller that is dropped in it.           *)
LEMMA KillKeeps ==
  ASSUME ProcessInductive, ChannelsBounded', NEW k \in Killers,
         \/ CallerKills \/ DropCaller \/ KillLocks(k) \/ KillReaps(k)
  PROVE  ProcessInductive'
<1> USE ProcessBounds
        DEF ProcessInductive, CallerKills, DropCaller, KillLocks,
            KillReaps, Terminated, Leaves, Dropped, Released, ownership,
            channels, actors, shutdownVars, Tasks, Killers
<1>1. ProcessTypeOK'
  <2>1. OwnershipTyped'
    BY DEF ProcessTypeOK, OwnershipTyped
  <2>2. StatesTyped'
    BY DEF ProcessTypeOK, StatesTyped
  <2>3. FlagsTyped'
    BY DEF ProcessTypeOK, FlagsTyped
  <2>4. ActorsTyped'
    BY DEF ProcessTypeOK, ActorsTyped
  <2> QED
    BY <2>1, <2>2, <2>3, <2>4
       DEF ProcessTypeOK, OwnershipTyped, StatesTyped, FlagsTyped, ActorsTyped,
           ChannelsBounded
<1>2. SpawnOwns'
  BY DEF ProcessTypeOK, SpawnOwns, MutexHeld
<1>3. MutexHeld'
  BY DEF ProcessTypeOK, SpawnOwns, MutexHeld
<1>4. ChildSignalled'
  BY DEF ProcessTypeOK, SpawnOwns, MutexHeld, ChildSignalled, PastChild,
         JoinedWriter
<1>5. ShutdownDone'
  BY DEF ProcessTypeOK, SpawnOwns, MutexHeld, ShutdownDone, PastClose,
         PastChild, JoinedWriter, JoinedReader, JoinedStderr
<1> QED BY <1>1, <1>2, <1>3, <1>4, <1>5

(* shutdown_with_deadline.                                                 *)
LEMMA ShutdownKeeps ==
  ASSUME ProcessInductive, ChannelsBounded', NEW t \in Tasks,
         \/ BeginShutdown \/ Deadline \/ QueueClose \/ CloseAcked
         \/ ShutdownLocks \/ ReapChild \/ WaitTimesOut \/ ReapFails
         \/ RemoveFiles \/ JoinRouter \/ JoinTask(t)
  PROVE  ProcessInductive'
<1> USE ProcessBounds
        DEF ProcessInductive, BeginShutdown, Deadline, QueueClose,
            CloseAcked, ShutdownLocks, ReapChild, WaitTimesOut, ReapFails,
            RemoveFiles, JoinRouter, JoinTask, ShutAt, Terminated, Leaves,
            Dropped, Released, ownership, channels, actors, shutdownVars,
            Tasks, Killers
<1>1. ProcessTypeOK'
  <2>1. OwnershipTyped'
    BY DEF ProcessTypeOK, OwnershipTyped
  <2>2. StatesTyped'
    BY DEF ProcessTypeOK, StatesTyped
  <2>3. FlagsTyped'
    BY DEF ProcessTypeOK, FlagsTyped
  <2>4. ActorsTyped'
    BY DEF ProcessTypeOK, ActorsTyped
  <2> QED
    BY <2>1, <2>2, <2>3, <2>4
       DEF ProcessTypeOK, OwnershipTyped, StatesTyped, FlagsTyped, ActorsTyped,
           ChannelsBounded
<1>2. SpawnOwns'
  BY DEF ProcessTypeOK, SpawnOwns, MutexHeld
<1>3. MutexHeld'
  BY DEF ProcessTypeOK, SpawnOwns, MutexHeld
<1>4. ChildSignalled'
  BY DEF ProcessTypeOK, SpawnOwns, MutexHeld, ChildSignalled, PastChild,
         JoinedWriter
<1>5. ShutdownDone'
  <2> USE DEF ProcessTypeOK, SpawnOwns, MutexHeld, ShutdownDone, PastClose,
              PastChild, JoinedWriter, JoinedReader, JoinedStderr
  <2>1. CASE JoinTask(t)
    BY <2>1
  <2>2. CASE BeginShutdown \/ Deadline \/ ShutdownLocks
    BY <2>2
  <2>3. CASE ReapChild \/ RemoveFiles
    BY <2>3
  <2>4. CASE WaitTimesOut \/ ReapFails \/ JoinRouter
    BY <2>4
  <2>5. CASE QueueClose \/ CloseAcked
    BY <2>5
  <2> QED BY <2>1, <2>2, <2>3, <2>4, <2>5
<1> QED BY <1>1, <1>2, <1>3, <1>4, <1>5

LEMMA ProcessStarts == ProcessInit => ProcessInductive
<1> SUFFICES ASSUME ProcessInit PROVE ProcessInductive
  OBVIOUS
<1> USE ProcessBounds DEF ProcessInit
<1>1. ProcessTypeOK
  <2>1. OwnershipTyped
    BY DEF ProcessTypeOK, OwnershipTyped, Killers
  <2>2. StatesTyped
    BY DEF ProcessTypeOK, StatesTyped
  <2>3. FlagsTyped
    BY DEF ProcessTypeOK, FlagsTyped
  <2>4. ActorsTyped
    BY DEF ProcessTypeOK, ActorsTyped, Tasks, Killers
  <2>5. ChannelsBounded
    BY DEF ChannelsBounded
  <2> QED
    BY <2>1, <2>2, <2>3, <2>4, <2>5
       DEF ProcessTypeOK, OwnershipTyped, StatesTyped, FlagsTyped, ActorsTyped,
           ChannelsBounded
<1>2. SpawnOwns /\ MutexHeld
  BY DEF SpawnOwns, MutexHeld, Killers
<1>3. ChildSignalled /\ ShutdownDone
  BY DEF ChildSignalled, ShutdownDone, PastClose, PastChild, JoinedWriter,
         JoinedReader, JoinedStderr, Killers, Tasks
<1> QED BY <1>1, <1>2, <1>3 DEF ProcessInductive

LEMMA ProcessKept == ProcessInductive /\ [ProcessNext]_processVars => ProcessInductive'
<1> SUFFICES ASSUME ProcessInductive, [ProcessNext]_processVars
             PROVE  ProcessInductive'
  OBVIOUS
<1>1. CASE UNCHANGED processVars
  BY <1>1 DEF processVars, ownership, channels, actors, shutdownVars,
              ProcessInductive, ProcessTypeOK, SpawnOwns, MutexHeld,
              ChildSignalled, ShutdownDone
<1>2. CASE ProcessNext
  <2>1. ChannelsBounded'
    BY <1>2, ChannelsKept DEF ProcessInductive
  <2> QED
    BY <1>2, <2>1, SpawnKeeps, WriterKeeps, ReaderKeeps, RouterKeeps, KillKeeps,
       ShutdownKeeps
       DEF ProcessNext, WriterStep, RouterStep, KillStep, ShutdownWorks, Tasks, Killers
<1> QED BY <1>1, <1>2

LEMMA ProcessMeans == ProcessInductive => ProcessInvariant /\ CleanShutdown
BY DEF ProcessInductive, ProcessInvariant, FailureStopsChild, CleanShutdown,
       ProcessTypeOK, SpawnOwns, ChildSignalled, ShutdownDone, PastClose,
       PastChild, JoinedWriter, JoinedReader, JoinedStderr, Tasks

(* Whatever a ProcessHandle's tasks, kills and shutdown interleave to, its *)
(* channels keep their bounds, and who gave the connection up (a finished  *)
(* force_kill, a failed writer, a shutdown) leaves no child that nobody    *)
(* has signalled.                                                          *)
THEOREM FailuresStopTheChild == ProcessSpec => []ProcessInvariant
BY ProcessStarts, ProcessKept, ProcessMeans, PTL DEF ProcessSpec

(* A shutdown that reports success has had its Close acknowledged, reaped  *)
(* the child, joined every task and removed the guardian's files, for all  *)
(* capacities of the channels.                                             *)
THEOREM ShutdownIsClean == ProcessSpec => []CleanShutdown
BY ProcessStarts, ProcessKept, ProcessMeans, PTL DEF ProcessSpec

(* The child's Mutex lets one of them wait for the child: no two           *)
(* force_kills, and no force_kill and the shutdown, reap it together.      *)
OneWaits ==
  \A k \in Killers : kill[k] = "reaping" =>
    /\ shut \notin {"waiting", "reaping"}
    /\ \A l \in Killers : kill[l] = "reaping" => l = k

LEMMA MutexMeans == ProcessInductive => OneWaits
BY DEF ProcessInductive, MutexHeld, OneWaits, Killers

(* force_kill_with_deadline and shutdown_with_deadline never wait for the  *)
(* child at the same time.                                                 *)
THEOREM ChildHasOneReaper == ProcessSpec => []OneWaits
BY ProcessStarts, ProcessKept, MutexMeans, PTL DEF ProcessSpec

-----------------------------------------------------------------------------
(* PngScan.  Each flag of validate_png stands for a fact about the chunks  *)
(* read so far: the scan needs no more of them to be exact.                *)

(* An IDAT chunk that something other than an IDAT or the IEND follows.    *)
IdatFollowed ==
  \E i \in At("IDAT"), j \in DOMAIN chunks :
    i < j /\ chunks[j].type \notin {"IDAT", "IEND"}

FlagsMean ==
  /\ ihdr <=> chunks # <<>>
  /\ palette <=> At("PLTE") # {}
  /\ transparency <=> At("tRNS") # {}
  /\ idatSeen <=> At("IDAT") # {}
  /\ idatClosed <=> IdatFollowed
  /\ iend <=> At("IEND") # {}
  /\ At("end") = {}

PngInductive ==
  /\ PngInvariant
  /\ verdict = "scanning" => FlagsMean
  /\ verdict \in {"decoding", "accepted"} => At("end") # {} /\ iend

Chunks == [type : Types \cup {"end"}, sound : BOOLEAN]

(* What one more chunk does to the positions of each type.                 *)
LEMMA OneMoreChunk ==
  ASSUME PngTypeOK, NEW chunk \in Chunks, chunks' = Append(chunks, chunk)
  PROVE  /\ Len(chunks) \in Nat
         /\ DOMAIN chunks = 1 .. Len(chunks)
         /\ DOMAIN chunks' = 1 .. Len(chunks) + 1
         /\ \A i \in 1 .. Len(chunks) : chunks'[i] = chunks[i]
         /\ chunks'[Len(chunks) + 1] = chunk
         /\ \A T : At(T) \subseteq 1 .. Len(chunks)
         /\ \A T : At(T)' = IF chunk.type = T THEN At(T) \cup {Len(chunks) + 1}
                            ELSE At(T)
<1>1. /\ Len(chunks) \in Nat
      /\ DOMAIN chunks = 1 .. Len(chunks)
      /\ DOMAIN chunks' = 1 .. Len(chunks) + 1
      /\ \A i \in 1 .. Len(chunks) : chunks'[i] = chunks[i]
      /\ chunks'[Len(chunks) + 1] = chunk
  BY DEF PngTypeOK, Chunks
<1>2. ASSUME NEW T PROVE At(T) \subseteq 1 .. Len(chunks)
  BY <1>1 DEF At
<1>3. ASSUME NEW T
      PROVE  At(T)' = IF chunk.type = T THEN At(T) \cup {Len(chunks) + 1} ELSE At(T)
  BY <1>1 DEF At
<1> QED BY <1>1, <1>2, <1>3

LEMMA PngStarts == PngInit => PngInductive
<1> SUFFICES ASSUME PngInit PROVE PngInductive
  OBVIOUS
<1>1. PngTypeOK
  <2> chunks \in Seq([type : Types \cup {"end"}, sound : BOOLEAN])
    BY DEF PngInit
  <2> QED BY DEF PngInit, PngTypeOK
<1>2. DOMAIN chunks = {} /\ \A T : At(T) = {}
  BY DEF PngInit, At
<1>3. FlagsMean
  BY <1>2 DEF PngInit, FlagsMean, IdatFollowed
<1>4. ScanIsExact
  BY <1>2 DEF PngInit, ScanIsExact, WellFormedSoFar, AtMostOne, Before
<1> QED BY <1>1, <1>3, <1>4 DEF PngInit, PngInductive, PngInvariant

(* A chunk the scan takes leaves the image well formed, and the flags mean *)
(* what they did.                                                          *)
LEMMA TakenIsWellFormed ==
  ASSUME PngInductive, NEW chunk \in [type : Types, sound : BOOLEAN],
         ScanChunk(chunk), ~Refuses(chunk)
  PROVE  PngInductive'
<1> DEFINE n == Len(chunks)
<1>1. /\ n \in Nat
      /\ DOMAIN chunks = 1 .. n
      /\ DOMAIN chunks' = 1 .. n + 1
      /\ \A i \in 1 .. n : chunks'[i] = chunks[i]
      /\ chunks'[n + 1] = chunk
      /\ \A T : At(T) \subseteq 1 .. n
      /\ \A T : At(T)' = IF chunk.type = T THEN At(T) \cup {n + 1} ELSE At(T)
  <2> chunk \in Chunks /\ chunks' = Append(chunks, chunk) /\ PngTypeOK
    BY DEF Chunks, ScanChunk, PngInductive, PngInvariant
  <2> QED BY OneMoreChunk
<1>2. /\ chunk.type \in Types /\ verdict = "scanning" /\ verdict' = "scanning"
      /\ colour' = colour /\ colour \in Colours
      /\ FlagsMean /\ WellFormedSoFar
  BY DEF ScanChunk, PngInductive, PngInvariant, PngTypeOK, ScanIsExact
<1> HIDE DEF n
<1>3. PngTypeOK'
  <2>1. chunks' \in Seq(Chunks)
    BY DEF ScanChunk, PngInductive, PngInvariant, PngTypeOK, Chunks
  <2>2. {ihdr', palette', transparency', idatSeen', idatClosed', iend'} \subseteq BOOLEAN
    BY DEF ScanChunk
  <2> QED BY <1>2, <2>1, <2>2 DEF PngTypeOK, Chunks
<1>4. FlagsMean'
  <2>1. ihdr' /\ chunks' # <<>> /\ At("end")' = {}
    BY <1>1, <1>2 DEF ScanChunk, FlagsMean, Refuses, Types
  <2>4. /\ palette' <=> At("PLTE")' # {}
        /\ transparency' <=> At("tRNS")' # {}
    BY <1>1, <1>2 DEF ScanChunk, FlagsMean
  <2>5. /\ idatSeen' <=> At("IDAT")' # {}
        /\ iend' <=> At("IEND")' # {}
    BY <1>1, <1>2 DEF ScanChunk, FlagsMean
  <2>2. IdatFollowed' <=>
          IdatFollowed \/ (At("IDAT") # {} /\ chunk.type \notin {"IDAT", "IEND"})
    BY <1>1 DEF IdatFollowed
  <2>3. idatClosed' <=> IdatFollowed'
    BY <1>2, <2>2 DEF ScanChunk, FlagsMean
  <2> QED BY <2>1, <2>3, <2>4, <2>5 DEF FlagsMean
<1>5. WellFormedSoFar'
  <2> USE <1>1, <1>2 DEF WellFormedSoFar, Refuses, FlagsMean
  <2>1. \A i \in DOMAIN chunks' : chunks'[i].sound
    OBVIOUS
  <2>2. At("critical")' = {} /\ At("IHDR")' = {1}
    OBVIOUS
  <2>3. AtMostOne(At("PLTE"))' /\ Before(At("PLTE"), At("IDAT"))'
    BY DEF AtMostOne, Before
  <2>4. AtMostOne(At("tRNS"))' /\ Before(At("tRNS"), At("IDAT"))'
    BY DEF AtMostOne, Before
  <2>5. /\ colour' \in {0, 4} => At("PLTE")' = {}
        /\ colour' \in {4, 6} => At("tRNS")' = {}
    OBVIOUS
  <2>6. colour' = 3 => \A i \in At("tRNS")' \cup At("IDAT")' :
                         \E j \in At("PLTE")' : j < i
    OBVIOUS
  <2>7. \A i, k \in At("IDAT")', j \in DOMAIN chunks' :
          i < j /\ j < k => j \in At("IDAT")'
    <3>1. CASE chunk.type # "IDAT"
      BY <3>1
    <3>2. CASE chunk.type = "IDAT"
      <4>1. At("IEND") = {} /\ ~IdatFollowed
        BY <3>2
      <4>2. \A i \in At("IDAT"), j \in 1 .. n : i < j => j \in At("IDAT")
        BY <4>1 DEF IdatFollowed, At
      <4> QED BY <3>2, <4>2
    <3> QED BY <3>1, <3>2
  <2>8. \A i \in At("IEND")' :
          /\ Before(At("IDAT"), {i})' /\ At("IDAT")' # {}
          /\ \A j \in DOMAIN chunks' : j > i => j \in At("end")'
    BY DEF Before
  <2>9. \A i \in At("end")' : \E j \in At("IEND")' : j < i
    BY DEF Types
  <2> QED BY <2>1, <2>2, <2>3, <2>4, <2>5, <2>6, <2>7, <2>8, <2>9
<1> QED BY <1>2, <1>3, <1>4, <1>5 DEF PngInductive, PngInvariant, ScanIsExact

(* A chunk the scan refuses makes the image ill-formed.                    *)
LEMMA RefusedIsIllFormed ==
  ASSUME PngInductive, NEW chunk \in [type : Types, sound : BOOLEAN],
         ScanChunk(chunk), Refuses(chunk)
  PROVE  PngInductive'
<1> DEFINE n == Len(chunks)
<1>1. /\ n \in Nat
      /\ DOMAIN chunks = 1 .. n
      /\ DOMAIN chunks' = 1 .. n + 1
      /\ \A i \in 1 .. n : chunks'[i] = chunks[i]
      /\ chunks'[n + 1] = chunk
      /\ \A T : At(T) \subseteq 1 .. n
      /\ \A T : At(T)' = IF chunk.type = T THEN At(T) \cup {n + 1} ELSE At(T)
  <2> chunk \in Chunks /\ chunks' = Append(chunks, chunk) /\ PngTypeOK
    BY DEF Chunks, ScanChunk, PngInductive, PngInvariant
  <2> QED BY OneMoreChunk
<1>2. /\ chunk.type \in Types /\ verdict = "scanning" /\ verdict' = "refused"
      /\ colour' = colour /\ colour \in Colours
      /\ FlagsMean
  BY DEF ScanChunk, PngInductive, PngInvariant, PngTypeOK, ScanIsExact
<1> HIDE DEF n
<1>3. PngTypeOK'
  <2>1. chunks' \in Seq(Chunks)
    BY DEF ScanChunk, PngInductive, PngInvariant, PngTypeOK, Chunks
  <2> QED
    BY <1>2, <2>1 DEF ScanChunk, PngInductive, PngInvariant, PngTypeOK, Chunks
<1>4. ~WellFormedSoFar'
  <2> SUFFICES ASSUME WellFormedSoFar' PROVE FALSE
    OBVIOUS
  <2>0. /\ n + 1 \in DOMAIN chunks' /\ n + 1 \in At(chunk.type)'
        /\ \A T : \A i \in At(T) : i \in At(T)' /\ i < n + 1 /\ i \in Nat
    BY <1>1
  <2>1. CASE ~chunk.sound \/ chunk.type = "critical"
    <3>1. (\A i \in DOMAIN chunks' : chunks'[i].sound) /\ At("critical")' = {}
      BY DEF WellFormedSoFar
    <3> QED BY <1>1, <2>0, <2>1, <3>1
  <2>2. CASE iend
    <3>1. PICK i \in At("IEND") : TRUE
      BY <1>2, <2>2 DEF FlagsMean
    <3>2. n + 1 \in At("end")'
      BY <1>1, <2>0, <3>1 DEF WellFormedSoFar
    <3> QED BY <1>1, <1>2, <3>2 DEF Types, FlagsMean
  <2>3. CASE chunk.type = "IHDR" /\ (ihdr \/ chunks # <<>>)
    <3>1. At("IHDR")' = {1} /\ n # 0
      BY <1>1, <1>2, <2>3 DEF WellFormedSoFar, FlagsMean, PngInductive, PngInvariant,
                              PngTypeOK, n
    <3> QED BY <1>1, <2>0, <2>3, <3>1
  <2>4. CASE chunk.type # "IHDR" /\ ~ihdr
    BY <1>1, <1>2, <2>4 DEF WellFormedSoFar, FlagsMean
  <2>5. CASE chunk.type = "PLTE" /\ (idatSeen \/ palette \/ colour \in {0, 4})
    <3>1. /\ AtMostOne(At("PLTE"))' /\ Before(At("PLTE"), At("IDAT"))'
          /\ colour \in {0, 4} => At("PLTE")' = {}
      BY <1>2 DEF WellFormedSoFar
    <3> QED BY <1>1, <1>2, <2>0, <2>5, <3>1 DEF FlagsMean, AtMostOne, Before
  <2>6. CASE /\ chunk.type = "tRNS"
             /\ idatSeen \/ transparency \/ colour \in {4, 6}
                  \/ (colour = 3 /\ ~palette)
    <3>1. /\ AtMostOne(At("tRNS"))' /\ Before(At("tRNS"), At("IDAT"))'
          /\ colour \in {4, 6} => At("tRNS")' = {}
          /\ colour = 3 => At("PLTE")' # {}
      BY <1>2, <2>0, <2>6 DEF WellFormedSoFar
    <3> QED BY <1>1, <1>2, <2>0, <2>6, <3>1 DEF FlagsMean, AtMostOne, Before
  <2>7. CASE chunk.type = "IDAT" /\ colour = 3 /\ ~palette
    BY <1>1, <1>2, <2>0, <2>7 DEF WellFormedSoFar, FlagsMean
  <2>8. CASE chunk.type = "IDAT" /\ idatClosed /\ ~iend
    <3> PICK i \in At("IDAT"), j \in DOMAIN chunks :
          i < j /\ chunks[j].type \notin {"IDAT", "IEND"}
      BY <1>2, <2>8 DEF FlagsMean, IdatFollowed
    <3>1. i \in At("IDAT")' /\ n + 1 \in At("IDAT")' /\ j \in DOMAIN chunks' /\ j < n + 1
      BY <1>1, <2>0, <2>8
    <3>2. \A k, l \in At("IDAT")', m \in DOMAIN chunks' :
            k < m /\ m < l => m \in At("IDAT")'
      BY DEF WellFormedSoFar
    <3>3. j \in At("IDAT")'
      BY <3>1, <3>2
    <3>4. j \notin At("IDAT") /\ j # n + 1
      BY <1>1 DEF At
    <3> QED BY <1>1, <2>8, <3>3, <3>4
  <2>9. CASE chunk.type = "IEND" /\ ~idatSeen
    BY <1>1, <1>2, <2>0, <2>9 DEF WellFormedSoFar, FlagsMean
  <2> QED
    BY <2>1, <2>2, <2>3, <2>4, <2>5, <2>6, <2>7, <2>8, <2>9 DEF Refuses
<1> QED BY <1>2, <1>3, <1>4 DEF PngInductive, PngInvariant, ScanIsExact

(* What ends the data well is what follows an IEND.                        *)
LEMMA EndIsExact ==
  ASSUME PngInductive, EndScan
  PROVE  PngInductive'
<1> DEFINE n == Len(chunks)
           end == [type |-> "end", sound |-> TRUE]
<1>1. /\ n \in Nat
      /\ DOMAIN chunks = 1 .. n
      /\ DOMAIN chunks' = 1 .. n + 1
      /\ \A i \in 1 .. n : chunks'[i] = chunks[i]
      /\ chunks'[n + 1] = end
      /\ \A T : At(T) \subseteq 1 .. n
      /\ \A T : At(T)' = IF end.type = T THEN At(T) \cup {n + 1} ELSE At(T)
  <2> end \in Chunks /\ chunks' = Append(chunks, end) /\ PngTypeOK
    BY DEF Chunks, EndScan, PngInductive, PngInvariant
  <2> HIDE DEF end
  <2> QED BY OneMoreChunk
<1>2. /\ verdict = "scanning"
      /\ colour' = colour /\ iend' = iend
      /\ FlagsMean /\ WellFormedSoFar
  BY DEF EndScan, PngInductive, PngInvariant, PngTypeOK, ScanIsExact
<1> HIDE DEF n
<1>3. PngTypeOK'
  <2>1. chunks' \in Seq(Chunks)
    BY DEF EndScan, PngInductive, PngInvariant, PngTypeOK, Chunks
  <2> QED
    BY <1>2, <2>1 DEF EndScan, PngInductive, PngInvariant, PngTypeOK, Chunks
<1>4. At("end")' = {n + 1} /\ \A T : T # "end" => At(T)' = At(T)
  BY <1>1, <1>2 DEF FlagsMean
<1>5. CASE iend
  <2> USE <1>1, <1>2, <1>4, <1>5 DEF WellFormedSoFar
  <2>1. \A i \in DOMAIN chunks' : chunks'[i].sound
    OBVIOUS
  <2>2. chunks # <<>>
    BY DEF FlagsMean, At
  <2>3. At("critical")' = {} /\ At("IHDR")' = {1}
    BY <2>2
  <2>4. /\ AtMostOne(At("PLTE"))' /\ Before(At("PLTE"), At("IDAT"))'
        /\ AtMostOne(At("tRNS"))' /\ Before(At("tRNS"), At("IDAT"))'
    BY DEF AtMostOne, Before
  <2>5. /\ colour' \in {0, 4} => At("PLTE")' = {}
        /\ colour' \in {4, 6} => At("tRNS")' = {}
        /\ colour' = 3 => \A i \in At("tRNS")' \cup At("IDAT")' :
                            \E j \in At("PLTE")' : j < i
    OBVIOUS
  <2>6. \A i, k \in At("IDAT")', j \in DOMAIN chunks' :
          i < j /\ j < k => j \in At("IDAT")'
    OBVIOUS
  <2>7. \A i \in At("IEND")' :
          /\ Before(At("IDAT"), {i})' /\ At("IDAT")' # {}
          /\ \A j \in DOMAIN chunks' : j > i => j \in At("end")'
    <3>1. \A j \in DOMAIN chunks' : j \in 1 .. n \/ j \in At("end")'
      OBVIOUS
    <3>2. \A i \in At("IEND") : \A j \in 1 .. n : ~(j > i)
      BY DEF FlagsMean
    <3> QED BY <3>1, <3>2 DEF Before
  <2>8. \A i \in At("end")' : \E j \in At("IEND")' : j < i
    BY DEF FlagsMean
  <2>9. WellFormedSoFar'
    BY <2>1, <2>3, <2>4, <2>5, <2>6, <2>7, <2>8
  <2> QED BY <1>3, <2>9 DEF EndScan, PngInductive, PngInvariant, ScanIsExact
<1>6. CASE ~iend
  <2>1. ~WellFormedSoFar'
    BY <1>2, <1>4, <1>6 DEF FlagsMean, WellFormedSoFar
  <2> QED BY <1>3, <1>6, <2>1 DEF EndScan, PngInductive, PngInvariant, ScanIsExact
<1> QED BY <1>5, <1>6

LEMMA PngKept == PngInductive /\ [PngNext]_pngVars => PngInductive'
<1> SUFFICES ASSUME PngInductive, [PngNext]_pngVars PROVE PngInductive'
  OBVIOUS
<1>1. CASE UNCHANGED pngVars
  <2> USE <1>1 DEF pngVars
  <2>1. /\ WellFormedSoFar' <=> WellFormedSoFar
        /\ At("end")' = At("end")
    BY DEF WellFormedSoFar, At, AtMostOne, Before
  <2>2. FlagsMean => FlagsMean'
    BY DEF FlagsMean, IdatFollowed, At
  <2>3. PngTypeOK'
    BY DEF PngInductive, PngInvariant, PngTypeOK
  <2> QED BY <2>1, <2>2, <2>3 DEF PngInductive, PngInvariant, ScanIsExact
<1>2. CASE DecodeRows
  <2>1. UNCHANGED <<colour, chunks, ihdr, palette, transparency, idatSeen,
                    idatClosed, iend>>
        /\ verdict = "decoding" /\ verdict' \in {"accepted", "refused"}
    BY <1>2 DEF DecodeRows
  <2>2. WellFormedSoFar' /\ At("end")' # {} /\ iend'
    BY <2>1 DEF PngInductive, PngInvariant, ScanIsExact, WellFormedSoFar, At,
                AtMostOne, Before
  <2>3. PngTypeOK'
    BY <2>1 DEF PngInductive, PngInvariant, PngTypeOK
  <2> QED BY <2>1, <2>2, <2>3 DEF PngInductive, PngInvariant, ScanIsExact
<1> QED
  BY <1>1, <1>2, TakenIsWellFormed, RefusedIsIllFormed, EndIsExact DEF PngNext

(* validate_png accepts only what the format's grammar allows and refuses  *)
(* an image at the first chunk that breaks it, for images of any length.   *)
THEOREM PngScanIsExact == PngSpec => []PngInvariant
BY PngStarts, PngKept, PTL DEF PngSpec, PngInductive
=============================================================================
