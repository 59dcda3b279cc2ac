---------------------------- MODULE ImageOperation ----------------------------
(***************************************************************************)
(* Direct image generation: one billed, non-idempotent request, sent by a  *)
(* blocking worker while its caller may be dropped at any await            *)
(* (ImageOperationState, send_image_request: image.rs; generate_image, its *)
(* retry and ImageOperationGuard: client.rs).                              *)
(*                                                                         *)
(* Caller and worker share the phase, and each section of its mutex is a   *)
(* step.  The guard drops with the caller, so the caller's own checks of   *)
(* is_cancelled never see a cancelled operation.                           *)
(***************************************************************************)
EXTENDS Naturals, Connection

CONSTANT Images      \* operations of one client

VARIABLES
  phase,     \* per operation: ImageOperationPhase
  caller,    \* per operation: where generate_image is
  attempt,   \* per operation: calls of the endpoint so far
  worker,    \* per operation: where the blocking worker is
  outcome,   \* per operation: what the worker has returned
  result,    \* per operation: what generate_image has returned
  posts,     \* per operation: requests the endpoint may have seen
  refused,   \* per operation: posts it answered with 401
  owed       \* operations whose guard has yet to disconnect

imageVars == <<phase, caller, attempt, worker, outcome, result, posts, refused,
               owed>>

ImageInit ==
  /\ phase = [i \in Images |-> "Pending"]
  /\ caller = [i \in Images |-> "idle"]
  /\ attempt = [i \in Images |-> 0]
  /\ worker = [i \in Images |-> "none"]
  /\ outcome = [i \in Images |-> "none"]
  /\ result = [i \in Images |-> "none"]
  /\ posts = [i \in Images |-> 0]
  /\ refused = [i \in Images |-> 0]
  /\ owed = {}

ImageTypeOK ==
  /\ phase \in [Images -> {"Pending", "Dispatched", "CancelledBeforeDispatch",
                           "CancelledAfterDispatch", "Finished"}]
  /\ caller \in [Images -> {"idle", "auth", "endpoint", "returned", "dropped"}]
  /\ attempt \in [Images -> 0 .. 2]
  /\ worker \in [Images -> {"none", "queued", "posted", "body", "checked"}]
  /\ outcome \in [Images -> {"none", "image", "unauthorized", "failed", "unknown",
                             "cancelled"}]
  /\ result \in [Images -> {"none", "image", "failed", "unknown"}]
  /\ posts \in [Images -> 0 .. 2]
  /\ refused \in [Images -> 0 .. 2]
  /\ owed \subseteq Images

Cancelled(i) ==
  phase[i] \in {"CancelledBeforeDispatch", "CancelledAfterDispatch"}

-----------------------------------------------------------------------------
(* The caller: generate_image and generate_image_with_retry.                *)

Generate(i) ==
  /\ caller[i] = "idle"
  /\ caller' = [caller EXCEPT ![i] = "auth"]
  /\ UNCHANGED <<link, phase, attempt, worker, outcome, result, posts, refused,
                 owed>>

\* Mutant: a finished operation needs no resolution.
CancelledFinished(i) ==
  /\ phase' = [phase EXCEPT ![i] =
       IF phase[i] = "Pending" THEN "CancelledBeforeDispatch"
       ELSE IF phase[i] = "Dispatched" THEN "CancelledAfterDispatch" ELSE @]
  /\ owed' = IF phase[i] \in {"Dispatched", "CancelledAfterDispatch"}
             THEN owed \cup {i} ELSE owed

(* ImageOperationGuard::drop of an armed guard: cancel, and a disconnect    *)
(* (spawned) if a request may have reached the endpoint.                    *)
GuardDrops(i) ==
  /\ phase' = [phase EXCEPT ![i] =
       IF phase[i] = "Pending" THEN "CancelledBeforeDispatch"
       ELSE IF phase[i] \in {"Dispatched", "Finished"}
       THEN "CancelledAfterDispatch" ELSE @]
  /\ owed' = IF phase[i] \in {"Dispatched", "Finished", "CancelledAfterDispatch"}
             THEN owed \cup {i} ELSE owed

(* The guard is disarmed, except by an error whose outcome is unknown.      *)
Returns(i, value) ==
  /\ caller' = [caller EXCEPT ![i] = "returned"]
  /\ result' = [result EXCEPT ![i] = value]
  /\ IF value = "unknown" THEN GuardDrops(i) ELSE UNCHANGED <<phase, owed>>

(* getAuthStatus fails, its token is not a ChatGPT login's, or the deadline *)
(* has passed.                                                              *)
AuthFails(i) ==
  /\ caller[i] = "auth"
  /\ \E value \in {"failed", "unknown"} : Returns(i, value)
  /\ UNCHANGED <<link, attempt, worker, outcome, posts, refused>>

AuthReady(i) ==
  /\ caller[i] = "auth" /\ link = "up"
  /\ caller' = [caller EXCEPT ![i] = "endpoint"]
  /\ attempt' = [attempt EXCEPT ![i] = @ + 1]
  /\ worker' = [worker EXCEPT ![i] = "queued"]
  /\ outcome' = [outcome EXCEPT ![i] = "none"]
  /\ UNCHANGED <<link, phase, result, posts, refused, owed>>

(* Only an explicit 401, and only once.                                     *)
Retries(i) == attempt[i] = 1 /\ outcome[i] = "unauthorized"

EndpointReturns(i) ==
  /\ caller[i] = "endpoint" /\ outcome[i] # "none"
  /\ IF Retries(i)
     THEN /\ caller' = [caller EXCEPT ![i] = "auth"]
          /\ UNCHANGED <<phase, result, owed>>
     ELSE Returns(i, CASE outcome[i] = "image" -> "image"
                       [] outcome[i] = "unknown" -> "unknown"
                       [] OTHER -> "failed")
  /\ UNCHANGED <<link, attempt, worker, outcome, posts, refused>>

AbandonGenerate(i) ==
  /\ caller[i] \in {"auth", "endpoint"}
  /\ caller' = [caller EXCEPT ![i] = "dropped"]
  /\ GuardDrops(i)
  /\ UNCHANGED <<link, attempt, worker, outcome, result, posts, refused>>

GuardDisconnects(i) ==
  /\ i \in owed
  /\ owed' = owed \ {i}
  /\ link' = IF link = "up" THEN "cutting" ELSE link
  /\ UNCHANGED <<phase, caller, attempt, worker, outcome, result, posts, refused>>

-----------------------------------------------------------------------------
(* The worker: send_image_request.                                          *)

WorkerEnds(i, value) ==
  /\ worker' = [worker EXCEPT ![i] = "none"]
  /\ outcome' = [outcome EXCEPT ![i] = value]
  /\ UNCHANGED <<link, caller, attempt, result, posts, owed>>

(* The body is too large, before anything is sent.                          *)
BodyTooLarge(i) ==
  /\ worker[i] = "queued"
  /\ WorkerEnds(i, "failed")
  /\ UNCHANGED <<phase, refused>>

(* begin_dispatch, and the POST that follows it.                            *)
BeginDispatch(i) ==
  /\ worker[i] = "queued"
  /\ \/ /\ phase[i] = "Pending"
        /\ phase' = [phase EXCEPT ![i] = "Dispatched"]
        /\ posts' = [posts EXCEPT ![i] = @ + 1]
        /\ worker' = [worker EXCEPT ![i] = "posted"]
        /\ UNCHANGED <<link, caller, attempt, outcome, result, owed>>
     \/ /\ phase[i] # "Pending"
        /\ WorkerEnds(i, IF Cancelled(i) THEN "cancelled" ELSE "failed")
        /\ UNCHANGED phase
  /\ UNCHANGED refused

\* Mutant: a request that was lost is taken for one that was refused.
PostAgain(i) ==
  /\ worker[i] = "posted"
  /\ phase' = [phase EXCEPT ![i] = IF @ = "Dispatched" THEN "Pending" ELSE @]
  /\ WorkerEnds(i, "unauthorized")
  /\ UNCHANGED refused

PostLost(i) ==
  /\ worker[i] = "posted"
  /\ WorkerEnds(i, "unknown")
  /\ UNCHANGED <<phase, refused>>

(* 401: reset_after_unauthorized.                                           *)
Unauthorized(i) ==
  /\ worker[i] = "posted"
  /\ phase' = [phase EXCEPT ![i] = IF @ = "Dispatched" THEN "Pending" ELSE @]
  /\ refused' = [refused EXCEPT ![i] = @ + 1]
  /\ WorkerEnds(i, "unauthorized")

Finish(i) ==
  phase' = [phase EXCEPT ![i] = IF @ = "Dispatched" THEN "Finished" ELSE @]

(* Any status but 200 and 401.                                              *)
OtherStatus(i) ==
  /\ worker[i] = "posted"
  /\ Finish(i)
  /\ WorkerEnds(i, "failed")
  /\ UNCHANGED refused

ReadBody(i) ==
  /\ worker[i] = "posted"
  /\ worker' = [worker EXCEPT ![i] = "body"]
  /\ UNCHANGED <<link, phase, caller, attempt, outcome, result, posts, refused,
                 owed>>

(* The body cannot be read or does not hold one valid PNG (PngScan), or the *)
(* operation was cancelled.                                                 *)
BodyUseless(i) ==
  /\ worker[i] = "body"
  /\ WorkerEnds(i, "unknown")
  /\ UNCHANGED <<phase, refused>>

BodyChecked(i) ==
  /\ worker[i] = "body" /\ ~Cancelled(i)
  /\ worker' = [worker EXCEPT ![i] = "checked"]
  /\ UNCHANGED <<link, phase, caller, attempt, outcome, result, posts, refused,
                 owed>>

(* A cancellation after the last check finds the operation dispatched.      *)
Deliver(i) ==
  /\ worker[i] = "checked"
  /\ Finish(i)
  /\ WorkerEnds(i, "image")
  /\ UNCHANGED refused

ImageCut == BeginDisconnect /\ UNCHANGED imageVars

ImageNext ==
  \/ \E i \in Images :
       \/ Generate(i) \/ AuthFails(i) \/ AuthReady(i) \/ EndpointReturns(i)
       \/ AbandonGenerate(i) \/ GuardDisconnects(i)
       \/ BodyTooLarge(i) \/ BeginDispatch(i) \/ PostLost(i) \/ Unauthorized(i)
       \/ OtherStatus(i) \/ ReadBody(i) \/ BodyUseless(i) \/ BodyChecked(i)
       \/ Deliver(i)
  \/ ImageCut

ImageSpec == LinkInit /\ ImageInit /\ [][ImageNext]_<<link, imageVars>>

-----------------------------------------------------------------------------
(* The endpoint bills one request at most: of the requests of an operation, *)
(* all but one were refused with 401, and an image was paid once.           *)
BilledOnce ==
  \A i \in Images :
    /\ posts[i] - refused[i] <= 1
    /\ result[i] = "image" => posts[i] - refused[i] = 1

(* A request that may have been billed and whose result nobody gets is not  *)
(* dropped in silence: its client is, or is about to be, disconnected.      *)
MayBeBilled(i) ==
  \/ worker[i] \in {"posted", "body", "checked"}
  \/ outcome[i] \in {"image", "unknown"} /\ posts[i] > refused[i]
AbandonedIsFatal ==
  \A i \in Images :
    MayBeBilled(i) /\ (caller[i] = "dropped" \/ result[i] = "unknown")
      => i \in owed \/ link # "up"
=============================================================================
