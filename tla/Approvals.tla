------------------------------ MODULE Approvals ------------------------------
(***************************************************************************)
(* Reverse requests: the router's handle_server_request (router.rs), the   *)
(* approvals it hands to the run's owner (approval.rs) and the responder   *)
(* task that owns the one answer (approval/respond.rs).                    *)
(*                                                                         *)
(* The owner of an approval may decide, drop it or let it time out, while  *)
(* the task waits on a one-shot channel and on the approval timeout.       *)
(***************************************************************************)
EXTENDS Naturals, Connection

CONSTANT Reverse     \* the app-server's requests

Kinds == {"command", "file", "permissions", "input"}

VARIABLES
  asked,    \* per request: unread, being refused by the router, or its kind
  holder,   \* per request: who has the ApprovalEvent
  command,  \* per request: the one-shot channel to the responder task
  responder, \* per request: its task, waiting or what it sends
  reply,    \* per request: what its owner was told
  answers,  \* per request: how many answers were written to the app-server
  wire      \* per request: the last of them

approvalVars == <<asked, holder, command, responder, reply, answers, wire>>

ApprovalInit ==
  /\ asked = [r \in Reverse |-> "unread"]
  /\ holder = [r \in Reverse |-> "none"]
  /\ command = [r \in Reverse |-> "none"]
  /\ responder = [r \in Reverse |-> "none"]
  /\ reply = [r \in Reverse |-> "none"]
  /\ answers = [r \in Reverse |-> 0]
  /\ wire = [r \in Reverse |-> "none"]

ApprovalTypeOK ==
  /\ LinkType
  /\ asked \in [Reverse -> {"unread", "refusing", "refused"} \cup Kinds]
  /\ holder \in [Reverse -> {"none", "run", "owner", "responding"}]
  /\ command \in [Reverse -> {"none", "explicit", "fallback"}]
  /\ responder \in [Reverse -> {"none", "waiting", "explicit", "fallback", "ended"}]
  /\ reply \in [Reverse -> {"none", "ok", "invalid", "failed"}]
  /\ answers \in [Reverse -> Nat]
  /\ wire \in [Reverse -> {"none", "error", "explicit", "fallback"}]

-----------------------------------------------------------------------------
(* The router reads one request after the other; it is busy while it sends  *)
(* a refusal itself.                                                        *)

RouterFree == link = "up" /\ \A r \in Reverse : asked[r] # "refusing"

(* A capability that is not enabled, or parameters that do not parse.       *)
AskedInVain(r) ==
  /\ RouterFree /\ asked[r] = "unread"
  /\ asked' = [asked EXCEPT ![r] = "refusing"]
  /\ UNCHANGED <<link, holder, command, responder, reply, answers, wire>>

(* The whole request parses before its responder task is spawned.  The      *)
(* event goes to the run of its thread; without one it is dropped here.     *)
Asked(r, kind) ==
  /\ RouterFree /\ asked[r] = "unread"
  /\ asked' = [asked EXCEPT ![r] = kind]
  /\ responder' = [responder EXCEPT ![r] = "waiting"]
  /\ \/ /\ holder' = [holder EXCEPT ![r] = "run"]
        /\ UNCHANGED command
     \/ /\ command' = [command EXCEPT ![r] = "fallback"]
        /\ UNCHANGED holder
  /\ UNCHANGED <<link, reply, answers, wire>>

Writes(r, answer) ==
  /\ answers' = [answers EXCEPT ![r] = @ + 1]
  /\ wire' = [wire EXCEPT ![r] = answer]

(* process.send: written, or an error after which the answer may or may not *)
(* have been written and the connection is given up.                        *)
Sends(r, answer, ok) ==
  \/ ok /\ link = "up" /\ Writes(r, answer) /\ UNCHANGED link
  \/ /\ ~ok
     /\ (link = "up" /\ Writes(r, answer)) \/ UNCHANGED <<answers, wire>>
     /\ link' = IF link = "up" THEN "cutting" ELSE link

(* send_reverse_response; a refusal that fails disconnects.                 *)
Refuse(r) ==
  /\ asked[r] = "refusing"
  /\ asked' = [asked EXCEPT ![r] = "refused"]
  /\ \E ok \in BOOLEAN : Sends(r, "error", ok)
  /\ UNCHANGED <<holder, command, responder, reply>>

-----------------------------------------------------------------------------
(* The owner of the run.                                                    *)

(* A command is accepted only by a task that still waits for one.           *)
Commands(r, answer) ==
  command' = IF responder[r] = "waiting" /\ command[r] = "none"
             THEN [command EXCEPT ![r] = answer] ELSE command

TakeEvent(r) ==
  /\ holder[r] = "run"
  /\ holder' = [holder EXCEPT ![r] = "owner"]
  /\ UNCHANGED <<link, asked, command, responder, reply, answers, wire>>

(* ApprovalResponder::drop, of an event in the stream or in the owner's     *)
(* hands.                                                                   *)
DropEvent(r) ==
  /\ holder[r] \in {"run", "owner"}
  /\ holder' = [holder EXCEPT ![r] = "none"]
  /\ Commands(r, "fallback")
  /\ UNCHANGED <<link, asked, responder, reply, answers, wire>>

(* respond, deny and answer: the decision is sent to the task, or it is too *)
(* late for one.                                                            *)
Respond(r) ==
  /\ holder[r] = "owner"
  /\ IF responder[r] = "waiting"
     THEN /\ holder' = [holder EXCEPT ![r] = "responding"]
          /\ UNCHANGED reply
     ELSE /\ holder' = [holder EXCEPT ![r] = "none"]
          /\ reply' = [reply EXCEPT ![r] = "failed"]
  /\ Commands(r, "explicit")
  /\ UNCHANGED <<link, asked, responder, answers, wire>>

(* answer refuses unknown, empty and repeated question ids, and gives the   *)
(* request up by dropping it.                                               *)
AnswerInvalid(r) ==
  /\ asked[r] = "input" /\ holder[r] = "owner"
  /\ holder' = [holder EXCEPT ![r] = "none"]
  /\ reply' = [reply EXCEPT ![r] = "invalid"]
  /\ Commands(r, "fallback")
  /\ UNCHANGED <<link, asked, responder, answers, wire>>

(* The future of respond is dropped; the decision stands.                   *)
DropRespond(r) ==
  /\ holder[r] = "responding"
  /\ holder' = [holder EXCEPT ![r] = "none"]
  /\ UNCHANGED <<link, asked, command, responder, reply, answers, wire>>

-----------------------------------------------------------------------------
(* approval_response_task.                                                  *)

Tells(r, result) ==
  /\ holder' = [holder EXCEPT ![r] = IF @ = "responding" THEN "none" ELSE @]
  /\ reply' = [reply EXCEPT ![r] = IF holder[r] = "responding" THEN result
                                   ELSE @]

TaskTakes(r) ==
  /\ responder[r] = "waiting" /\ command[r] # "none"
  /\ responder' = [responder EXCEPT ![r] = command[r]]
  /\ UNCHANGED <<link, asked, holder, command, reply, answers, wire>>

\* Mutant: the timeout answers and leaves the channel to the task.
AnswerAndWait(r) ==
  /\ responder[r] = "waiting" /\ answers[r] < 2 /\ link = "up"
  /\ Writes(r, "fallback")
  /\ UNCHANGED <<link, asked, holder, command, responder, reply>>
\* Mutant: there is no approval timeout.
NoTimeout(r) == FALSE /\ UNCHANGED <<link, approvalVars>>

(* The timeout wins the select, also over a decision that is in the channel *)
(* already: its owner is told that the task ended.                          *)
TaskTimesOut(r) ==
  /\ responder[r] = "waiting"
  /\ responder' = [responder EXCEPT ![r] = "fallback"]
  /\ Tells(r, "failed")
  /\ UNCHANGED <<link, asked, command, answers, wire>>

(* The answer is sent, a failure kills the process, and only an explicit    *)
(* decision is acknowledged.                                                *)
TaskSends(r) ==
  /\ responder[r] \in {"explicit", "fallback"}
  /\ responder' = [responder EXCEPT ![r] = "ended"]
  /\ \E ok \in BOOLEAN :
       /\ Sends(r, responder[r], ok)
       /\ IF responder[r] = "explicit" THEN Tells(r, IF ok THEN "ok" ELSE "failed")
          ELSE UNCHANGED <<holder, reply>>
  /\ UNCHANGED <<asked, command>>

(* Any other reason to disconnect.                                          *)
CutElsewhere == BeginDisconnect /\ UNCHANGED approvalVars

TaskStep(r) == TaskTakes(r) \/ TaskTimesOut(r) \/ TaskSends(r)

ApprovalNext ==
  \/ \E r \in Reverse :
       \/ AskedInVain(r) \/ \E kind \in Kinds : Asked(r, kind)
       \/ Refuse(r)
       \/ TakeEvent(r) \/ DropEvent(r) \/ Respond(r) \/ AnswerInvalid(r)
       \/ DropRespond(r) \/ TaskStep(r)
  \/ CutElsewhere

ApprovalSpec == LinkInit /\ ApprovalInit /\ [][ApprovalNext]_<<link, approvalVars>>

-----------------------------------------------------------------------------
(* However decision, drop and timeout race, a request has at most one       *)
(* answer; an owner that is told Ok has decided it; and while the           *)
(* connection is up, a decision reported as failed is not in force.         *)
OneAnswer ==
  \A r \in Reverse :
    /\ answers[r] <= 1
    /\ reply[r] = "ok" => wire[r] = "explicit"
    /\ reply[r] \in {"failed", "invalid"} /\ link = "up"
         => wire[r] \in {"none", "fallback"}

(* No reverse request is left open: it is answered, if only by the timeout, *)
(* or the connection is given up.                                           *)
EveryRequestAnswered ==
  \A r \in Reverse :
    asked[r] # "unread" ~> wire[r] # "none" \/ link # "up"
=============================================================================
