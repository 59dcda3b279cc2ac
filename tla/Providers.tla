------------------------------ MODULE Providers ------------------------------
(***************************************************************************)
(* The two provider programs: vergerail_upagent_provider (a model turn or  *)
(* an image) and ifsc_text_provider.  Each reads one request, connects a   *)
(* client, runs one operation, shuts the client down and writes one        *)
(* answer.                                                                 *)
(*                                                                         *)
(* The client is external here: each of its calls succeeds, fails with the *)
(* code its error is classified to, or never returns.  An error code is    *)
(* one of the four below; "refused" stands for all the others.             *)
(***************************************************************************)
EXTENDS Naturals

VARIABLES
  program,    \* model or image (vergerail_upagent_provider), or ifsc
  at,         \* where the program is
  late,       \* whether the deadline of timeoutMs has passed
  client,     \* the Codex client
  session,    \* its session
  staging,    \* the staging directory of the observations, if any
  turns,      \* turns started
  live,       \* live_violation, violations: what this turn's events showed
  effects,    \* what the model did beside text: <<turn, where it shows>>
  delivered,  \* whether generate_image has returned an image
  original,   \* how the operation itself ended
  outcome,    \* what the program will answer
  cut,        \* whether the deadline dropped the model turn
  answer      \* what has been written

providerVars == <<program, at, late, client, session, staging, turns, live,
                  effects, delivered, original, outcome, cut, answer>>

Codes == {"timeout", "resolution_required", "provider_failed", "refused"}
Results == {"ok"} \cup Codes
MaxModelAttempts == 2

ProviderInit ==
  /\ program \in {"model", "image", "ifsc"}
  /\ at = "idle"
  /\ late = FALSE
  /\ client = "none"
  /\ session = "none"
  /\ staging \in {"none", "given"}
  /\ staging = "given" => program = "model"
  /\ turns = 0
  /\ live = FALSE
  /\ effects = {}
  /\ delivered = FALSE
  /\ original = "none"
  /\ outcome = "none"
  /\ cut = FALSE
  /\ answer = "none"

ProviderTypeOK ==
  /\ program \in {"model", "image", "ifsc"}
  /\ at \in {"idle", "connecting", "checking", "beginning", "staging",
       "preparing", "opening", "starting", "running", "auditing", "parsing",
       "closing", "imaging", "rechecking", "ending", "stopping", "teardown",
       "answering", "done"}
  /\ late \in BOOLEAN /\ live \in BOOLEAN /\ cut \in BOOLEAN
  /\ delivered \in BOOLEAN
  /\ client \in {"none", "connected", "closed", "lost"}
  /\ session \in {"none", "open", "closed", "lost"}
  /\ staging \in {"none", "given", "removed"}
  /\ turns \in 0 .. MaxModelAttempts
  /\ effects \subseteq (1 .. MaxModelAttempts) \X {"event", "audit", "image"}
  /\ original \in {"none"} \cup Results
  /\ outcome \in {"none"} \cup Results
  /\ answer \in {"none", "unwritten"} \cup Results

(* A later failure is reported only if there was none before.               *)
Kept(first, later) == IF first # "ok" THEN first ELSE later

(* The operation is over with r, and the program goes on at the place.      *)
Concludes(r, place) ==
  /\ original' = r /\ outcome' = r
  /\ at' = place

-----------------------------------------------------------------------------
(* Before the operation.                                                    *)

(* read_request, validate_request and the settings.                         *)
ReadRequest ==
  /\ at = "idle"
  /\ \/ Concludes("refused", "answering")
     \/ at' = "connecting" /\ UNCHANGED <<original, outcome>>
  /\ UNCHANGED <<program, late, client, session, staging, turns, live, effects,
                 delivered, cut, answer>>

(* resolve_runtime or pinned, and Codex::connect, which heeds the deadline. *)
ConnectClient ==
  /\ at = "connecting"
  /\ \/ \E r \in Codes : Concludes(r, "answering") /\ UNCHANGED client
     \/ /\ client' = "connected"
        /\ at' = IF program = "ifsc" THEN "checking" ELSE "beginning"
        /\ UNCHANGED <<original, outcome>>
  /\ UNCHANGED <<program, late, session, staging, turns, live, effects,
                 delivered, cut, answer>>

(* execute_connected up to the session: diagnostics, account, models.       *)
CheckAccount ==
  /\ at = "checking"
  /\ \/ \E r \in Codes : Concludes(r, "ending")
     \/ at' = "opening" /\ UNCHANGED <<original, outcome>>
  /\ UNCHANGED <<program, late, client, session, staging, turns, live, effects,
                 delivered, cut, answer>>

BeginOperation ==
  /\ at = "beginning"
  /\ IF late THEN Concludes("timeout", "ending")
     ELSE /\ at' = IF program = "image" THEN "imaging" ELSE "staging"
          /\ UNCHANGED <<original, outcome>>
  /\ UNCHANGED <<program, late, client, session, staging, turns, live, effects,
                 delivered, cut, answer>>

-----------------------------------------------------------------------------
(* The model turn of vergerail_upagent_provider.                            *)

(* ObservationStaging::cleanup: with how it went.                           *)
Cleanup(how) ==
  \/ how = "ok" /\ staging' = IF staging = "none" THEN "none" ELSE "removed"
  \/ how = "provider_failed" /\ staging = "given" /\ UNCHANGED staging

(* finish_with_staging_cleanup of an error.                                 *)
FailsWithCleanup(r) ==
  /\ \E how \in {"ok", "provider_failed"} : Cleanup(how)
  /\ Concludes(r, "ending")

(* validated_observations and a refused root come before there is anything  *)
(* to clean up; a file that cannot be written comes after.                  *)
CreateStaging ==
  /\ at = "staging"
  /\ \/ Concludes("refused", "ending") /\ UNCHANGED staging
     \/ staging = "given" /\ FailsWithCleanup("provider_failed")
     \/ at' = "preparing" /\ UNCHANGED <<original, outcome, staging>>
  /\ UNCHANGED <<program, late, client, session, turns, live, effects,
                 delivered, cut, answer>>

(* The prompt, the output schema and the time that remains.                 *)
Prepare ==
  /\ at = "preparing"
  /\ \/ FailsWithCleanup("refused")
     \/ late /\ FailsWithCleanup("timeout")
     \/ ~late /\ at' = "opening" /\ UNCHANGED <<original, outcome, staging>>
  /\ UNCHANGED <<program, late, client, session, turns, live, effects,
                 delivered, cut, answer>>

-----------------------------------------------------------------------------
(* A session and its turns, in both text programs.                          *)

OpenSession ==
  /\ at = "opening"
  /\ \/ /\ \E r \in Codes : FailsWithCleanup(r)
        /\ UNCHANGED session
     \/ /\ session' = "open" /\ at' = "starting"
        /\ UNCHANGED <<original, outcome, staging>>
  /\ UNCHANGED <<program, late, client, turns, live, effects, delivered, cut,
                 answer>>

StartTurn ==
  /\ at = "starting"
  /\ live' = FALSE
  /\ \/ \E r \in Codes : Concludes(r, "closing") /\ UNCHANGED turns
     \/ turns' = turns + 1 /\ at' = "running" /\ UNCHANGED <<original, outcome>>
  /\ UNCHANGED <<program, late, client, session, staging, effects, delivered,
                 cut, answer>>

(* A command, a file change, an approval, a warning: it is remembered, and  *)
(* an approval that cannot be denied ends the turn.                         *)
ForbiddenEvent ==
  /\ at = "running"
  /\ live' = TRUE
  /\ effects' = effects \cup {<<turns, "event">>}
  /\ \/ UNCHANGED <<at, original, outcome>>
     \/ \E r \in Codes : Concludes(r, "closing")
  /\ UNCHANGED <<program, late, client, session, staging, turns, delivered, cut,
                 answer>>

(* The model does something that only the thread's history will show: an    *)
(* image, or anything else.                                                 *)
HiddenEffect ==
  /\ at = "running"
  /\ \E kind \in {"audit", "image"} : effects' = effects \cup {<<turns, kind>>}
  /\ UNCHANGED <<program, at, late, client, session, staging, turns, live,
                 delivered, original, outcome, cut, answer>>

\* Mutant: the durable audit is trusted to repeat what the events showed.
RunCompletesForgetting ==
  /\ at = "running"
  /\ at' = "auditing"
  /\ UNCHANGED <<program, late, client, session, staging, turns, live, effects,
                 delivered, original, outcome, cut, answer>>

(* Event::Completed, or another status; the events are judged at once by    *)
(* one program and together with the audit by the other.                    *)
RunCompletes ==
  /\ at = "running"
  /\ \/ program = "model" /\ Concludes("provider_failed", "closing")
     \/ /\ program = "model" => ~live
        /\ at' = "auditing" /\ UNCHANGED <<original, outcome>>
  /\ UNCHANGED <<program, late, client, session, staging, turns, live, effects,
                 delivered, cut, answer>>

(* Event::Failed, an error, or the end of the stream without a terminal.    *)
RunFails ==
  /\ at = "running"
  /\ \E r \in Codes : Concludes(r, "closing")
  /\ UNCHANGED <<program, late, client, session, staging, turns, live, effects,
                 delivered, cut, answer>>

(* audit_turn: the history of this turn.  One program judges its events,    *)
(* and how it ended, only now, and does not look at the images.             *)
AuditTurn ==
  /\ at = "auditing"
  /\ \/ \E r \in Codes : Concludes(r, "closing")
     \/ /\ <<turns, "audit">> \notin effects
        /\ IF program = "ifsc" THEN ~live ELSE <<turns, "image">> \notin effects
        /\ at' = "parsing" /\ UNCHANGED <<original, outcome>>
  /\ UNCHANGED <<program, late, client, session, staging, turns, live, effects,
                 delivered, cut, answer>>

(* What the model wrote: accepted, or refused.  One program asks once more. *)
ParseOutput ==
  /\ at = "parsing"
  /\ \/ Concludes("ok", "closing")
     \/ /\ program = "ifsc" /\ turns < MaxModelAttempts
        /\ at' = "starting" /\ UNCHANGED <<original, outcome>>
     \/ /\ program = "ifsc" => turns = MaxModelAttempts
        /\ Concludes("refused", "closing")
  /\ UNCHANGED <<program, late, client, session, staging, turns, live, effects,
                 delivered, cut, answer>>

\* Mutant: a close that fails is what is reported.
CloseFirst ==
  /\ at = "closing"
  /\ \E closed \in Results, how \in {"ok", "provider_failed"} :
       /\ session' = IF closed = "ok" THEN "closed" ELSE "lost"
       /\ Cleanup(how)
       /\ outcome' = Kept(closed, Kept(how, outcome))
  /\ at' = IF program = "ifsc" /\ outcome' = "ok" THEN "rechecking" ELSE "ending"
  /\ UNCHANGED <<program, late, client, turns, live, effects, delivered,
                 original, cut, answer>>

(* session.close and then, whatever it returned, the staging directory: of  *)
(* their two failures the second is reported.                               *)
CloseSession ==
  /\ at = "closing"
  /\ \E closed \in Results, how \in {"ok", "provider_failed"} :
       /\ session' = IF closed = "ok" THEN "closed" ELSE "lost"
       /\ Cleanup(how)
       /\ outcome' = Kept(outcome, Kept(how, closed))
  /\ at' = IF program = "ifsc" /\ outcome' = "ok" THEN "rechecking" ELSE "ending"
  /\ UNCHANGED <<program, late, client, turns, live, effects, delivered,
                 original, cut, answer>>

(* require_no_diagnostics after the turn.                                   *)
Recheck ==
  /\ at = "rechecking"
  /\ outcome' \in {outcome, "provider_failed"}
  /\ at' = "ending"
  /\ UNCHANGED <<program, late, client, session, staging, turns, live, effects,
                 delivered, original, cut, answer>>

\* Mutant: only the turn itself has a timeout.
OperationUnbounded ==
  /\ FALSE /\ UNCHANGED providerVars

(* The timeout around run_model_turn drops it where it awaits, its session  *)
(* and its staging directory as they are.                                   *)
OperationTimesOut ==
  /\ program = "model" /\ late
  /\ at \in {"opening", "starting", "running", "auditing", "closing"}
  /\ session' = IF session = "open" THEN "lost" ELSE session
  /\ outcome' = "timeout"
  /\ cut' = TRUE
  /\ at' = "ending"
  /\ UNCHANGED <<program, late, client, staging, turns, live, effects, delivered,
                 original, answer>>

-----------------------------------------------------------------------------
(* run_image_generation: no second timeout, for generate_image has the      *)
(* deadline and knows whether its request was dispatched.                   *)
GenerateImage ==
  /\ at = "imaging"
  /\ \/ \E r \in Codes : Concludes(r, "ending") /\ UNCHANGED delivered
     \/ \E r \in {"ok", "refused"} : Concludes(r, "ending") /\ delivered' = TRUE
  /\ UNCHANGED <<program, late, client, session, staging, turns, live, effects,
                 cut, answer>>

-----------------------------------------------------------------------------
(* After the operation.                                                     *)

(* The time that remains is the shutdown's; if there is none, a budget of   *)
(* its own.                                                                 *)
BeginStop ==
  /\ at = "ending"
  /\ at' = IF late THEN "teardown" ELSE "stopping"
  /\ UNCHANGED <<program, late, client, session, staging, turns, live, effects,
                 delivered, original, outcome, cut, answer>>

Stops(how, r) ==
  /\ client' = how
  /\ outcome' = Kept(outcome, r)
  /\ at' = "answering"
  /\ UNCHANGED <<program, late, session, staging, turns, live, effects,
                 delivered, original, cut, answer>>

ShutdownReturns ==
  /\ at = "stopping"
  /\ Stops("closed", "ok") \/ \E r \in Codes : Stops("lost", r)

ShutdownTimesOut == at = "stopping" /\ late /\ Stops("lost", "timeout")

(* bounded_teardown, after which the deadline is an error in any case.      *)
TeardownEnds ==
  /\ at = "teardown"
  /\ \E how \in {"closed", "lost"} : Stops(how, "timeout")

(* encode_success_response or encode_failure_response, and the line on      *)
(* stdout, which may be closed.                                             *)
WriteAnswer ==
  /\ at = "answering"
  /\ answer' \in {outcome, "unwritten"} \cup (IF outcome = "ok" THEN {"refused"} ELSE {})
  /\ at' = "done"
  /\ UNCHANGED <<program, late, client, session, staging, turns, live, effects,
                 delivered, original, outcome, cut>>

(* The monotonic deadline, which only vergerail_upagent_provider has.       *)
DeadlinePasses ==
  /\ program # "ifsc" /\ ~late
  /\ at \notin {"idle", "answering", "done"}
  /\ late' = TRUE
  /\ UNCHANGED <<program, at, client, session, staging, turns, live, effects,
                 delivered, original, outcome, cut, answer>>

(* The program's own steps, and the client's that heed the deadline.        *)
ProviderStep ==
  \/ ReadRequest \/ BeginOperation \/ CreateStaging \/ Prepare \/ ParseOutput
  \/ BeginStop \/ TeardownEnds \/ WriteAnswer
DeadlineStep ==
  late /\ (ConnectClient \/ OperationTimesOut \/ GenerateImage \/ ShutdownTimesOut)

ProviderNext ==
  \/ ReadRequest \/ ConnectClient \/ CheckAccount \/ BeginOperation
  \/ CreateStaging \/ Prepare \/ OpenSession \/ StartTurn \/ ForbiddenEvent
  \/ HiddenEffect \/ RunCompletes \/ RunFails \/ AuditTurn \/ ParseOutput
  \/ CloseSession \/ Recheck \/ OperationTimesOut \/ GenerateImage \/ BeginStop
  \/ ShutdownReturns \/ ShutdownTimesOut \/ TeardownEnds \/ WriteAnswer
  \/ DeadlinePasses

ProviderSpec == ProviderInit /\ [][ProviderNext]_providerVars

-----------------------------------------------------------------------------
(* Success is answered only if no turn did anything but write text, neither *)
(* as its events nor as the history shows it (but for an image that         *)
(* ifsc_text_provider finds in the history alone), the session closed, the  *)
(* staging directory is gone and the client was shut down.                  *)
SuccessIsClean ==
  answer = "ok" =>
    /\ client = "closed"
    /\ \A e \in effects : program = "ifsc" /\ e[2] = "image"
    /\ staging # "given"
    /\ program = "image" => delivered
    /\ program # "image" => session = "closed" /\ turns > 0

(* A failure of the operation is what the program answers, however many of  *)
(* the close, the cleanup and the shutdown fail after it; only a deadline   *)
(* that drops the turn, its failure included, hides it.                     *)
OriginalFailureKept ==
  answer \in Results /\ original \in Codes /\ ~cut => answer = original

(* vergerail_upagent_provider answers, whatever call of its client hangs.   *)
ProviderAnswers == program # "ifsc" /\ at # "idle" ~> at = "done"
=============================================================================
