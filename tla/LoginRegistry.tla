---------------------------- MODULE LoginRegistry ----------------------------
(***************************************************************************)
(* Managed logins: LoginRegistry (account.rs), the caller's login, wait,   *)
(* cancel and drop (client.rs, account.rs), the router's completion and    *)
(* disconnect's fail_active.                                               *)
(*                                                                         *)
(* A section of the registry's mutex is one step.  Results are sent to the *)
(* waiters after the section that takes them out of the map.               *)
(***************************************************************************)
EXTENDS Naturals, Sequences, FiniteSets, Queues, Connection

CONSTANTS
  Logins,          \* login ids
  Waits,           \* calls of Login::wait
  EarlyCapacity    \* EARLY_LOGIN_COMPLETION_CAPACITY

ASSUME EarlyCapacityAssumption == EarlyCapacity \in Nat \ {0}

VARIABLES
  handle,      \* per login: its start and its Login handle
  terminal,    \* per login: LoginEntry::terminal (kept after the release)
  cancel,      \* per login: its cancel request
  announced,   \* logins whose completion the router has read
  cached,      \* early_completed: per login a result or "none"
  order,       \* early_order
  evicted,     \* logins whose early result was pushed out (history)
  wait,        \* per call: idle, waiting, done or dropped
  on,          \* per call: its login, or "none"
  sender,      \* per call: its sender is nowhere, listed, taken or has sent
  answer,      \* per call: what a taken sender sends
  got          \* per call: what it returned

earlyVars == <<cached, order, evicted>>
waitVars  == <<wait, on, sender, answer, got>>
loginVars == <<handle, terminal, cancel, announced, earlyVars, waitVars>>

Results == {"ok", "failed", "canceled", "disconnected"}

LoginInit ==
  /\ handle = [l \in Logins |-> "none"]
  /\ terminal = [l \in Logins |-> "none"]
  /\ cancel = [l \in Logins |-> "none"]
  /\ announced = {}
  /\ cached = [l \in Logins |-> "none"]
  /\ order = <<>>
  /\ evicted = {}
  /\ wait = [w \in Waits |-> "idle"]
  /\ on = [w \in Waits |-> "none"]
  /\ sender = [w \in Waits |-> "none"]
  /\ answer = [w \in Waits |-> "none"]
  /\ got = [w \in Waits |-> "none"]

Active(l) == handle[l] \in {"registered", "held"}
Listed(w, l) == sender[w] = "listed" /\ on[w] = l

-----------------------------------------------------------------------------
(* The sections of the registry.                                           *)

(* The waiters of a set of calls are taken out of the map.                 *)
Take(W, result) ==
  /\ sender' = [w \in Waits |-> IF w \in W THEN "taken" ELSE sender[w]]
  /\ answer' = [w \in Waits |-> IF w \in W THEN result ELSE answer[w]]
  /\ UNCHANGED <<wait, on, got>>

NotQueued(l) == Without(order, l)

(* cache_early_login_result, for a login without an entry.                 *)
CacheEarly(l, result) ==
  LET full == Cardinality({m \in Logins : cached[m] # "none"}) >= EarlyCapacity
                /\ order # <<>>
      out  == IF full THEN {Head(order)} ELSE {}
  IN IF cached[l] # "none"
     THEN UNCHANGED earlyVars
     ELSE /\ cached' = [m \in Logins |-> IF m = l THEN result
                                         ELSE IF m \in out THEN "none"
                                         ELSE cached[m]]
          /\ order' = Append(IF full THEN Tail(order) ELSE order, l)
          /\ evicted' = evicted \cup out

\* Mutant: the last result wins.
CompleteLast(l, result) ==
  IF Active(l)
  THEN /\ terminal' = [terminal EXCEPT ![l] = result]
       /\ Take({w \in Waits : Listed(w, l)}, result)
       /\ UNCHANGED earlyVars
  ELSE CacheEarly(l, result) /\ UNCHANGED <<terminal, waitVars>>

(* complete.                                                               *)
Complete(l, result) ==
  IF ~Active(l)
  THEN CacheEarly(l, result) /\ UNCHANGED <<terminal, waitVars>>
  ELSE /\ IF terminal[l] # "none"
          THEN UNCHANGED <<terminal, waitVars>>
          ELSE /\ terminal' = [terminal EXCEPT ![l] = result]
               /\ Take({w \in Waits : Listed(w, l)}, result)
       /\ UNCHANGED earlyVars

-----------------------------------------------------------------------------
(* ClientInner::login and register_login.                                  *)

StartLogin(l) ==
  /\ handle[l] = "none"
  /\ ~IsDisconnected
  /\ handle' = [handle EXCEPT ![l] = "starting"]
  /\ UNCHANGED <<link, terminal, cancel, announced, earlyVars, waitVars>>

(* The answer of login/start is handed to the caller; the router may read  *)
(* on before the caller does.                                              *)
AnswerStart(l) ==
  /\ handle[l] = "starting"
  /\ link # "cut"
  /\ handle' = [handle EXCEPT ![l] = "answered"]
  /\ UNCHANGED <<link, terminal, cancel, announced, earlyVars, waitVars>>

(* The request fails, or its caller is dropped.                            *)
StartFails(l) ==
  /\ handle[l] \in {"starting", "answered"}
  /\ handle' = [handle EXCEPT ![l] = "failed"]
  /\ UNCHANGED <<link, terminal, cancel, announced, earlyVars, waitVars>>

Promote(l) ==
  /\ cached' = [cached EXCEPT ![l] = "none"]
  /\ order' = NotQueued(l)
Promoted(l) == cached[l]

(* register: an early result becomes the terminal one.                     *)
Register(l) ==
  /\ handle[l] = "answered"
  /\ handle' = [handle EXCEPT ![l] = "registered"]
  /\ terminal' = [terminal EXCEPT ![l] = Promoted(l)]
  /\ Promote(l)
  /\ UNCHANGED <<link, cancel, announced, evicted, waitVars>>

\* Mutant: a login registered after the disconnect is handed out as it is.
FailIfDisconnectedNever(l) == UNCHANGED <<terminal, earlyVars, waitVars>>
FailIfDisconnected(l) ==
  IF IsDisconnected
  THEN Complete(l, "disconnected")
  ELSE UNCHANGED <<terminal, earlyVars, waitVars>>

(* The rest of register_login, before the handle is returned.              *)
CheckRegistered(l) ==
  /\ handle[l] = "registered"
  /\ handle' = [handle EXCEPT ![l] = "held"]
  /\ FailIfDisconnected(l)
  /\ UNCHANGED <<link, cancel, announced>>

(* Login's drop: nothing may borrow the handle any more.                   *)
Release(l) ==
  /\ handle[l] = "held"
  /\ cancel[l] # "sent"
  /\ \A w \in Waits : wait[w] = "waiting" => on[w] # l
  /\ handle' = [handle EXCEPT ![l] = "dropped"]
  /\ Promote(l)
  /\ UNCHANGED <<link, terminal, cancel, announced, evicted, waitVars>>

-----------------------------------------------------------------------------
(* cancel_login: canceled and notFound complete the login, errors do not.  *)

CancelLogin(l) ==
  /\ handle[l] = "held"
  /\ cancel[l] = "none"
  /\ ~IsDisconnected
  /\ cancel' = [cancel EXCEPT ![l] = "sent"]
  /\ UNCHANGED <<link, handle, terminal, announced, earlyVars, waitVars>>

CancelAnswered(l) ==
  /\ cancel[l] = "sent"
  /\ cancel' = [cancel EXCEPT ![l] = "done"]
  /\ \/ link # "cut" /\ Complete(l, "canceled")
     \/ UNCHANGED <<terminal, earlyVars, waitVars>>
  /\ UNCHANGED <<link, handle, announced>>

(* handle_login_completed: the app-server announces a login it has started *)
(* once; what the router has queued it reads after a disconnect, too.      *)
RouteCompletion(l) ==
  /\ handle[l] # "none"
  /\ l \notin announced
  /\ announced' = announced \cup {l}
  /\ \E result \in {"ok", "failed"} : Complete(l, result)
  /\ UNCHANGED <<link, handle, cancel>>

-----------------------------------------------------------------------------
(* wait_login and its guard.                                               *)

Wait(w, l) ==
  /\ wait[w] = "idle"
  /\ handle[l] = "held"
  /\ on' = [on EXCEPT ![w] = l]
  /\ IF terminal[l] # "none"
     THEN /\ wait' = [wait EXCEPT ![w] = "done"]
          /\ got' = [got EXCEPT ![w] = terminal[l]]
          /\ UNCHANGED sender
     ELSE /\ wait' = [wait EXCEPT ![w] = "waiting"]
          /\ sender' = [sender EXCEPT ![w] = "listed"]
          /\ UNCHANGED got
  /\ UNCHANGED <<link, handle, terminal, cancel, announced, earlyVars, answer>>

Send(w) ==
  /\ sender[w] = "taken"
  /\ sender' = [sender EXCEPT ![w] = "sent"]
  /\ UNCHANGED <<link, handle, terminal, cancel, announced, earlyVars, wait,
                 on, answer, got>>

Receive(w) ==
  /\ wait[w] = "waiting"
  /\ sender[w] = "sent"
  /\ wait' = [wait EXCEPT ![w] = "done"]
  /\ got' = [got EXCEPT ![w] = answer[w]]
  /\ UNCHANGED <<link, handle, terminal, cancel, announced, earlyVars, on,
                 sender, answer>>

(* login_timeout elapses, or the caller drops the call: the guard takes    *)
(* the sender out if it is still listed.                                   *)
LeaveWait(w) ==
  /\ wait[w] = "waiting"
  /\ sender[w] # "sent"
  /\ \/ wait' = [wait EXCEPT ![w] = "done"] /\ got' = [got EXCEPT ![w] = "timeout"]
     \/ wait' = [wait EXCEPT ![w] = "dropped"] /\ UNCHANGED got
  /\ sender' = [sender EXCEPT ![w] = IF @ = "listed" THEN "none" ELSE @]
  /\ UNCHANGED <<link, handle, terminal, cancel, announced, earlyVars, on,
                 answer>>

-----------------------------------------------------------------------------
Disconnect == BeginDisconnect /\ UNCHANGED loginVars

FailedWaits == {w \in Waits : sender[w] = "listed"}

(* disconnect's last step: fail_active.                                    *)
FailActive ==
  /\ link = "cutting"
  /\ link' = "cut"
  /\ terminal' = [l \in Logins |-> IF Active(l) /\ terminal[l] = "none"
                                   THEN "disconnected" ELSE terminal[l]]
  /\ Take(FailedWaits, "disconnected")
  /\ UNCHANGED <<handle, cancel, announced, earlyVars>>

LoginNext ==
  \/ Disconnect \/ FailActive
  \/ \E l \in Logins :
       \/ StartLogin(l) \/ AnswerStart(l) \/ StartFails(l) \/ Register(l)
       \/ CheckRegistered(l) \/ Release(l) \/ CancelLogin(l)
       \/ CancelAnswered(l) \/ RouteCompletion(l)
  \/ \E w \in Waits :
       (\E l \in Logins : Wait(w, l)) \/ Send(w) \/ Receive(w) \/ LeaveWait(w)

LoginSpec == LinkInit /\ LoginInit /\ [][LoginNext]_<<link, loginVars>>

-----------------------------------------------------------------------------
(* Type invariant; the cache holds what its queue lists, once, and no more *)
(* than its capacity (two collections kept in step by four sections).      *)
LoginTypeOK ==
  /\ LinkType
  /\ handle \in [Logins -> {"none", "starting", "answered", "failed",
                            "registered", "held", "dropped"}]
  /\ terminal \in [Logins -> Results \cup {"none"}]
  /\ cancel \in [Logins -> {"none", "sent", "done"}]
  /\ announced \subseteq Logins
  /\ cached \in [Logins -> Results \cup {"none"}]
  /\ order \in Seq(Logins)
  /\ evicted \subseteq Logins
  /\ wait \in [Waits -> {"idle", "waiting", "done", "dropped"}]
  /\ on \in [Waits -> Logins \cup {"none"}]
  /\ sender \in [Waits -> {"none", "listed", "taken", "sent"}]
  /\ answer \in [Waits -> Results \cup {"none"}]
  /\ got \in [Waits -> Results \cup {"none", "timeout"}]
  /\ Len(order) <= EarlyCapacity
  /\ \A l \in Logins :
       Cardinality({i \in DOMAIN order : order[i] = l})
         = IF cached[l] = "none" THEN 0 ELSE 1

(* Everyone who asks for the outcome of a login hears the same, however    *)
(* completion, cancellation and disconnect race (PROTOCOL_CONTRACT.md:120, *)
(* the first terminal result is the only one).                             *)
OneLoginOutcome ==
  \A w \in Waits : got[w] \in Results => got[w] = terminal[on[w]]

(* A completion that is read before the answer of login/start reaches its  *)
(* handle, unless the cache was full of others (the early-completion       *)
(* buffer of PROTOCOL_CONTRACT.md:124).                                    *)
EarlyResultKept ==
  \A l \in announced \ evicted : Active(l) => terminal[l] # "none"

(* The first terminal result of a login is its only one and is not lost,   *)
(* and the collections that carry it stay in step.                         *)
LoginInvariant == LoginTypeOK /\ OneLoginOutcome /\ EarlyResultKept

(* After a disconnect no handle is without an outcome and nobody waits for *)
(* anything but a result that is on its way, not even a caller that        *)
(* registered while the connection went down (PROTOCOL_CONTRACT.md:127).   *)
NoLoginLeft ==
  link = "cut" =>
    /\ \A l \in Logins : handle[l] = "held" => terminal[l] # "none"
    /\ \A w \in Waits : sender[w] # "listed"
=============================================================================
