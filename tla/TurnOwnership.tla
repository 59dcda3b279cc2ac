--------------------------- MODULE TurnOwnership ---------------------------
(***************************************************************************)
(* What a session promises about the turns of one thread, without routes,  *)
(* replays, interrupts or connections: the turns are claimed one after     *)
(* another, at most one is owned at a time, and a turn's outcome, if it    *)
(* gets one, is settled once, by giving up the ownership.                  *)
(***************************************************************************)
EXTENDS Naturals

CONSTANT MaxRuns    \* turns started on the thread (bound)

VARIABLES
  claimed,          \* how many turns have been claimed
  owner,            \* the turn that is owned, 0 if none
  outcome           \* per turn: its settled outcome

ownershipVars == <<claimed, owner, outcome>>

Init ==
  /\ claimed = 0
  /\ owner = 0
  /\ outcome = [r \in 1..MaxRuns |-> "none"]

(* Session::start registers a run.                                         *)
Claim ==
  /\ owner = 0
  /\ claimed < MaxRuns
  /\ claimed' = claimed + 1
  /\ owner' = claimed + 1
  /\ UNCHANGED outcome

(* The turn ends, by the app-server or by the connection, with an outcome. *)
Settle ==
  /\ owner # 0
  /\ owner' = 0
  /\ \E o \in {"ok", "error"} : outcome' = [outcome EXCEPT ![owner] = o]
  /\ UNCHANGED claimed

(* The start is given up before anyone holds a handle to the turn.         *)
Forfeit ==
  /\ owner # 0
  /\ owner' = 0
  /\ UNCHANGED <<claimed, outcome>>

Next == Claim \/ Settle \/ Forfeit

Spec == Init /\ [][Next]_ownershipVars
=============================================================================
