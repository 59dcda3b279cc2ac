---------------------------- MODULE ScreenProgram ----------------------------
(***************************************************************************)
(* The check of a generated screen by the ifsc provider: validate_nodes    *)
(* and parse_bounds of ifsc_text_provider.rs.  A model may answer with any *)
(* nodes, in any order, with any parents; what passes the check is         *)
(* answered to the caller, who renders it.                                 *)
(*                                                                         *)
(* One dimension stands for both, whole numbers for the finite floats.     *)
(* The other refusals of a node or of the program, which depend on no      *)
(* other node, are one choice.                                             *)
(***************************************************************************)
EXTENDS Integers, FiniteSets

CONSTANTS
  Ids,          \* the ids the nodes may have
  Viewport      \* output.width

ASSUME ViewportAssumption == Viewport \in Nat \ {0}

VARIABLES
  byId,         \* by_id: the nodes seen so far
  screen        \* reading, accepted or refused

screenVars == <<byId, screen>>

NoParent == "none"

(* parent_id is an Option: no id says that there is no parent.              *)
ASSUME NoParentAssumption == NoParent \notin Ids

(* Bounds as they are after parse_bounds: the width is positive.            *)
ScreenNodes ==
  [parent : Ids \cup {NoParent}, x : -1 .. Viewport - 1, width : 1 .. Viewport]

ScreenInit == byId = <<>> /\ screen = "reading"

-----------------------------------------------------------------------------
(* The loop over the nodes.                                                 *)
AddNode(id, node) ==
  /\ screen = "reading" /\ id \notin DOMAIN byId
  /\ byId' = [i \in DOMAIN byId \cup {id} |-> IF i = id THEN node ELSE byId[i]]
  /\ UNCHANGED screen

(* A second node with an id, bounds that are not positive, any refusal that *)
(* is about one node alone.                                                 *)
RefuseNode == screen = "reading" /\ screen' = "refused" /\ UNCHANGED byId

(* The roots and what the root covers.                                      *)
TopNodes == {id \in DOMAIN byId : byId[id].parent = NoParent}

RootCovers ==
  /\ Cardinality(TopNodes) = 1
  /\ \A root \in TopNodes : byId[root].x = 0 /\ byId[root].width = Viewport

\* Mutant: a node is compared with the viewport, not with its parent.
InsideViewport(id) ==
  LET node == byId[id]
  IN  node.parent # NoParent =>
        /\ node.parent \in DOMAIN byId
        /\ node.x >= 0
        /\ node.x + node.width <= Viewport

InsideParent(id) ==
  LET node == byId[id]
  IN  node.parent # NoParent =>
        /\ node.parent \in DOMAIN byId
        /\ node.x >= 0
        /\ node.x + node.width <= byId[node.parent].width

(* The walk towards the root: where it is after n of its steps.  It is a    *)
(* cycle when it has taken as many as there are nodes and goes on.          *)
Walk(id) ==
  LET at[n \in 0 .. Cardinality(DOMAIN byId)] ==
        IF n = 0 THEN id
        ELSE IF at[n - 1] \in DOMAIN byId THEN byId[at[n - 1]].parent ELSE NoParent
  IN  at
InCycle(id) == Walk(id)[Cardinality(DOMAIN byId)] # NoParent

(* After the nodes: the other demands of the program (its required elements *)
(* and its copy) may refuse it still.                                       *)
CheckNodes ==
  /\ screen = "reading" /\ byId # <<>>
  /\ IF RootCovers /\ \A id \in DOMAIN byId : InsideParent(id) /\ ~InCycle(id)
     THEN screen' \in {"accepted", "refused"}
     ELSE screen' = "refused"
  /\ UNCHANGED byId

ScreenNext ==
  \/ \E id \in Ids, node \in ScreenNodes : AddNode(id, node)
  \/ RefuseNode
  \/ CheckNodes

-----------------------------------------------------------------------------
(* Where a node is on the screen: its x and those of its ancestors.         *)
PlaceUpTo(id) ==
  LET x[n \in 0 .. Cardinality(DOMAIN byId)] ==
        IF n = 0 THEN byId[id].x
        ELSE x[n - 1] + IF Walk(id)[n] \in DOMAIN byId THEN byId[Walk(id)[n]].x ELSE 0
  IN  x
Place(id) == PlaceUpTo(id)[Cardinality(DOMAIN byId)]

(* Every set of nodes that has the root and the children of its members.    *)
HangsFrom(root) ==
  \A S \in SUBSET DOMAIN byId :
    root \in S /\ (\A id \in DOMAIN byId : byId[id].parent \in S => id \in S) =>
      S = DOMAIN byId

(* An accepted screen hangs together under one root, and every node of it,  *)
(* its place counted from the root, lies within the viewport.               *)
AcceptedFits ==
  screen = "accepted" =>
    /\ \A id \in DOMAIN byId \ TopNodes : byId[id].parent \in DOMAIN byId
    /\ \E root \in TopNodes : HangsFrom(root)
    /\ \A id \in DOMAIN byId :
         Place(id) >= 0 /\ Place(id) + byId[id].width <= Viewport

ScreenSpec == ScreenInit /\ [][ScreenNext]_screenVars
=============================================================================
