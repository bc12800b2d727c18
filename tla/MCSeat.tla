------------------------------- MODULE MCSeat -------------------------------
EXTENDS Seat
CONSTANTS t1, t2, p1, l1, l2, n1, u1
OneParent == p1 :> t1 @@ u1 :> t1
NoParents == [p \in {} |-> t1]
OneOutput == [l \in Layers |-> 1]
Apart == l1 :> 1 @@ l2 :> 2

(* Without popups and subsurfaces nothing tells the toplevels apart. *)
Alike == Permutations({t1, t2})

(* What the next steps depend on: all but whom the last key was sent to.   *)
Standing == <<focusVars, pointerVars, heldVars>>
=============================================================================
