------------------------------ MODULE MCWindow ------------------------------
(***************************************************************************)
(* Window with two outputs, beside each other.                             *)
(***************************************************************************)
EXTENDS Window

MCOutputs == {[x |-> 0, width |-> 7], [x |-> 7, width |-> 9]}
=============================================================================
