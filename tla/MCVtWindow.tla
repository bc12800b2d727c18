----------------------------- MODULE MCVtWindow -----------------------------
EXTENDS VtWindow

(* The state, with a row that is not valid and does not happen to look     *)
(* right taken for one nothing was drawn in.  No action reads its pixels   *)
(* but to move them; if one took it for valid, it would still look wrong.  *)
Drawn ==
  <<t, position, valid,
    [k \in View |-> IF k \in valid \/ shown[k] = Look(k) THEN shown[k] ELSE Nothing],
    focused, preedit, reading, controls, astray>>
=============================================================================
