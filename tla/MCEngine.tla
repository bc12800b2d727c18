------------------------------ MODULE MCEngine ------------------------------
EXTENDS Engine

(* Nothing, one word, or two words of different lengths. *)
SomeFindings ==
  {<<>>, <<<<"word">>>>, <<<<"word", "word">>, <<"word">>>>}
=============================================================================
