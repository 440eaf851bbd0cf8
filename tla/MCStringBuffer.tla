--------------------------- MODULE MCStringBuffer ---------------------------
(***************************************************************************)
(* Strings for TLC: with the six bytes of a page, strings that overlap one   *)
(* another, the longest admissible length (4) and one beyond it.            *)
(***************************************************************************)
EXTENDS StringBuffer

CONSTANTS chA, chB

MCTexts ==
  {<<>>, <<chA>>, <<chB>>, <<chA, chB>>, <<chA, chB, chA>>,
   <<chA, chA, chB, chB>>, <<chA, chB, chA, chB, chA>>}
=============================================================================
