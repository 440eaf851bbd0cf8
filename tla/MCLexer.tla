------------------------------- MODULE MCLexer -------------------------------
(***************************************************************************)
(* One character or two of every class that the lexer tells apart, in all     *)
(* sources of up to MaxLen, and longer sources of what strings are made of.  *)
(***************************************************************************)
EXTENDS Lexer, SequencesExt

CONSTANTS MaxLen, MaxStrLen

MCisalpha == {"a", "x"}
MCisdigit == {"0", "1"}
MCisxdigit == {"a", "0", "1"}
MCisblank == {" "}
MCChar ==
  {"a", "x", "0", "1", " ", "_", ".", "\"", "\\", "\n", "+", ",", "#", "(", "@"}

MCStrChar == {"\"", "\\", "\n", "a"}

MCSources == BoundedSeq(MCChar, MaxLen) \cup BoundedSeq(MCStrChar, MaxStrLen)
=============================================================================
