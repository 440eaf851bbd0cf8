------------------------------ MODULE MCLoader ------------------------------
(***************************************************************************)
(* Files for TLC: every check of the loader passes and fails, with indexes    *)
(* at and one past the end of a section's entries and of its bytes.          *)
(***************************************************************************)
EXTENDS Loader

CONSTANTS x, al1, al2

UpTo1(S) == {<<>>} \cup {<<e>> : e \in S}

MCStatement == [op : {0, 2}]
MCDef ==
  [type : {0}, nameIdx : {0, 2}, globalIdx : {0, 1, 4}] \cup
  {[type |-> 32768, nameIdx |-> 0, globalIdx |-> 0]}
MCField ==
  [type : {0}, nameIdx : {0, 2}, offset : {0, 4}] \cup
  {[type |-> 2, nameIdx |-> 0, offset |-> 0]}
MCFunction ==
  [nameIdx : {0}, entryPoint : {-1, 0, 1, 16}, fileIdx : {0}, numArgs : {0}] \cup
  {[nameIdx |-> -1, entryPoint |-> 0, fileIdx |-> 0, numArgs |-> 1],
   [nameIdx |-> 0, entryPoint |-> 0, fileIdx |-> 2, numArgs |-> 1]}

MCTwoFunctions ==
  {<<[nameIdx |-> 0, entryPoint |-> 0, fileIdx |-> 0, numArgs |-> 0], fn>> :
     fn \in MCFunction}

MCFiles ==
  [ver : {5, 6},
   strBuf : {<<>>, <<x, NUL>>},
   globals : {<<>>, <<0>>},
   stmts : UpTo1(MCStatement),
   defs : UpTo1(MCDef),
   fields : UpTo1(MCField),
   fns : UpTo1(MCFunction) \cup MCTwoFunctions]
=============================================================================
