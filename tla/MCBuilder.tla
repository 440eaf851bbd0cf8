------------------------------ MODULE MCBuilder ------------------------------
(***************************************************************************)
(* Entries for TLC.  Every check has an argument that passes it and one that *)
(* fails, and names, globals and entry points come one past the end of what  *)
(* the first adds provide, so that the order of the adds decides.            *)
(***************************************************************************)
EXTENDS Builder, TLC

CONSTANTS t1, t2, x

Symmetry == Permutations({t1, t2})

\* The bit of a global definition in a type code (BYTECODE.md:49).
GlobalBit == 32768

MCEntries ==
  [stmts   |-> {[op |-> 0], [op |-> 2]},
   defs    |-> {[nameIdx |-> 0, type |-> 0, globalIdx |-> 0],
                [nameIdx |-> 2, type |-> 1, globalIdx |-> 0],
                [nameIdx |-> 0, type |-> 2, globalIdx |-> 0],
                [nameIdx |-> 0, type |-> GlobalBit, globalIdx |-> 0]},
   fields  |-> {[nameIdx |-> 0, type |-> 0], [nameIdx |-> 2, type |-> 2]},
   fns     |-> {[nameIdx |-> 0, entryPoint |-> 0, numArgs |-> 1],
                [nameIdx |-> 0, entryPoint |-> 1, numArgs |-> 0],
                [nameIdx |-> 0, entryPoint |-> -1, numArgs |-> 1],
                [nameIdx |-> -1, entryPoint |-> 0, numArgs |-> 1],
                [nameIdx |-> 0, entryPoint |-> 0, numArgs |-> 2]},
   globals |-> {0},
   strBuf  |-> {<<>>, <<x, NUL>>, <<x>>}]

MCMaxLen ==
  [stmts |-> 2, defs |-> 1, fields |-> 1, fns |-> 2, globals |-> 1, strBuf |-> 4]

\* Fewer entries and shorter sections for emits that race with adds.
MCSmallMaxLen ==
  [stmts |-> 1, defs |-> 1, fields |-> 1, fns |-> 1, globals |-> 1, strBuf |-> 2]

MCSmallEntries ==
  [MCEntries EXCEPT
     !.defs = {[nameIdx |-> 0, type |-> 0, globalIdx |-> 0]},
     !.fields = {[nameIdx |-> 0, type |-> 0]},
     !.fns = {[nameIdx |-> 0, entryPoint |-> 0, numArgs |-> 1]}]
=============================================================================
