------------------------------ MODULE ByteCode ------------------------------
(***************************************************************************)
(* The sections of a QC_ByteCode (src/src/bytecode.cpp), what it means for   *)
(* them to be closed under their own references, and the conversions the     *)
(* checks on them go through.                                                *)
(***************************************************************************)
EXTENDS Integers, Sequences

CONSTANTS
  NUL,        \* the char '\0'
  Char,       \* the values of a char in the string section
  TypeCount,  \* QC_BYTECODE_TYPE_COUNT
  OpCount,    \* QC_OP_COUNT
  MaxArgs,    \* 8, the arguments a function can have
  SizeMod     \* the values of a size_t are 0 .. SizeMod - 1

ASSUME ByteCodeAssumption ==
  /\ NUL \in Char
  /\ {TypeCount, OpCount, MaxArgs, SizeMod} \subseteq Nat

\* Mutants.
CopyOrderShort == <<"stmts", "defs", "fields", "fns", "globals">>
SignedAsSize(n) == n
AddedAsOne(bc, s, e) == [bc EXCEPT ![s] = Append(@, e)]

\* The members of QC_ByteCode that are copied and moved, in their order.
CopyOrder == <<"stmts", "defs", "fields", "fns", "globals", "strBuf">>
Sections == {"stmts", "defs", "fields", "fns", "globals", "strBuf"}

Empty == [s \in Sections |-> <<>>]

\* An int that is compared with a size_t is converted to one.
AsSize(n) == IF n < 0 THEN SizeMod + n ELSE n

\* vector::emplace_back, or insert for the characters of a string.
Added(bc, s, e) ==
  [bc EXCEPT ![s] = IF s = "strBuf" THEN @ \o e ELSE Append(@, e)]

\* The index a call that adds to a section returns.
NextIndex(bc, s) == Len(bc[s])

-----------------------------------------------------------------------------
(***************************************************************************)
(* What a bytecode must satisfy to be loaded: every name, every global and   *)
(* every entry point resolves, and every name ends inside the strings.       *)
(***************************************************************************)
NameResolves(bc, n) ==
  \E k \in 1 .. Len(bc.strBuf) : 0 <= n /\ n < k /\ bc.strBuf[k] = NUL

DefClosed(bc, def) ==
  /\ NameResolves(bc, def.nameIdx)
  /\ def.globalIdx \in 0 .. Len(bc.globals) - 1

FieldClosed(bc, field) == NameResolves(bc, field.nameIdx)

FnClosed(bc, fn) ==
  /\ NameResolves(bc, fn.nameIdx)
  /\ fn.entryPoint < Len(bc.stmts)
  /\ fn.numArgs <= MaxArgs

Closed(bc) ==
  /\ \A i \in 1 .. Len(bc.defs) : DefClosed(bc, bc.defs[i])
  /\ \A i \in 1 .. Len(bc.fields) : FieldClosed(bc, bc.fields[i])
  /\ \A i \in 1 .. Len(bc.fns) : FnClosed(bc, bc.fns[i])
=============================================================================
