-------------------------------- MODULE MCVM --------------------------------
(***************************************************************************)
(* Two default builtins, which write strings; a builtin of a caller, and    *)
(* one of too many parameters; and bytecodes that define a name           *)
(* twice, link a builtin, link one that is missing, has another count or     *)
(* other sizes, and define globals.                                         *)
(***************************************************************************)
EXTENDS VM

CONSTANTS chA, chB, sp, linking, doubled, sized, missing

MCNative(ret, params, code) ==
  [name |-> NoName, ret |-> ret, params |-> params, code |-> code]

MCDefaults ==
  <<[index |-> 1, name |-> <<chA, chA>>,
     native |-> MCNative("float", <<"float">>, "ftos")],
    [index |-> 2, name |-> <<chB>>,
     native |-> MCNative("float", <<"vector">>, "vtos")]>>

MCNatives ==
  {MCNative("float", <<"float">>, "pure"),
   MCNative("void", <<"float", "float">>, "pure")}

MCFn(name, entry, sizes) == [name |-> name, entry |-> entry, sizes |-> sizes]
MCDef(name, global, val) == [name |-> name, global |-> global, val |-> val]

MCFns ==
  [i \in Images |->
    CASE i = linking -> <<MCFn(<<chB>>, -1, <<1>>), MCFn(<<>>, 0, <<>>)>>
      [] i = doubled -> <<MCFn(<<chB>>, 0, <<1>>), MCFn(<<chB>>, 1, <<>>)>>
      [] i = sized   -> <<MCFn(<<chA>>, 0, <<>>), MCFn(<<chB>>, -2, <<1>>)>>
      [] i = missing -> <<MCFn(<<chA>>, 0, <<>>), MCFn(<<chB>>, -2, <<1, 1>>)>>]

MCDefs ==
  [i \in Images |->
    CASE i = linking -> <<MCDef(<<chA>>, TRUE, 1), MCDef(<<chB>>, FALSE, 1)>>
      [] i = doubled -> <<MCDef(<<chA>>, TRUE, 2), MCDef(<<chA>>, TRUE, 3)>>
      [] OTHER -> <<>>]

MCNumbers == {<<chA>>}
=============================================================================
