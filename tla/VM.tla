--------------------------------- MODULE VM ---------------------------------
(***************************************************************************)
(* A QC_VM (src/src/vm.cpp): the tables of its builtins, functions and       *)
(* globals, and the QC_StringBuffer it names its functions in, of which      *)
(* StringPages is the model.                                                *)
(*                                                                          *)
(* The calls that go through a table row by row, resetting the builtins and  *)
(* loading a bytecode, take one step for each row, so that what one of them  *)
(* did before it failed is a state of its own; no other call is made on the  *)
(* VM meanwhile.  A name a table is keyed with is a copy of the characters,  *)
(* while the name stored in a function is a handle of the string buffer.     *)
(* A caller that got a builtin has a copy of it, which no call on the VM      *)
(* touches, its destruction included, and which may be set on a VM created    *)
(* later.                                                                   *)
(***************************************************************************)
EXTENDS StringPages, Integers

CONSTANTS
  Defaults,   \* qcvm_defaultBuiltinsInfo: index, name, types and code
  Natives,    \* the native functions callers make
  Indexes,    \* the builtin indexes callers use
  MaxParams,  \* 8, the parameters a function can have
  Images,     \* the bytecodes callers load
  Fns, Defs,  \* for each of them, its functions and its definitions
  Numbers,    \* what ftos writes
  Space,      \* the char ' ', between the numbers vtos writes
  MaxLoads,   \* bound: the bytecodes loaded
  NoStore,    \* the string buffer could not be allocated
  NoCall,     \* no call is going on
  NoLoad,     \* the latest call was no load
  NoFn        \* the caller holds no copy of a builtin

\* Types by what is told apart: those of one slot, the vector, void, those
\* without a size yet, and codes beyond QC_BYTECODE_TYPE_COUNT.
Type == {"void", "float", "vector", "variant", "beyond"}

\* UINT32_MAX, to which a size of -1 in a bytecode converts.
Unsized == -1

qcByteCodeTypeSize(type) ==
  CASE type = "void" -> 0
    [] type = "float" -> 1
    [] type = "vector" -> 3
    [] OTHER -> Unsized

Codes == {"ftos", "vtos", "pure"}
NoName == HandleAt(0, 0)
Native == [name : Handle \cup {NoString}, ret : Type, params : Seq(Type),
           code : Codes]

\* A function of a bytecode has an entry point or, negated, the index of a
\* builtin, and the sizes of its arguments.  Of a definition only whether it is
\* a global, its name and its value matter.
FnEntry == [name : Text, entry : Int, sizes : Seq(Int)]
DefEntry == [name : Text, global : BOOLEAN, val : Nat]

\* Names are C strings, and a default builtin takes one parameter
\* (builtins.cpp:10-18).
ASSUME VMAssumption ==
  /\ Defaults \in Seq([index : Nat, name : Seq(Byte \ {NUL}), native : Native])
  /\ \A i \in 1 .. Len(Defaults) : Len(Defaults[i].native.params) <= MaxParams
  /\ \A fn \in Natives : fn \in Native /\ fn.name = NoName
  /\ Indexes \subseteq Nat
  /\ {MaxParams, MaxLoads} \subseteq Nat
  /\ \A b \in Images :
       /\ Fns[b] \in Seq(FnEntry) /\ Defs[b] \in Seq(DefEntry)
       /\ \A i \in 1 .. Len(Fns[b]) : Fns[b][i].name \in Seq(Byte \ {NUL})
       /\ \A i \in 1 .. Len(Defs[b]) : Defs[b][i].name \in Seq(Byte \ {NUL})
  /\ Numbers \subseteq Seq(Byte \ {NUL})
  /\ Space \in Byte \ {NUL}

\* No buffer is no buffer of strings.
ASSUME NoStoreAssumption ==
  NoStore \notin [bufs : Seq(Page),
                  taken : UNION {[D -> 1 .. PageSize] : D \in SUBSET Handle}]

VARIABLES
  alive,      \* whether there is a VM
  sb,         \* vm->strBuf, or NoStore
  builtins,   \* vm->builtins
  fns,        \* vm->fns, keyed by name
  globals,    \* vm->globals, keyed by name
  loaded,     \* vm->loadedBc
  call,       \* the call that is going on, or NoCall
  held,       \* a copy of a builtin that a caller got, or NoFn
  strange,    \* history: the name, if any, in the copy that a caller had when
              \* the latest VM was destroyed
  outcome     \* history: the latest call if it was a load, or NoLoad

tables == <<sb, builtins, fns, globals, loaded>>
vars == <<alive, tables, call, held, strange, outcome>>

EmptyMap == [k \in {} |-> NoCall]

Assign(map, key, val) ==
  [k \in DOMAIN map \cup {key} |-> IF k = key THEN val ELSE map[k]]

Init ==
  /\ alive = FALSE
  /\ sb = NoStore
  /\ builtins = EmptyMap
  /\ fns = EmptyMap
  /\ globals = EmptyMap
  /\ loaded = <<>>
  /\ call = NoCall
  /\ held = NoFn
  /\ strange = {}
  /\ outcome = NoLoad

Ready == alive /\ call = NoCall

-----------------------------------------------------------------------------
\* Mutants.
EmplacedUnregistered(store, text) ==
  IF store = NoStore THEN Result(store, NoString)
  ELSE LET res == qcStringBufferEmplace(store, text)
       IN  Result([res.sb EXCEPT !.taken = store.taken], res.ret)

ValidNativeUncounted(fn) ==
  fn.ret # "beyond" /\ \A i \in 1 .. Len(fn.params) : fn.params[i] # "beyond"

FillsNew(table, name, override) == name \notin DOMAIN table

ResetFromNothing ==
  /\ Ready
  /\ call' = [op |-> "reset", at |-> 1]
  /\ builtins' = EmptyMap
  /\ outcome' = NoLoad
  /\ UNCHANGED <<alive, sb, fns, globals, loaded, held, strange>>

-----------------------------------------------------------------------------
\* Strings, with the answers of string.cpp when there is no buffer.

Emplaced(store, text) ==
  IF store = NoStore THEN Result(store, NoString)
  ELSE qcStringBufferEmplace(store, text)

Name(store, h) ==
  IF store = NoStore THEN <<>> ELSE Viewed(store, qcString(store, h))

\* A row of the functions: a builtin, or a function of a bytecode.
BuiltinRow(native, index) ==
  [type |-> "builtin", name |-> native.name, native |-> native, index |-> index]
CodeRow(h, b, i) == [type |-> "bytecode", name |-> h, image |-> b, at |-> i]

\* A builtin is set at an index that has none or may be overridden.  One that
\* has a name also becomes the function of what the name reads NOW.
Settable(index, overrideExisting) ==
  index \notin DOMAIN builtins \/ overrideExisting

\* Mutant: the index that newBuiltin was cleared with stays.
SetBuiltinUnindexed(store, index, native) ==
  LET row == BuiltinRow(native, 0)
  IN  /\ builtins' = Assign(builtins, index, row)
      /\ fns' = IF native.name = NoName THEN fns
                ELSE Assign(fns, Name(store, native.name), row)

qcVMSetBuiltin_unsafe(store, index, native) ==
  LET row == BuiltinRow(native, index)
  IN  /\ builtins' = Assign(builtins, index, row)
      /\ fns' = IF native.name = NoName THEN fns
                ELSE Assign(fns, Name(store, native.name), row)

-----------------------------------------------------------------------------
\* Creating and destroying.

StartReset == [op |-> "reset", at |-> 1]

qcCreateVM(createDefaults) ==
  /\ ~ alive
  /\ alive' = TRUE
  /\ sb' \in {qcCreateStringBuffer, NoStore}
  /\ call' = IF createDefaults THEN StartReset ELSE NoCall
  /\ UNCHANGED <<builtins, fns, globals, loaded, held, strange, outcome>>

qcDestroyVM ==
  /\ Ready
  /\ alive' = FALSE
  /\ sb' = NoStore
  /\ builtins' = EmptyMap /\ fns' = EmptyMap /\ globals' = EmptyMap
  /\ loaded' = <<>>
  /\ strange' = {fn.name : fn \in {held} \ {NoFn}} \ {NoString, NoName}
  /\ outcome' = NoLoad
  /\ UNCHANGED <<call, held>>

\* The default builtins, row by row: the name is emplaced and set by handle.
qcVMResetDefaultBuiltins ==
  /\ Ready
  /\ call' = StartReset
  /\ outcome' = NoLoad
  /\ UNCHANGED <<alive, tables, held, strange>>

Resetting == call # NoCall /\ call.op = "reset"

ResetRow ==
  /\ Resetting /\ call.at <= Len(Defaults)
  /\ LET row == Defaults[call.at]
         res == Emplaced(sb, row.name)
     IN  /\ sb' = res.sb
         /\ qcVMSetBuiltin_unsafe(res.sb, row.index,
                                  [row.native EXCEPT !.name = res.ret])
  /\ call' = [call EXCEPT !.at = @ + 1]
  /\ UNCHANGED <<alive, globals, loaded, held, strange, outcome>>

ResetEnd ==
  /\ Resetting /\ call.at > Len(Defaults)
  /\ call' = NoCall
  /\ UNCHANGED <<alive, tables, held, strange, outcome>>

-----------------------------------------------------------------------------
\* Callers set builtins they made, or got from a VM and kept a copy of.

ValidNative(fn) ==
  /\ Len(fn.params) <= MaxParams
  /\ fn.ret # "beyond"
  /\ \A i \in 1 .. Len(fn.params) : fn.params[i] # "beyond"

qcVMSetBuiltin(index, fn, overrideExisting) ==
  /\ Ready
  /\ ValidNative(fn) /\ Settable(index, overrideExisting)
  /\ qcVMSetBuiltin_unsafe(sb, index, fn)
  /\ outcome' = NoLoad
  /\ UNCHANGED <<alive, sb, globals, loaded, call, held, strange>>

qcVMGetBuiltin(index) ==
  /\ Ready
  /\ index \in DOMAIN builtins
  /\ held' = builtins[index].native
  /\ UNCHANGED <<alive, tables, call, strange, outcome>>

\* Executing the function found under a name, with a number of arguments: only
\* a builtin runs.
Runs(row, nArgs) ==
  /\ row.type = "builtin"
  /\ nArgs = Len(row.native.params)
  /\ \A i \in 1 .. nArgs : qcByteCodeTypeSize(row.native.params[i]) \in {1, 3}

qcVMFindFn(name) == name # <<>> /\ name \in DOMAIN fns

ftos(store, number) == Emplaced(store, number)

ViewOf(res) == IF res.sb = NoStore THEN EmptyView ELSE qcString(res.sb, res.ret)
Read(store, view) == IF store = NoStore THEN <<>> ELSE Viewed(store, view)

\* The three numbers are emplaced one after the other, and their views read when
\* all of them are.
vtos(store, x, y, z) ==
  LET atX  == ftos(store, x)
      atY  == ftos(atX.sb, y)
      atZ  == ftos(atY.sb, z)
      read(res) == Read(atZ.sb, ViewOf(res))
  IN  Emplaced(atZ.sb, read(atX) \o <<Space>> \o read(atY) \o <<Space>> \o read(atZ))

\* What a builtin does to the string buffer.
Writes(code) ==
  \/ code = "ftos" /\ \E x \in Numbers : sb' = ftos(sb, x).sb
  \/ code = "vtos" /\ \E x, y, z \in Numbers : sb' = vtos(sb, x, y, z).sb
  \/ code = "pure" /\ UNCHANGED sb

qcVMExec(name, nArgs) ==
  /\ Ready
  /\ qcVMFindFn(name) /\ Runs(fns[name], nArgs)
  /\ Writes(fns[name].native.code)
  /\ outcome' = NoLoad
  /\ UNCHANGED <<alive, builtins, fns, globals, loaded, call, held, strange>>

-----------------------------------------------------------------------------
\* Loading: the functions of the bytecode one after the other, then its global
\* definitions.  "before" is a history of the tables.

qcVMLoadByteCode(b, overrideFns, overrideGlobals) ==
  /\ Ready /\ Len(loaded) < MaxLoads
  /\ call' = [op |-> "load", image |-> b, at |-> 1, overrideFns |-> overrideFns,
              overrideGlobals |-> overrideGlobals,
              before |-> [fns |-> fns, globals |-> globals]]
  /\ outcome' = NoLoad
  /\ UNCHANGED <<alive, tables, held, strange>>

Loading == call # NoCall /\ call.op = "load"
LoadedFns == Fns[call.image]
LoadedDefs == Defs[call.image]
AtFn == Loading /\ call.at <= Len(LoadedFns)
Fn == LoadedFns[call.at]
IsBuiltin(fn) == fn.entry < 0
Linked(fn) == builtins[- fn.entry].native

\* What a function that stands for a builtin is refused for.
Missing == IsBuiltin(Fn) /\ - Fn.entry \notin DOMAIN builtins
WrongCount ==
  /\ IsBuiltin(Fn) /\ ~ Missing
  /\ Len(Fn.sizes) # Len(Linked(Fn).params)
WrongSize ==
  /\ IsBuiltin(Fn) /\ ~ Missing /\ ~ WrongCount
  /\ \E j \in 1 .. Len(Fn.sizes) :
       Fn.sizes[j] # qcByteCodeTypeSize(Linked(Fn).params[j])

Returns(ret) ==
  /\ call' = NoCall
  /\ outcome' = [call |-> call, ret |-> ret]

\* A row is filled when its name is new or rows are overridden; only then is
\* the name of a function emplaced.
Fills(table, name, override) == name \notin DOMAIN table \/ override

LoadFn ==
  /\ AtFn
  /\ ~ Missing /\ ~ WrongCount /\ ~ WrongSize
  /\ LET res == Emplaced(sb, Fn.name)
         row == IF IsBuiltin(Fn)
                THEN BuiltinRow([Linked(Fn) EXCEPT !.name = res.ret], - Fn.entry)
                ELSE CodeRow(res.ret, call.image, call.at)
     IN  IF Fills(fns, Fn.name, call.overrideFns)
         THEN sb' = res.sb /\ fns' = Assign(fns, Fn.name, row)
         ELSE UNCHANGED <<sb, fns>>
  /\ call' = [call EXCEPT !.at = @ + 1]
  /\ UNCHANGED <<alive, builtins, globals, loaded, held, strange, outcome>>

LoadFails ==
  /\ AtFn
  /\ Missing \/ WrongCount
  /\ Returns(FALSE)
  /\ UNCHANGED <<alive, tables, held, strange>>

\* Mutant: the loop over the functions is left, and the load goes on.
LoadStopsAndLoads ==
  /\ AtFn /\ WrongSize
  /\ Returns(TRUE)
  /\ loaded' = Append(loaded, call.image)
  /\ UNCHANGED <<alive, sb, builtins, fns, globals, held, strange>>

\* "return UINT32_MAX" from a function that returns a bool.
LoadStops ==
  /\ AtFn /\ WrongSize
  /\ Returns(TRUE)
  /\ UNCHANGED <<alive, tables, held, strange>>

DefNo == call.at - Len(LoadedFns)
AtDef == Loading /\ DefNo \in 1 .. Len(LoadedDefs)

LoadDef ==
  /\ AtDef
  /\ LET def == LoadedDefs[DefNo]
     IN  globals' = IF def.global /\ Fills(globals, def.name, call.overrideGlobals)
                    THEN Assign(globals, def.name, def.val)
                    ELSE globals
  /\ call' = [call EXCEPT !.at = @ + 1]
  /\ UNCHANGED <<alive, sb, builtins, fns, loaded, held, strange, outcome>>

LoadEnd ==
  /\ Loading /\ DefNo > Len(LoadedDefs)
  /\ loaded' = Append(loaded, call.image)
  /\ Returns(TRUE)
  /\ UNCHANGED <<alive, sb, builtins, fns, globals, held, strange>>

Load == LoadFn \/ LoadFails \/ LoadStops \/ LoadDef \/ LoadEnd

Offered == Natives \cup ({held} \ {NoFn})

Next ==
  \/ \E createDefaults \in BOOLEAN : qcCreateVM(createDefaults)
  \/ qcDestroyVM
  \/ qcVMResetDefaultBuiltins \/ ResetRow \/ ResetEnd
  \/ \E index \in Indexes, fn \in Offered, overrideExisting \in BOOLEAN :
       qcVMSetBuiltin(index, fn, overrideExisting)
  \/ \E index \in Indexes : qcVMGetBuiltin(index)
  \/ \E name \in DOMAIN fns, nArgs \in 0 .. MaxParams : qcVMExec(name, nArgs)
  \/ \E b \in Images, overrideFns, overrideGlobals \in BOOLEAN :
       qcVMLoadByteCode(b, overrideFns, overrideGlobals)
  \/ Load

Spec == Init /\ [][Next]_vars

-----------------------------------------------------------------------------
(***************************************************************************)
(* Properties.                                                              *)
(***************************************************************************)

IsRow(row) ==
  \/ /\ row.type = "builtin" /\ row.native \in Native
     /\ row = BuiltinRow(row.native, row.index)
  \/ /\ row.type = "bytecode" /\ row.image \in Images
     /\ row.at \in 1 .. Len(Fns[row.image])
     /\ row = CodeRow(row.name, row.image, row.at)

TypeOK ==
  /\ alive \in BOOLEAN
  /\ sb # NoStore => IsStringStore(sb)
  /\ DOMAIN builtins \subseteq Nat /\ DOMAIN fns \subseteq Text
  /\ \A i \in DOMAIN builtins : builtins[i] = BuiltinRow(builtins[i].native, i)
  /\ \A n \in DOMAIN fns : IsRow(fns[n])
  /\ DOMAIN globals \subseteq Text /\ globals \in [DOMAIN globals -> Nat]
  /\ loaded \in Seq(Images)
  /\ held \in Native \cup {NoFn} /\ strange \subseteq Handle
  /\ Loading => call.image \in Images /\ call.at \in Nat

\* The handle stored in a function stays taken however much is emplaced and
\* overridden, or says that the name was refused or never given
\* (vm.cpp:281, :520: a handle is read long after it was stored).  A copy of a
\* builtin of a VM destroyed before may bring its name along (vm.cpp:349), which
\* no one checks; nothing else gets a function a name that is not taken.
NamesAreTaken ==
  \A n \in DOMAIN fns :
    \/ fns[n].name \in {NoString, NoName} \cup strange
    \/ sb # NoStore /\ fns[n].name \in DOMAIN sb.taken

\* A builtin that a function stands for is in the table of builtins under the
\* index the function has, and takes as many parameters as a call may pass
\* (vm.cpp:383: argPtrs[8]).
BuiltinsBacked ==
  \A n \in DOMAIN fns :
    fns[n].type = "builtin" =>
      /\ fns[n].index \in DOMAIN builtins
      /\ Len(fns[n].native.params) <= MaxParams

\* Every function and global of every bytecode in loadedBc can be found, also
\* after further loads, resets and runs of ftos (an empty name cannot).
LoadedAreFindable ==
  \A k \in 1 .. Len(loaded) :
    /\ \A i \in 1 .. Len(Fns[loaded[k]]) :
         LET name == Fns[loaded[k]][i].name
         IN  name # <<>> => qcVMFindFn(name)
    /\ \A i \in 1 .. Len(Defs[loaded[k]]) :
         LET def == Defs[loaded[k]][i]
         IN  def.global => def.name \in DOMAIN globals

\* What a load leaves, whether it succeeds, fails or stops half way, said at
\* once: among the functions it got to, the last of each name if functions are
\* overridden, and else the first, if the name had none before; and so for the
\* globals.
Chosen(I, override) ==
  IF override THEN CHOOSE i \in I : \A j \in I : j <= i
  ELSE CHOOSE i \in I : \A j \in I : i <= j

RowOf(bs, b, i, row) ==
  LET fn == Fns[b][i]
  IN  IF IsBuiltin(fn)
      THEN /\ row.type = "builtin" /\ row.index = - fn.entry
           /\ row.native = [bs[- fn.entry].native EXCEPT !.name = row.name]
      ELSE row = CodeRow(row.name, b, i)

FnsDone(c) == {i \in 1 .. Len(Fns[c.image]) : i < c.at}
FnsNamed(c, n) == {i \in FnsDone(c) : Fns[c.image][i].name = n}

FnsFilled(c, fs, bs) ==
  LET old == c.before.fns
  IN  /\ DOMAIN fs = DOMAIN old \cup {Fns[c.image][i].name : i \in FnsDone(c)}
      /\ \A n \in DOMAIN fs :
           IF FnsNamed(c, n) = {} \/ (n \in DOMAIN old /\ ~ c.overrideFns)
           THEN fs[n] = old[n]
           ELSE RowOf(bs, c.image, Chosen(FnsNamed(c, n), c.overrideFns), fs[n])

GlobalsDone(c) ==
  {i \in 1 .. Len(Defs[c.image]) :
     Len(Fns[c.image]) + i < c.at /\ Defs[c.image][i].global}
GlobalsNamed(c, n) == {i \in GlobalsDone(c) : Defs[c.image][i].name = n}

GlobalsFilled(c, gs) ==
  LET old == c.before.globals
  IN  /\ DOMAIN gs = DOMAIN old \cup {Defs[c.image][i].name : i \in GlobalsDone(c)}
      /\ \A n \in DOMAIN gs :
           gs[n] =
             IF GlobalsNamed(c, n) = {} \/ (n \in DOMAIN old /\ ~ c.overrideGlobals)
             THEN old[n]
             ELSE Defs[c.image][Chosen(GlobalsNamed(c, n), c.overrideGlobals)].val

LoadLeaves ==
  outcome # NoLoad => /\ FnsFilled(outcome.call, fns, builtins)
                      /\ GlobalsFilled(outcome.call, globals)

\* What qcVMFindFn returned points into the table: as long as the VM lives no
\* function, builtin or global disappears (vm.cpp:379).
NothingDisappears ==
  [][alive' => /\ DOMAIN fns \subseteq DOMAIN fns'
               /\ DOMAIN builtins \subseteq DOMAIN builtins'
               /\ DOMAIN globals \subseteq DOMAIN globals']_vars

\* The builtins have names (builtins.cpp:11-18), and a reset that ends has made
\* the functions of those names.
DefaultsAreNamed ==
  [][ResetEnd /\ sb # NoStore =>
       \A i \in 1 .. Len(Defaults) : qcVMFindFn(Defaults[i].name)]_vars
=============================================================================
