------------------------------ MODULE VMProofs ------------------------------
(***************************************************************************)
(* What holds of a QC_VM for all bytecodes, default builtins, native           *)
(* functions, numbers and page sizes, with any number of loads.  Inv below is *)
(* inductive; its parts are stated over explicit tables and stores, so that a *)
(* lemma about an operation applies to the state before it and after it.     *)
(* The end of the module is about VMHandle, for any number of threads,       *)
(* handles and VMs.                                                         *)
(***************************************************************************)
EXTENDS VM, VMHandle, StringPagesProofs

-----------------------------------------------------------------------------
\* The string buffer, if there is one: as its operations leave it, and, since a
\* VM erases nothing, with no NUL inside a registered string.
StoreOK(s) == s # NoStore => StoreInv(s) /\ NulFree(s)

\* A step keeps a store, with all the handles that were given out.
Kept(s, t) == (s = NoStore <=> t = NoStore) /\ (s # NoStore => Grown(s, t))

LEMMA StoreIsStore ==
  ASSUME NEW s, StoreInv(s)
  PROVE  s # NoStore
<1>1. s \in [bufs : Seq(Page),
            taken : UNION {[D -> 1 .. PageSize] : D \in SUBSET Handle}]
  BY DEF StoreInv, IsStringStore, IsRegistry
<1> QED BY <1>1, NoStoreAssumption

LEMMA EmplacedKeeps ==
  ASSUME NEW s, StoreOK(s), NEW text \in CString,
         NEW res, res = Emplaced(s, text)
  PROVE  /\ StoreOK(res.sb) /\ Kept(s, res.sb)
         /\ res.ret # NoString =>
              /\ s # NoStore /\ res.ret \in DOMAIN res.sb.taken
              /\ res.ret # NoName /\ res.ret \in Handle
         /\ res.ret \in Handle \cup {NoString}
<1>1. CASE s = NoStore
  BY <1>1 DEF Emplaced, Result, StoreOK, Kept
<1>2. CASE s # NoStore
  <2>1. StoreInv(s) /\ NulFree(s) /\ res = qcStringBufferEmplace(s, text)
    BY <1>2 DEF StoreOK, Emplaced
  <2>2. StoreInv(res.sb) /\ NulFree(res.sb) /\ Grown(s, res.sb)
    BY <2>1, StoreEmplace, NulFreeEmplace, EmplaceGrows
  <2>3. CASE ~ Admissible(text)
    <3>1. res.ret = NoString
      BY <2>1, <2>3, StoreEmplace DEF Result
    <3> QED BY <1>2, <2>2, <3>1, StoreIsStore DEF StoreOK, Kept
  <2>4. CASE Admissible(text)
    <3>1. /\ res.ret \in Handle /\ res.ret \in DOMAIN res.sb.taken
          /\ res.ret # NoName
      BY <2>1, <2>4, StoreEmplace, NulFreeEmplace DEF NoName
    <3> QED BY <1>2, <2>2, <3>1, StoreIsStore DEF StoreOK, Kept
  <2> QED BY <2>3, <2>4
<1> QED BY <1>1, <1>2

LEMMA KeptTransitive ==
  ASSUME NEW s, NEW t, NEW u, Kept(s, t), Kept(t, u)
  PROVE  Kept(s, u)
BY DEF Kept, Grown

\* A name that is read is some text.
LEMMA NameIsText ==
  ASSUME NEW s, StoreOK(s), NEW h \in Handle \cup {NoString}
  PROVE  Name(s, h) \in Text
BY ViewedText DEF Name, StoreOK, Text

-----------------------------------------------------------------------------
\* A number that was emplaced reads as a C string, in the store it was
\* emplaced in and in every later one.
LEMMA NumberReads ==
  ASSUME NEW s, StoreOK(s), NEW number \in CString,
         NEW res, res = ftos(s, number),
         NEW t, StoreOK(t), Kept(res.sb, t)
  PROVE  Read(t, ViewOf(res)) \in CString
<1>1. /\ Kept(s, res.sb) /\ StoreOK(res.sb)
      /\ res.ret # NoString =>
           /\ s # NoStore /\ res.ret \in DOMAIN res.sb.taken
           /\ res.ret # NoName /\ res.ret \in Handle
  BY EmplacedKeeps DEF ftos
<1>2. CASE t = NoStore
  BY <1>2 DEF Read, CString
<1>3. CASE t # NoStore /\ res.ret = NoString
  <2>1. res.sb # NoStore /\ StoreInv(res.sb)
    BY <1>1, <1>3 DEF Kept, StoreOK
  <2>2. ViewOf(res) = EmptyView
    BY <1>3, <2>1, NoStringAssumption
    DEF ViewOf, qcString, StoreInv, IsStringStore, IsRegistry
  <2> QED BY <1>3, <2>2 DEF Read, Viewed, EmptyView, CString
<1>4. CASE t # NoStore /\ res.ret # NoString
  <2> DEFINE h == res.ret
  <2>1. /\ res.sb # NoStore /\ StoreInv(res.sb) /\ StoreInv(t) /\ NulFree(t)
        /\ Grown(res.sb, t) /\ h \in DOMAIN res.sb.taken
        /\ h # HandleAt(0, 0) /\ h \in Handle
    BY <1>1, <1>4 DEF Kept, StoreOK, NoName
  <2>2. h \in DOMAIN t.taken /\ t.taken[h] = res.sb.taken[h]
    BY <2>1 DEF Grown
  <2>3. InSomePage(res.sb, h)
    BY <2>1, PageAssumption DEF InSomePage, StoreInv, Handle, Offset
  <2>4. ViewOf(res) = [buf |-> h.buf, off |-> h.off, len |-> t.taken[h]]
    BY <2>1, <2>2, <2>3 DEF ViewOf, qcString
  <2>5. Viewed(t, [buf |-> h.buf, off |-> h.off, len |-> t.taken[h]]) \in CString
    BY <2>1, <2>2, ViewedString
  <2> QED BY <1>4, <2>4, <2>5 DEF Read
<1> QED BY <1>2, <1>3, <1>4

\* The builtins that write strings keep the store, vtos over its four writes.
LEMMA VtosKeeps ==
  ASSUME NEW s, StoreOK(s), NEW x \in CString, NEW y \in CString, NEW z \in CString
  PROVE  StoreOK(vtos(s, x, y, z).sb) /\ Kept(s, vtos(s, x, y, z).sb)
<1> DEFINE atX == ftos(s, x)
           atY == ftos(atX.sb, y)
           atZ == ftos(atY.sb, z)
           read(res) == Read(atZ.sb, ViewOf(res))
           text == read(atX) \o <<Space>> \o read(atY) \o <<Space>> \o read(atZ)
<1>1. StoreOK(atX.sb) /\ Kept(s, atX.sb)
  BY EmplacedKeeps DEF ftos
<1>2. StoreOK(atY.sb) /\ Kept(atX.sb, atY.sb)
  BY <1>1, EmplacedKeeps DEF ftos
<1>3. StoreOK(atZ.sb) /\ Kept(atY.sb, atZ.sb)
  BY <1>2, EmplacedKeeps DEF ftos
<1>4. Kept(atX.sb, atZ.sb) /\ Kept(atZ.sb, atZ.sb) /\ Kept(s, atZ.sb)
  BY <1>1, <1>2, <1>3, KeptTransitive DEF Kept, Grown
<1>5. vtos(s, x, y, z) = Emplaced(atZ.sb, text)
  BY DEF vtos
<1> HIDE DEF atX, atY, atZ
<1>6. read(atX) \in CString /\ read(atY) \in CString /\ read(atZ) \in CString
  <2>1. read(atX) \in CString
    BY <1>3, <1>4, NumberReads DEF atX
  <2>2. read(atY) \in CString
    BY <1>1, <1>3, NumberReads DEF atY
  <2>3. read(atZ) \in CString
    BY <1>2, <1>3, <1>4, NumberReads DEF atZ
  <2> QED BY <2>1, <2>2, <2>3
<1>7. text \in CString
  <2>1. <<Space>> \in CString
    BY VMAssumption DEF CString
  <2> HIDE DEF read
  <2> QED BY <1>6, <2>1 DEF CString
<1> HIDE DEF text
<1> QED BY <1>3, <1>4, <1>5, <1>7, EmplacedKeeps, KeptTransitive

\* The tables, over the store that their names are handles of.
\* A handle that was given out stays good: it is taken, or says that the name
\* was refused or never given.  "old" are the handles that were never given out
\* by this store, but come with a copy of a builtin of an earlier VM.
IsName(s, h, old) ==
  h \in {NoString, NoName} \cup old \/ (s # NoStore /\ h \in DOMAIN s.taken)

Callable(native) == native \in Native /\ Len(native.params) <= MaxParams

BuiltinsOK(bs, s, old) ==
  /\ DOMAIN bs \subseteq Nat
  /\ \A i \in DOMAIN bs :
       /\ bs[i] = BuiltinRow(bs[i].native, i)
       /\ Callable(bs[i].native) /\ IsName(s, bs[i].native.name, old)

FnsOK(fs, bs, s, old) ==
  /\ DOMAIN fs \subseteq Text
  /\ \A n \in DOMAIN fs :
       /\ IsRow(fs[n]) /\ IsName(s, fs[n].name, old)
       /\ fs[n].type = "builtin" =>
            fs[n].index \in DOMAIN bs /\ Callable(fs[n].native)

GlobalsOK(gs) == DOMAIN gs \subseteq Text /\ gs \in [DOMAIN gs -> Nat]

HeldOK(native, s, old) ==
  native # NoFn => native \in Native /\ IsName(s, native.name, old)

IsReset(c) == c = [op |-> "reset", at |-> c.at] /\ c.at \in Nat \ {0}

IsLoad(c) ==
  /\ c = [op |-> "load", image |-> c.image, at |-> c.at,
          overrideFns |-> c.overrideFns, overrideGlobals |-> c.overrideGlobals,
          before |-> [fns |-> c.before.fns, globals |-> c.before.globals]]
  /\ c.image \in Images /\ c.at \in Nat \ {0}
  /\ {c.overrideFns, c.overrideGlobals} \subseteq BOOLEAN

\* What a load has done so far is what it leaves if it ends here.
CallOK ==
  call # NoCall =>
    /\ outcome = NoLoad
    /\ IsReset(call) \/ IsLoad(call)
    /\ Loading => /\ FnsFilled(call, fns, builtins)
                  /\ GlobalsFilled(call, globals)

DeadOK ==
  ~ alive => /\ call = NoCall /\ sb = NoStore /\ outcome = NoLoad
             /\ loaded = <<>> /\ DOMAIN builtins = {} /\ DOMAIN fns = {}

Inv ==
  /\ alive \in BOOLEAN /\ loaded \in Seq(Images)
  /\ StoreOK(sb)
  /\ BuiltinsOK(builtins, sb, strange)
  /\ FnsOK(fns, builtins, sb, strange)
  /\ GlobalsOK(globals)
  /\ HeldOK(held, sb, strange) /\ strange \subseteq Handle
  /\ CallOK
  /\ DeadOK

-----------------------------------------------------------------------------
(* The tables.                                                               *)
\* Names stay names when the store is kept.
LEMMA KeptTables ==
  ASSUME NEW s, NEW t, Kept(s, t), NEW old
  PROVE  /\ \A h : IsName(s, h, old) => IsName(t, h, old)
         /\ \A bs : BuiltinsOK(bs, s, old) => BuiltinsOK(bs, t, old)
         /\ \A fs, bs : FnsOK(fs, bs, s, old) => FnsOK(fs, bs, t, old)
         /\ \A native : HeldOK(native, s, old) => HeldOK(native, t, old)
<1>1. \A h : IsName(s, h, old) => IsName(t, h, old)
  BY DEF IsName, Kept, Grown
<1>2. \A bs : BuiltinsOK(bs, s, old) => BuiltinsOK(bs, t, old)
  BY <1>1 DEF BuiltinsOK
<1>3. \A fs, bs : FnsOK(fs, bs, s, old) => FnsOK(fs, bs, t, old)
  BY <1>1 DEF FnsOK
<1>4. \A native : HeldOK(native, s, old) => HeldOK(native, t, old)
  BY <1>1 DEF HeldOK
<1> QED BY <1>1, <1>2, <1>3, <1>4

LEMMA BuiltinRowFacts ==
  ASSUME NEW native \in Native, NEW index
  PROVE  LET row == BuiltinRow(native, index)
         IN  /\ IsRow(row) /\ row.type = "builtin" /\ row.native = native
             /\ row.name = native.name /\ row.index = index
BY DEF BuiltinRow, IsRow

\* Giving a native a name gives a native.
LEMMA NamedNative ==
  ASSUME NEW native \in Native, NEW h \in Handle \cup {NoString}
  PROVE  LET named == [native EXCEPT !.name = h]
         IN  /\ named \in Native /\ named.name = h
             /\ named.params = native.params
BY DEF Native

\* A row more in the functions.
LEMMA FnAssigned ==
  ASSUME NEW fs, NEW bs, NEW s, NEW old, FnsOK(fs, bs, s, old),
         NEW name \in Text,
         NEW row, IsRow(row), IsName(s, row.name, old),
         row.type = "builtin" => row.index \in DOMAIN bs /\ Callable(row.native)
  PROVE  FnsOK(Assign(fs, name, row), bs, s, old)
<1> DEFINE fs2 == Assign(fs, name, row)
<1>1. /\ DOMAIN fs2 = DOMAIN fs \cup {name} /\ fs2[name] = row
      /\ \A k \in DOMAIN fs \ {name} : fs2[k] = fs[k]
  BY DEF Assign
<1> HIDE DEF fs2
<1>2. FnsOK(fs2, bs, s, old)
  BY <1>1 DEF FnsOK
<1> QED BY <1>2 DEF fs2

\* Setting a builtin sets it under its index and, if it has one, its name.
LEMMA SetBuiltin ==
  ASSUME NEW s, NEW old, StoreOK(s), BuiltinsOK(builtins, s, old),
         FnsOK(fns, builtins, s, old),
         NEW index \in Nat, NEW native, Callable(native), IsName(s, native.name, old),
         qcVMSetBuiltin_unsafe(s, index, native)
  PROVE  /\ BuiltinsOK(builtins', s, old) /\ FnsOK(fns', builtins', s, old)
         /\ DOMAIN builtins \subseteq DOMAIN builtins'
         /\ DOMAIN fns \subseteq DOMAIN fns'
<1> DEFINE row == BuiltinRow(native, index)
<1>1. native \in Native /\ native.name \in Handle \cup {NoString}
  BY DEF Callable, Native
<1>2. /\ IsRow(row) /\ row.type = "builtin" /\ row.native = native
      /\ row.name = native.name /\ row.index = index
  BY <1>1, BuiltinRowFacts
<1>3. builtins' = Assign(builtins, index, row)
  BY DEF qcVMSetBuiltin_unsafe
<1>4. /\ DOMAIN builtins' = DOMAIN builtins \cup {index} /\ builtins'[index] = row
      /\ \A k \in DOMAIN builtins \ {index} : builtins'[k] = builtins[k]
  BY <1>3 DEF Assign
<1>5. row = BuiltinRow(row.native, index)
  BY <1>2
<1> HIDE DEF row
<1>6. BuiltinsOK(builtins', s, old)
  BY <1>2, <1>4, <1>5 DEF BuiltinsOK
<1>7. FnsOK(fns, builtins', s, old)
  BY <1>4 DEF FnsOK
<1>8. CASE native.name = NoName
  <2>1. fns' = fns
    BY <1>8 DEF qcVMSetBuiltin_unsafe
  <2> QED BY <1>4, <1>6, <1>7, <2>1
<1>9. CASE native.name # NoName
  <2>1. fns' = Assign(fns, Name(s, native.name), row)
    BY <1>9 DEF qcVMSetBuiltin_unsafe, row
  <2>2. Name(s, native.name) \in Text
    BY <1>1, NameIsText
  <2>3. FnsOK(fns', builtins', s, old)
    BY <1>2, <1>4, <1>7, <2>1, <2>2, FnAssigned
  <2>4. DOMAIN fns \subseteq DOMAIN fns'
    BY <2>1 DEF Assign
  <2> QED BY <1>4, <1>6, <2>3, <2>4
<1> QED BY <1>8, <1>9

-----------------------------------------------------------------------------
(* The steps other than those of a load.                                     *)

\* No step takes anything out of the tables of a VM.
Grows ==
  alive' => /\ DOMAIN fns \subseteq DOMAIN fns'
            /\ DOMAIN builtins \subseteq DOMAIN builtins'
            /\ DOMAIN globals \subseteq DOMAIN globals'

\* What a step that leaves tables and store alone keeps of them.
LEMMA TablesAlone ==
  ASSUME Inv, UNCHANGED tables
  PROVE  /\ loaded' \in Seq(Images)
         /\ StoreOK(sb') /\ BuiltinsOK(builtins', sb', strange)
         /\ FnsOK(fns', builtins', sb', strange) /\ GlobalsOK(globals')
         /\ HeldOK(held, sb', strange)
         /\ Grows
BY DEF Inv, tables, Grows

\* The call that is going on is a reset or none.
LEMMA NoLoadGoingOn ==
  ASSUME call' = NoCall \/ (IsReset(call)' /\ outcome' = NoLoad)
  PROVE  CallOK'
BY DEF CallOK, IsReset, Loading

LEMMA InvInit == Init => Inv
<1> SUFFICES ASSUME Init PROVE Inv
  OBVIOUS
<1>1. DOMAIN EmptyMap = {} /\ EmptyMap \in [{} -> Nat]
  BY DEF EmptyMap
<1>2. /\ alive = FALSE /\ sb = NoStore /\ builtins = EmptyMap /\ fns = EmptyMap
      /\ globals = EmptyMap /\ loaded = <<>> /\ call = NoCall /\ held = NoFn
      /\ strange = {} /\ outcome = NoLoad
  BY DEF Init
<1>3. alive \in BOOLEAN /\ loaded \in Seq(Images)
  <2>1. alive \in BOOLEAN
    BY <1>2
  <2>2. loaded \in Seq(Images)
    BY <1>2
  <2> QED BY <2>1, <2>2
<1>4. StoreOK(sb) /\ BuiltinsOK(builtins, sb, strange)
  BY <1>1, <1>2 DEF StoreOK, BuiltinsOK
<1>5. FnsOK(fns, builtins, sb, strange) /\ GlobalsOK(globals)
  BY <1>1, <1>2 DEF FnsOK, GlobalsOK
<1>6. HeldOK(held, sb, strange) /\ strange \subseteq Handle /\ CallOK /\ DeadOK
  BY <1>1, <1>2 DEF HeldOK, CallOK, DeadOK
<1> QED BY <1>3, <1>4, <1>5, <1>6 DEF Inv

LEMMA CreateKeeps ==
  ASSUME Inv, NEW createDefaults \in BOOLEAN, qcCreateVM(createDefaults)
  PROVE  Inv' /\ Grows
<1>1. /\ ~ alive /\ alive' = TRUE /\ sb' \in {qcCreateStringBuffer, NoStore}
      /\ call' \in {StartReset, NoCall}
      /\ builtins' = builtins /\ fns' = fns /\ globals' = globals
      /\ loaded' = loaded /\ held' = held /\ strange' = strange /\ outcome' = outcome
  BY DEF qcCreateVM
<1>2. /\ HeldOK(held, sb, strange) /\ sb = NoStore /\ outcome = NoLoad
      /\ DOMAIN builtins = {} /\ DOMAIN fns = {}
  BY <1>1 DEF Inv, DeadOK
<1>3. StoreOK(sb')
  BY <1>1, StoreCreate, NulFreeCreate DEF StoreOK
<1>4. /\ BuiltinsOK(builtins', sb', strange') /\ FnsOK(fns', builtins', sb', strange')
      /\ HeldOK(held', sb', strange')
  BY <1>1, <1>2 DEF BuiltinsOK, FnsOK, HeldOK, IsName
<1>5. IsReset(StartReset)
  BY DEF IsReset, StartReset
<1>6. CallOK'
  BY <1>1, <1>2, <1>5, NoLoadGoingOn DEF IsReset
<1>7. GlobalsOK(globals') /\ loaded' \in Seq(Images)
  BY <1>1 DEF Inv
<1>8. Grows
  BY <1>1 DEF Grows
<1> QED BY <1>1, <1>3, <1>4, <1>6, <1>7, <1>8 DEF Inv, DeadOK

LEMMA DestroyKeeps ==
  ASSUME Inv, qcDestroyVM
  PROVE  Inv' /\ Grows
<1>1. /\ alive' = FALSE /\ sb' = NoStore /\ builtins' = EmptyMap
      /\ fns' = EmptyMap /\ globals' = EmptyMap /\ loaded' = <<>>
      /\ held' = held /\ outcome' = NoLoad /\ call' = NoCall
      /\ strange' = {fn.name : fn \in {held} \ {NoFn}} \ {NoString, NoName}
  BY DEF qcDestroyVM, Ready
<1>2. DOMAIN EmptyMap = {} /\ EmptyMap \in [{} -> Nat]
  BY DEF EmptyMap
<1>3. CallOK'
  BY <1>1, NoLoadGoingOn
<1>4. StoreOK(sb') /\ BuiltinsOK(builtins', sb', strange') /\ FnsOK(fns', builtins', sb', strange')
  BY <1>1, <1>2 DEF StoreOK, BuiltinsOK, FnsOK
<1>5. GlobalsOK(globals') /\ DeadOK'
  BY <1>1, <1>2 DEF GlobalsOK, DeadOK
<1>6. alive' \in BOOLEAN /\ loaded' \in Seq(Images) /\ Grows
  <2>1. alive' \in BOOLEAN /\ Grows
    BY <1>1 DEF Grows
  <2>2. loaded' \in Seq(Images)
    BY <1>1
  <2> QED BY <2>1, <2>2
<1>7. HeldOK(held', sb', strange') /\ strange' \subseteq Handle
  <2>1. CASE held = NoFn
    BY <1>1, <2>1 DEF HeldOK
  <2>2. CASE held # NoFn
    <3>1. held \in Native /\ held.name \in Handle \cup {NoString}
      BY <2>2 DEF Inv, HeldOK, Native
    <3>2. strange' = {held.name} \ {NoString, NoName}
      BY <1>1, <2>2
    <3> QED BY <1>1, <3>1, <3>2 DEF HeldOK, IsName
  <2> QED BY <2>1, <2>2
<1> QED BY <1>3, <1>4, <1>5, <1>6, <1>7 DEF Inv

LEMMA StartResetKeeps ==
  ASSUME Inv, qcVMResetDefaultBuiltins
  PROVE  Inv' /\ Grows
<1>1. /\ alive /\ alive' = alive /\ UNCHANGED tables /\ held' = held /\ strange' = strange
      /\ outcome' = NoLoad /\ call' = StartReset
  BY DEF qcVMResetDefaultBuiltins, Ready
<1>2. CallOK'
  BY <1>1, NoLoadGoingOn DEF IsReset, StartReset
<1>3. DeadOK'
  BY <1>1 DEF DeadOK
<1> QED BY <1>1, <1>2, <1>3, TablesAlone DEF Inv

LEMMA ResetRowKeeps ==
  ASSUME Inv, ResetRow
  PROVE  Inv' /\ Grows
<1> DEFINE row == Defaults[call.at]
           res == Emplaced(sb, row.name)
           native == [row.native EXCEPT !.name = res.ret]
<1>1. /\ call # NoCall /\ call.op = "reset" /\ call.at <= Len(Defaults)
      /\ sb' = res.sb /\ qcVMSetBuiltin_unsafe(res.sb, row.index, native)
      /\ call' = [call EXCEPT !.at = @ + 1]
      /\ alive' = alive /\ globals' = globals /\ loaded' = loaded
      /\ held' = held /\ strange' = strange /\ outcome' = outcome
  BY DEF ResetRow, Resetting
<1>2. IsReset(call) /\ outcome = NoLoad /\ alive
  BY <1>1 DEF Inv, CallOK, DeadOK, IsLoad
<1>3. IsReset(call')
  BY <1>1, <1>2 DEF IsReset
<1>4. /\ row.index \in Nat /\ row.name \in CString /\ row.native \in Native
      /\ Len(row.native.params) <= MaxParams
  <2>1. call.at \in 1 .. Len(Defaults)
    BY <1>1, <1>2, VMAssumption DEF IsReset
  <2> DEFINE rows == [index : Nat, name : Seq(Byte \ {NUL}), native : Native]
  <2>2. row \in rows
    <3>1. Defaults \in Seq(rows)
      BY VMAssumption
    <3> HIDE DEF rows
    <3> QED BY <2>1, <3>1
  <2>3. Len(row.native.params) <= MaxParams
    BY <2>1, VMAssumption
  <2> HIDE DEF row
  <2> QED BY <2>2, <2>3 DEF CString
<1>5. /\ StoreOK(res.sb) /\ Kept(sb, res.sb)
      /\ res.ret \in Handle \cup {NoString} /\ IsName(res.sb, res.ret, strange)
  <2>1. StoreOK(sb)
    BY DEF Inv
  <2> HIDE DEF row
  <2>2. /\ StoreOK(res.sb) /\ Kept(sb, res.sb)
        /\ res.ret # NoString => sb # NoStore /\ res.ret \in DOMAIN res.sb.taken
        /\ res.ret \in Handle \cup {NoString}
    BY <1>4, <2>1, EmplacedKeeps
  <2> HIDE DEF res
  <2> QED BY <2>2 DEF IsName, Kept
<1>6. /\ BuiltinsOK(builtins, res.sb, strange)
      /\ FnsOK(fns, builtins, res.sb, strange) /\ HeldOK(held, res.sb, strange)
  BY <1>5, KeptTables DEF Inv
<1>7. Callable(native) /\ native.name = res.ret
  BY <1>4, <1>5, NamedNative DEF Callable
<1> HIDE DEF row, res, native
<1>8. /\ BuiltinsOK(builtins', sb', strange') /\ FnsOK(fns', builtins', sb', strange')
      /\ DOMAIN builtins \subseteq DOMAIN builtins' /\ DOMAIN fns \subseteq DOMAIN fns'
  BY <1>1, <1>4, <1>5, <1>6, <1>7, SetBuiltin
<1>9. CallOK'
  BY <1>1, <1>2, <1>3, NoLoadGoingOn DEF IsReset
<1>10. Grows /\ GlobalsOK(globals') /\ DeadOK' /\ alive' \in BOOLEAN /\ loaded' \in Seq(Images)
  BY <1>1, <1>2, <1>8 DEF Inv, Grows, DeadOK
<1> QED BY <1>1, <1>5, <1>6, <1>8, <1>9, <1>10 DEF Inv

LEMMA ResetEndKeeps ==
  ASSUME Inv, ResetEnd
  PROVE  Inv' /\ Grows
<1>1. /\ call # NoCall /\ call' = NoCall /\ alive' = alive
      /\ UNCHANGED tables /\ held' = held /\ strange' = strange /\ outcome' = outcome
  BY DEF ResetEnd, Resetting
<1>2. alive /\ CallOK' /\ DeadOK'
  BY <1>1, NoLoadGoingOn DEF Inv, DeadOK
<1> QED BY <1>1, <1>2, TablesAlone DEF Inv

LEMMA SetBuiltinKeeps ==
  ASSUME Inv, NEW index \in Indexes, NEW fn \in Offered,
         NEW overrideExisting \in BOOLEAN,
         qcVMSetBuiltin(index, fn, overrideExisting)
  PROVE  Inv' /\ Grows
<1>1. /\ alive /\ call = NoCall /\ ValidNative(fn)
      /\ qcVMSetBuiltin_unsafe(sb, index, fn)
      /\ alive' = alive /\ sb' = sb /\ globals' = globals /\ loaded' = loaded
      /\ call' = call /\ held' = held /\ strange' = strange /\ outcome' = NoLoad
  BY DEF qcVMSetBuiltin, Ready
<1>2. fn \in Native /\ IsName(sb, fn.name, strange)
  <2>1. CASE fn \in Natives
    BY <2>1, VMAssumption DEF IsName
  <2>2. CASE fn = held /\ held # NoFn
    BY <2>2 DEF Inv, HeldOK
  <2> QED BY <2>1, <2>2 DEF Offered
<1>3. Callable(fn) /\ index \in Nat
  BY <1>1, <1>2, VMAssumption DEF Callable, ValidNative
<1>4. /\ BuiltinsOK(builtins', sb, strange) /\ FnsOK(fns', builtins', sb, strange)
      /\ DOMAIN builtins \subseteq DOMAIN builtins' /\ DOMAIN fns \subseteq DOMAIN fns'
  BY <1>1, <1>2, <1>3, SetBuiltin DEF Inv
<1>5. CallOK' /\ DeadOK' /\ Grows
  BY <1>1, <1>4, NoLoadGoingOn DEF Grows, DeadOK
<1> QED BY <1>1, <1>4, <1>5 DEF Inv

LEMMA GetBuiltinKeeps ==
  ASSUME Inv, NEW index \in Indexes, qcVMGetBuiltin(index)
  PROVE  Inv' /\ Grows
<1>1. /\ alive /\ call = NoCall /\ index \in DOMAIN builtins
      /\ held' = builtins[index].native /\ alive' = alive /\ UNCHANGED tables
      /\ call' = call /\ strange' = strange /\ outcome' = outcome
  BY DEF qcVMGetBuiltin, Ready
<1>2. HeldOK(held', sb', strange')
  BY <1>1 DEF Inv, BuiltinsOK, Callable, HeldOK, tables
<1>3. CallOK' /\ DeadOK'
  BY <1>1, NoLoadGoingOn DEF DeadOK
<1> QED BY <1>1, <1>2, <1>3, TablesAlone DEF Inv

LEMMA ExecKeeps ==
  ASSUME Inv, NEW name, NEW nArgs, qcVMExec(name, nArgs)
  PROVE  Inv' /\ Grows
<1> DEFINE code == fns[name].native.code
<1>1. /\ alive /\ call = NoCall /\ Writes(code) /\ outcome' = NoLoad
      /\ alive' = alive /\ builtins' = builtins /\ fns' = fns /\ globals' = globals
      /\ loaded' = loaded /\ call' = call /\ held' = held /\ strange' = strange
  BY DEF qcVMExec, Ready
<1>2. StoreOK(sb') /\ Kept(sb, sb')
  <2>1. StoreOK(sb) /\ Numbers \subseteq CString
    BY VMAssumption DEF Inv, CString
  <2>2. CASE \E x \in Numbers : sb' = ftos(sb, x).sb
    BY <2>1, <2>2, EmplacedKeeps DEF ftos
  <2>3. CASE \E x, y, z \in Numbers : sb' = vtos(sb, x, y, z).sb
    BY <2>1, <2>3, VtosKeeps
  <2>4. CASE sb' = sb
    BY <2>1, <2>4 DEF Kept, Grown
  <2> QED BY <1>1, <2>2, <2>3, <2>4 DEF Writes
<1>3. /\ BuiltinsOK(builtins', sb', strange') /\ FnsOK(fns', builtins', sb', strange')
      /\ HeldOK(held', sb', strange')
  BY <1>1, <1>2, KeptTables DEF Inv
<1>4. CallOK' /\ DeadOK' /\ Grows
  BY <1>1, NoLoadGoingOn DEF DeadOK, Grows
<1> QED BY <1>1, <1>2, <1>3, <1>4 DEF Inv


-----------------------------------------------------------------------------
(* The steps of a load.                                                      *)

\* The chosen one of a set of numbers that a greater one joins.
LEMMA ChosenNext ==
  ASSUME NEW I \in SUBSET Nat, NEW i \in Nat, \A j \in I : j < i,
         NEW override \in BOOLEAN
  PROVE  /\ override \/ I = {} => Chosen(I \cup {i}, override) = i
         /\ ~ override /\ I # {} => Chosen(I \cup {i}, override) = Chosen(I, override)
<1> DEFINE J == I \cup {i}
<1>1. ASSUME override PROVE Chosen(J, override) = i
  <2>1. i \in J /\ \A j \in J : j <= i
    OBVIOUS
  <2>2. \A k \in J : (\A j \in J : j <= k) => k = i
    OBVIOUS
  <2> HIDE DEF J
  <2> QED BY <1>1, <2>1, <2>2 DEF Chosen
<1>2. ASSUME ~ override, I # {} PROVE Chosen(J, override) = Chosen(I, override)
  <2> DEFINE k == Chosen(I, override)
  <2>1. k \in I /\ \A j \in I : k <= j
    <3>1. \E m \in I : \A j \in I : m <= j
      BY <1>2, LeastOfNats
    <3> QED BY <1>2, <3>1 DEF Chosen
  <2> HIDE DEF k
  <2>2. k \in J /\ \A j \in J : k <= j
    BY <2>1
  <2>3. \A m \in J : (\A j \in J : m <= j) => m = k
    BY <2>1
  <2> HIDE DEF J
  <2>4. Chosen(J, override) = k
    BY <1>2, <2>2, <2>3 DEF Chosen
  <2> QED BY <2>4 DEF k
<1>3. ASSUME I = {} PROVE Chosen(J, override) = i
  BY <1>3 DEF Chosen
<1> QED BY <1>1, <1>2, <1>3

\* A load goes on with the next row.
LEMMA NextRow ==
  ASSUME NEW c, IsLoad(c)
  PROVE  LET d == [c EXCEPT !.at = @ + 1]
         IN  /\ IsLoad(d) /\ d.at = c.at + 1 /\ d.image = c.image
             /\ d.overrideFns = c.overrideFns
             /\ d.overrideGlobals = c.overrideGlobals
             /\ d.before = c.before /\ d.op = "load"
<1> DEFINE d == [c EXCEPT !.at = @ + 1]
<1>1. d = [op |-> "load", image |-> c.image, at |-> c.at + 1,
           overrideFns |-> c.overrideFns, overrideGlobals |-> c.overrideGlobals,
           before |-> c.before]
  BY DEF IsLoad
<1>2. c.at + 1 \in Nat \ {0} /\ c.before = [fns |-> c.before.fns, globals |-> c.before.globals]
  BY DEF IsLoad
<1> HIDE DEF d
<1>3. /\ d.at = c.at + 1 /\ d.image = c.image /\ d.overrideFns = c.overrideFns
      /\ d.overrideGlobals = c.overrideGlobals /\ d.before = c.before
      /\ d.op = "load"
  BY <1>1
<1>4. d = [op |-> "load", image |-> d.image, at |-> d.at,
           overrideFns |-> d.overrideFns, overrideGlobals |-> d.overrideGlobals,
           before |-> [fns |-> d.before.fns, globals |-> d.before.globals]]
  BY <1>1, <1>2, <1>3
<1>5. /\ d.image \in Images /\ d.at \in Nat \ {0}
      /\ {d.overrideFns, d.overrideGlobals} \subseteq BOOLEAN
  BY <1>2, <1>3 DEF IsLoad
<1>6. IsLoad(d)
  BY <1>4, <1>5 DEF IsLoad
<1> QED BY <1>3, <1>6 DEF d

\* What a load has done counts one more when a function is loaded ...
LEMMA FnsDoneNext ==
  ASSUME NEW c, IsLoad(c), NEW d, IsLoad(d), d.image = c.image,
         d.at = c.at + 1, c.at <= Len(Fns[c.image]), NEW n
  PROVE  /\ c.at \in 1 .. Len(Fns[c.image])
         /\ FnsDone(d) = FnsDone(c) \cup {c.at}
         /\ FnsNamed(c, n) \in SUBSET Nat /\ \A j \in FnsNamed(c, n) : j < c.at
         /\ FnsNamed(d, n) = IF Fns[c.image][c.at].name = n
                             THEN FnsNamed(c, n) \cup {c.at} ELSE FnsNamed(c, n)
         /\ GlobalsDone(c) = {} /\ GlobalsDone(d) = {}
<1>1. /\ c.at \in Nat \ {0} /\ c.image \in Images
      /\ Len(Fns[c.image]) \in Nat /\ Len(Defs[c.image]) \in Nat
  BY VMAssumption DEF IsLoad
<1>2. FnsDone(d) = FnsDone(c) \cup {c.at}
  BY <1>1 DEF FnsDone
<1>3. GlobalsDone(c) = {} /\ GlobalsDone(d) = {}
  BY <1>1 DEF GlobalsDone
<1>4. FnsNamed(c, n) \in SUBSET Nat /\ \A j \in FnsNamed(c, n) : j < c.at
  BY <1>1 DEF FnsNamed, FnsDone
<1>5. FnsNamed(d, n) = IF Fns[c.image][c.at].name = n
                       THEN FnsNamed(c, n) \cup {c.at} ELSE FnsNamed(c, n)
  BY <1>2 DEF FnsNamed
<1> QED BY <1>1, <1>2, <1>3, <1>4, <1>5

\* ... and when a definition is.
LEMMA GlobalsDoneNext ==
  ASSUME NEW c, IsLoad(c), NEW d, IsLoad(d), d.image = c.image,
         d.at = c.at + 1, NEW k, k = c.at - Len(Fns[c.image]),
         k \in 1 .. Len(Defs[c.image]), NEW n
  PROVE  LET def == Defs[c.image][k]
         IN  /\ FnsDone(d) = FnsDone(c)
             /\ GlobalsDone(d) = IF def.global THEN GlobalsDone(c) \cup {k}
                                 ELSE GlobalsDone(c)
             /\ GlobalsNamed(c, n) \in SUBSET Nat
             /\ \A j \in GlobalsNamed(c, n) : j < k
             /\ GlobalsNamed(d, n) = IF def.global /\ def.name = n
                                     THEN GlobalsNamed(c, n) \cup {k}
                                     ELSE GlobalsNamed(c, n)
<1>1. /\ c.at \in Nat \ {0} /\ c.image \in Images
      /\ Len(Fns[c.image]) \in Nat /\ Len(Defs[c.image]) \in Nat
  BY VMAssumption DEF IsLoad
<1>2. FnsDone(d) = FnsDone(c)
  BY <1>1 DEF FnsDone
<1> DEFINE def == Defs[c.image][k]
<1>3. GlobalsDone(d) = IF def.global THEN GlobalsDone(c) \cup {k} ELSE GlobalsDone(c)
  <2>1. \A i \in 1 .. Len(Defs[c.image]) :
          Len(Fns[c.image]) + i < d.at <=> i = k \/ Len(Fns[c.image]) + i < c.at
    BY <1>1
  <2> QED BY <2>1 DEF GlobalsDone
<1>4. GlobalsNamed(c, n) \in SUBSET Nat /\ \A j \in GlobalsNamed(c, n) : j < k
  BY <1>1 DEF GlobalsNamed, GlobalsDone
<1>5. GlobalsNamed(d, n) = IF def.global /\ def.name = n
                           THEN GlobalsNamed(c, n) \cup {k} ELSE GlobalsNamed(c, n)
  BY <1>3 DEF GlobalsNamed
<1> QED BY <1>2, <1>3, <1>4, <1>5

\* What a load leaves of the functions when it loads one more.
LEMMA FnFilled ==
  ASSUME NEW c, IsLoad(c), NEW d, IsLoad(d), d.image = c.image,
         d.at = c.at + 1, d.overrideFns = c.overrideFns, d.before = c.before,
         c.at <= Len(Fns[c.image]),
         NEW fs, NEW bs, FnsFilled(c, fs, bs),
         NEW name, name = Fns[c.image][c.at].name,
         NEW row, RowOf(bs, c.image, c.at, row),
         NEW fs2, fs2 = IF Fills(fs, name, c.overrideFns)
                        THEN Assign(fs, name, row) ELSE fs
  PROVE  FnsFilled(d, fs2, bs)
<1> DEFINE b == c.image
           i == c.at
           override == c.overrideFns
           old == c.before.fns
           before(n) == FnsNamed(c, n)
           after(n) == FnsNamed(d, n)
           Says(n, I, t) == IF I = {} \/ (n \in DOMAIN old /\ ~ override)
                            THEN t[n] = old[n]
                            ELSE RowOf(bs, b, Chosen(I, override), t[n])
<1>1. /\ DOMAIN fs = DOMAIN old \cup {Fns[b][j].name : j \in FnsDone(c)}
      /\ \A n \in DOMAIN fs : Says(n, before(n), fs)
  BY DEF FnsFilled
<1>2. override \in BOOLEAN /\ i \in Nat
  BY DEF IsLoad
<1>3. /\ FnsDone(d) = FnsDone(c) \cup {i}
      /\ \A n : /\ before(n) \in SUBSET Nat /\ \A j \in before(n) : j < i
                /\ after(n) = IF name = n THEN before(n) \cup {i} ELSE before(n)
  BY FnsDoneNext
<1>4. \A n : before(n) = {} <=> \A j \in FnsDone(c) : Fns[b][j].name # n
  BY DEF FnsNamed
<1>5. /\ DOMAIN fs2 = DOMAIN fs \cup {name}
      /\ \A n \in DOMAIN fs \ {name} : fs2[n] = fs[n]
      /\ fs2[name] = IF name \notin DOMAIN fs \/ override THEN row ELSE fs[name]
  BY DEF Fills, Assign
<1>6. DOMAIN fs2 = DOMAIN old \cup {Fns[b][j].name : j \in FnsDone(d)}
  <2> HIDE DEF old
  <2>1. {Fns[b][j].name : j \in FnsDone(c) \cup {i}} =
        {Fns[b][j].name : j \in FnsDone(c)} \cup {name}
    OBVIOUS
  <2> QED BY <1>1, <1>3, <1>5, <2>1
<1>7. ASSUME NEW n \in DOMAIN fs2 \ {name} PROVE Says(n, after(n), fs2)
  BY <1>1, <1>3, <1>5
<1>8. Says(name, after(name), fs2)
  <2> DEFINE I == before(name)
  <2>1. /\ I \in SUBSET Nat /\ (\A j \in I : j < i) /\ after(name) = I \cup {i}
        /\ after(name) # {}
    BY <1>3
  <2>2. name \notin DOMAIN fs => I = {} /\ name \notin DOMAIN old
    BY <1>1, <1>4
  <2>3. name \in DOMAIN fs => name \in DOMAIN old \/ I # {}
    <3>1. name \in DOMAIN fs =>
            name \in DOMAIN old \/ \E j \in FnsDone(c) : Fns[b][j].name = name
      BY <1>1
    <3> QED BY <1>4, <3>1
  <2> HIDE DEF before, after, I, override
  <2>4. CASE name \in DOMAIN old /\ ~ override
    <3>1. name \in DOMAIN fs /\ fs[name] = old[name]
      BY <1>1, <2>4
    <3> QED BY <1>5, <2>4, <3>1
  <2>5. CASE override = TRUE
    <3>1. Chosen(I \cup {i}, override) = i
      BY <1>2, <2>1, <2>5, ChosenNext
    <3> QED BY <1>5, <2>1, <2>5, <3>1
  <2>6. CASE name \notin DOMAIN old /\ ~ override /\ name \notin DOMAIN fs
    <3>1. Chosen(I \cup {i}, override) = i
      BY <1>2, <2>1, <2>2, <2>6, ChosenNext
    <3> QED BY <1>5, <2>1, <2>6, <3>1
  <2>7. CASE name \notin DOMAIN old /\ ~ override /\ name \in DOMAIN fs
    <3>1. Chosen(I \cup {i}, override) = Chosen(I, override)
      BY <1>2, <2>1, <2>3, <2>7, ChosenNext
    <3>2. RowOf(bs, b, Chosen(I, override), fs[name])
      BY <1>1, <2>3, <2>7 DEF I
    <3> QED BY <1>5, <2>1, <2>7, <3>1, <3>2
  <2> QED BY <1>2, <2>4, <2>5, <2>6, <2>7
<1>9. \A n \in DOMAIN fs2 : Says(n, after(n), fs2)
  BY <1>7, <1>8
<1> QED BY <1>6, <1>9 DEF FnsFilled

\* What it leaves of the globals when it goes through one more definition.
LEMMA GlobalFilled ==
  ASSUME NEW c, IsLoad(c), NEW d, IsLoad(d), d.image = c.image,
         d.at = c.at + 1, d.overrideGlobals = c.overrideGlobals,
         d.before = c.before,
         NEW k, k = c.at - Len(Fns[c.image]), k \in 1 .. Len(Defs[c.image]),
         NEW gs, GlobalsFilled(c, gs),
         NEW def, def = Defs[c.image][k],
         NEW gs2, gs2 = IF def.global /\ Fills(gs, def.name, c.overrideGlobals)
                        THEN Assign(gs, def.name, def.val) ELSE gs
  PROVE  GlobalsFilled(d, gs2)
<1> DEFINE b == c.image
           override == c.overrideGlobals
           old == c.before.globals
           name == def.name
           before(n) == GlobalsNamed(c, n)
           after(n) == GlobalsNamed(d, n)
           Says(n, I, t) == t[n] = IF I = {} \/ (n \in DOMAIN old /\ ~ override)
                                   THEN old[n]
                                   ELSE Defs[b][Chosen(I, override)].val
<1>1. /\ DOMAIN gs = DOMAIN old \cup {Defs[b][j].name : j \in GlobalsDone(c)}
      /\ \A n \in DOMAIN gs : Says(n, before(n), gs)
  BY DEF GlobalsFilled
<1>2. override \in BOOLEAN /\ k \in Nat
  BY DEF IsLoad
<1>3. /\ GlobalsDone(d) = IF def.global THEN GlobalsDone(c) \cup {k} ELSE GlobalsDone(c)
      /\ \A n : /\ before(n) \in SUBSET Nat /\ \A j \in before(n) : j < k
                /\ after(n) = IF def.global /\ name = n
                              THEN before(n) \cup {k} ELSE before(n)
  BY GlobalsDoneNext
<1>4. \A n : before(n) = {} <=> \A j \in GlobalsDone(c) : Defs[b][j].name # n
  BY DEF GlobalsNamed
<1>5. CASE ~ def.global
  <2>1. gs2 = gs /\ GlobalsDone(d) = GlobalsDone(c) /\ \A n : after(n) = before(n)
    BY <1>3, <1>5
  <2>2. /\ DOMAIN gs2 = DOMAIN old \cup {Defs[b][j].name : j \in GlobalsDone(d)}
        /\ \A n \in DOMAIN gs2 : Says(n, after(n), gs2)
    BY <1>1, <2>1
  <2> QED BY <2>2 DEF GlobalsFilled
<1>6. CASE def.global
  <2>1. /\ DOMAIN gs2 = DOMAIN gs \cup {name}
        /\ \A n \in DOMAIN gs \ {name} : gs2[n] = gs[n]
        /\ gs2[name] = IF name \notin DOMAIN gs \/ override THEN def.val ELSE gs[name]
    BY <1>6 DEF Fills, Assign
  <2>2. DOMAIN gs2 = DOMAIN old \cup {Defs[b][j].name : j \in GlobalsDone(d)}
    <3> HIDE DEF old
    <3>1. {Defs[b][j].name : j \in GlobalsDone(c) \cup {k}} =
          {Defs[b][j].name : j \in GlobalsDone(c)} \cup {name}
      OBVIOUS
    <3> QED BY <1>1, <1>3, <1>6, <2>1, <3>1
  <2>3. ASSUME NEW n \in DOMAIN gs2 \ {name} PROVE Says(n, after(n), gs2)
    <3>1. n \in DOMAIN gs /\ n # name /\ gs2[n] = gs[n]
      BY <2>1
    <3>2. after(n) = before(n) /\ Says(n, before(n), gs)
      BY <1>1, <1>3, <3>1
    <3> HIDE DEF after, before, name
    <3> QED BY <3>1, <3>2
  <2>4. Says(name, after(name), gs2)
    <3> DEFINE I == before(name)
    <3>1. /\ I \in SUBSET Nat /\ (\A j \in I : j < k) /\ after(name) = I \cup {k}
          /\ after(name) # {}
      BY <1>3, <1>6
    <3>2. name \notin DOMAIN gs => I = {} /\ name \notin DOMAIN old
      BY <1>1, <1>4
    <3>3. name \in DOMAIN gs => name \in DOMAIN old \/ I # {}
      <4>1. name \in DOMAIN gs =>
              name \in DOMAIN old \/ \E j \in GlobalsDone(c) : Defs[b][j].name = name
        BY <1>1
      <4> QED BY <1>4, <4>1
    <3> HIDE DEF before, after, I, override
    <3>4. CASE name \in DOMAIN old /\ ~ override
      <4>1. name \in DOMAIN gs /\ gs[name] = old[name]
        BY <1>1, <3>4
      <4> QED BY <2>1, <3>4, <4>1
    <3>5. CASE override = TRUE
      <4>1. Chosen(I \cup {k}, override) = k
        BY <1>2, <3>1, <3>5, ChosenNext
      <4> QED BY <2>1, <3>1, <3>5, <4>1
    <3>6. CASE name \notin DOMAIN old /\ ~ override /\ name \notin DOMAIN gs
      <4>1. I = {}
        BY <3>2, <3>6
      <4> HIDE DEF name
      <4>2. Chosen(I \cup {k}, override) = k
        BY <1>2, <3>1, <4>1, ChosenNext
      <4> QED BY <2>1, <3>1, <3>6, <4>2
    <3>7. CASE name \notin DOMAIN old /\ ~ override /\ name \in DOMAIN gs
      <4>1. Chosen(I \cup {k}, override) = Chosen(I, override)
        BY <1>2, <3>1, <3>3, <3>7, ChosenNext
      <4>2. gs[name] = Defs[b][Chosen(I, override)].val
        BY <1>1, <3>3, <3>7 DEF I
      <4> QED BY <2>1, <3>1, <3>7, <4>1, <4>2
    <3> QED BY <1>2, <3>4, <3>5, <3>6, <3>7
  <2>5. \A n \in DOMAIN gs2 : Says(n, after(n), gs2)
    <3> HIDE DEF Says, after, name
    <3> QED BY <2>3, <2>4
  <2> QED BY <2>2, <2>5 DEF GlobalsFilled
<1> QED BY <1>5, <1>6

LEMMA StartLoadKeeps ==
  ASSUME Inv, NEW b \in Images,
         NEW overrideFns \in BOOLEAN, NEW overrideGlobals \in BOOLEAN,
         qcVMLoadByteCode(b, overrideFns, overrideGlobals)
  PROVE  Inv' /\ Grows
<1> DEFINE c == [op |-> "load", image |-> b, at |-> 1,
                 overrideFns |-> overrideFns, overrideGlobals |-> overrideGlobals,
                 before |-> [fns |-> fns, globals |-> globals]]
<1>1. /\ alive /\ alive' = alive /\ UNCHANGED tables /\ held' = held /\ strange' = strange
      /\ outcome' = NoLoad /\ call' = c
  BY DEF qcVMLoadByteCode, Ready
<1>2. /\ IsLoad(c) /\ c.image = b /\ c.at = 1
      /\ c.before.fns = fns /\ c.before.globals = globals
  BY DEF IsLoad
<1> HIDE DEF c
<1>3. FnsDone(c) = {} /\ GlobalsDone(c) = {}
  <2>1. Len(Fns[b]) \in Nat
    BY VMAssumption
  <2> QED BY <1>2, <2>1 DEF FnsDone, GlobalsDone
<1>4. FnsFilled(c, fns, builtins)
  BY <1>2, <1>3 DEF FnsFilled, FnsNamed
<1>5. GlobalsFilled(c, globals)
  BY <1>2, <1>3 DEF GlobalsFilled, GlobalsNamed
<1>6. CallOK'
  BY <1>1, <1>2, <1>4, <1>5 DEF CallOK, tables
<1>7. DeadOK'
  BY <1>1 DEF DeadOK
<1> QED BY <1>1, <1>6, <1>7, TablesAlone DEF Inv

\* A load that is going on.
LEMMA LoadFacts ==
  ASSUME Inv, Loading
  PROVE  /\ alive /\ IsLoad(call) /\ outcome = NoLoad
         /\ FnsFilled(call, fns, builtins) /\ GlobalsFilled(call, globals)
         /\ Fns[call.image] \in Seq(FnEntry) /\ Defs[call.image] \in Seq(DefEntry)
<1>1. /\ alive /\ IsLoad(call) /\ outcome = NoLoad
      /\ FnsFilled(call, fns, builtins) /\ GlobalsFilled(call, globals)
  BY DEF Inv, CallOK, DeadOK, Loading, IsReset
<1> QED BY <1>1, VMAssumption DEF IsLoad

\* The row that a function of a bytecode fills.
LEMMA LoadedRow ==
  ASSUME Inv, AtFn, ~ Missing, NEW h \in Handle \cup {NoString},
         NEW row, row = IF IsBuiltin(Fn)
                        THEN BuiltinRow([Linked(Fn) EXCEPT !.name = h], - Fn.entry)
                        ELSE CodeRow(h, call.image, call.at)
  PROVE  /\ IsRow(row) /\ row.name = h
         /\ row.type = "builtin" => row.index \in DOMAIN builtins /\ Callable(row.native)
         /\ RowOf(builtins, call.image, call.at, row)
<1>1. /\ IsLoad(call) /\ Fns[call.image] \in Seq(FnEntry)
      /\ Fn = Fns[call.image][call.at] /\ call.at <= Len(Fns[call.image])
  BY LoadFacts DEF AtFn, Fn, LoadedFns
<1>2. call.image \in Images /\ call.at \in 1 .. Len(Fns[call.image])
  BY <1>1 DEF IsLoad
<1>3. CASE ~ IsBuiltin(Fn)
  <2>1. /\ row = CodeRow(h, call.image, call.at) /\ row.type = "bytecode"
        /\ row.name = h /\ row.image = call.image /\ row.at = call.at
    BY <1>3 DEF CodeRow
  <2>2. IsRow(row)
    BY <1>2, <2>1 DEF IsRow
  <2>3. RowOf(builtins, call.image, call.at, row)
    BY <1>1, <1>3, <2>1 DEF RowOf
  <2> QED BY <2>1, <2>2, <2>3
<1>4. CASE IsBuiltin(Fn)
  <2> DEFINE index == - Fn.entry
             native == [Linked(Fn) EXCEPT !.name = h]
  <2>1. index \in DOMAIN builtins /\ Linked(Fn) = builtins[index].native
    BY <1>4 DEF Missing, Linked
  <2>2. Callable(Linked(Fn))
    BY <2>1 DEF Inv, BuiltinsOK
  <2>3. native \in Native /\ native.name = h /\ Callable(native)
    BY <2>2, NamedNative DEF Callable
  <2>4. row = BuiltinRow(native, index)
    BY <1>4
  <2>5. native = [builtins[index].native EXCEPT !.name = h]
    BY <2>1
  <2> HIDE DEF native
  <2>6. /\ IsRow(row) /\ row.type = "builtin" /\ row.native = native
        /\ row.name = native.name /\ row.index = index
    BY <2>3, <2>4, BuiltinRowFacts
  <2>7. RowOf(builtins, call.image, call.at, row)
    BY <1>1, <1>4, <2>3, <2>5, <2>6 DEF RowOf
  <2> QED BY <2>1, <2>3, <2>6, <2>7
<1> QED BY <1>3, <1>4

LEMMA LoadFnKeeps ==
  ASSUME Inv, LoadFn
  PROVE  Inv' /\ Grows
<1> DEFINE res == Emplaced(sb, Fn.name)
           row == IF IsBuiltin(Fn)
                  THEN BuiltinRow([Linked(Fn) EXCEPT !.name = res.ret], - Fn.entry)
                  ELSE CodeRow(res.ret, call.image, call.at)
           fills == Fills(fns, Fn.name, call.overrideFns)
           name == Fn.name
<1>1. /\ AtFn /\ Loading /\ ~ Missing /\ call.at <= Len(Fns[call.image])
      /\ Fn = Fns[call.image][call.at]
      /\ fns' = IF fills THEN Assign(fns, name, row) ELSE fns
      /\ sb' = IF fills THEN res.sb ELSE sb
      /\ call' = [call EXCEPT !.at = @ + 1]
      /\ alive' = alive /\ builtins' = builtins /\ globals' = globals
      /\ loaded' = loaded /\ held' = held /\ strange' = strange /\ outcome' = outcome
  BY DEF LoadFn, AtFn, Fn, LoadedFns
<1>2. /\ alive /\ IsLoad(call) /\ outcome = NoLoad
      /\ FnsFilled(call, fns, builtins) /\ GlobalsFilled(call, globals)
      /\ Fns[call.image] \in Seq(FnEntry)
  BY <1>1, LoadFacts
<1>3. name \in CString /\ name \in Text
  <2>1. call.image \in Images /\ call.at \in 1 .. Len(Fns[call.image])
    BY <1>1, <1>2 DEF IsLoad
  <2>2. Fns[call.image][call.at] \in FnEntry
    BY <1>2, <2>1
  <2>3. Fns[call.image][call.at].name \in Seq(Byte \ {NUL})
    BY <2>1, VMAssumption
  <2> QED BY <1>1, <2>2, <2>3 DEF FnEntry, CString
<1>4. /\ StoreOK(res.sb) /\ Kept(sb, res.sb)
      /\ res.ret \in Handle \cup {NoString} /\ IsName(res.sb, res.ret, strange)
  <2>1. StoreOK(sb)
    BY DEF Inv
  <2> HIDE DEF name
  <2>2. /\ StoreOK(res.sb) /\ Kept(sb, res.sb)
        /\ res.ret # NoString => sb # NoStore /\ res.ret \in DOMAIN res.sb.taken
        /\ res.ret \in Handle \cup {NoString}
    BY <1>3, <2>1, EmplacedKeeps DEF name
  <2> HIDE DEF res
  <2> QED BY <2>2 DEF IsName, Kept
<1> HIDE DEF res, name
<1>5. /\ IsRow(row) /\ row.name = res.ret
      /\ row.type = "builtin" => row.index \in DOMAIN builtins /\ Callable(row.native)
      /\ RowOf(builtins, call.image, call.at, row)
  BY <1>1, <1>4, LoadedRow
<1> HIDE DEF row
<1>6. StoreOK(sb') /\ Kept(sb, sb')
  BY <1>1, <1>4 DEF Inv, Kept, Grown
<1>7. /\ BuiltinsOK(builtins', sb', strange') /\ FnsOK(fns, builtins', sb', strange')
      /\ HeldOK(held', sb', strange')
  BY <1>1, <1>6, KeptTables DEF Inv
<1>8. FnsOK(fns', builtins', sb', strange')
  <2>1. CASE fills
    <3>1. IsName(sb', row.name, strange') /\ fns' = Assign(fns, name, row)
      BY <1>1, <1>4, <1>5, <2>1
    <3> QED BY <1>1, <1>3, <1>5, <1>7, <3>1, FnAssigned
  <2>2. CASE ~ fills
    BY <1>1, <1>7, <2>2
  <2> QED BY <2>1, <2>2
<1>9. /\ IsLoad(call') /\ call'.at = call.at + 1 /\ call'.image = call.image
      /\ call'.overrideFns = call.overrideFns
      /\ call'.overrideGlobals = call.overrideGlobals
      /\ call'.before = call.before
  BY <1>1, <1>2, NextRow
<1>10. FnsFilled(call', fns', builtins')
  BY <1>1, <1>2, <1>5, <1>9, FnFilled DEF name
<1>11. GlobalsFilled(call', globals')
  <2>1. GlobalsDone(call') = {} /\ GlobalsDone(call) = {}
    BY <1>1, <1>2, <1>9, FnsDoneNext
  <2> QED BY <1>1, <1>2, <1>9, <2>1 DEF GlobalsFilled, GlobalsNamed
<1>12. CallOK'
  BY <1>1, <1>2, <1>9, <1>10, <1>11 DEF CallOK
<1>13. Grows
  <2>1. DOMAIN fns \subseteq DOMAIN fns'
    BY <1>1 DEF Assign
  <2> QED BY <1>1, <2>1 DEF Grows
<1>14. /\ alive' \in BOOLEAN /\ loaded' \in Seq(Images) /\ GlobalsOK(globals')
       /\ DeadOK' /\ strange' \subseteq Handle
  BY <1>1, <1>2 DEF Inv, DeadOK
<1> QED BY <1>6, <1>7, <1>8, <1>12, <1>13, <1>14 DEF Inv

LEMMA LoadDefKeeps ==
  ASSUME Inv, LoadDef
  PROVE  Inv' /\ Grows
<1> DEFINE k == call.at - Len(Fns[call.image])
           def == Defs[call.image][k]
<1>1. /\ Loading /\ k \in 1 .. Len(Defs[call.image])
      /\ globals' = IF def.global /\ Fills(globals, def.name, call.overrideGlobals)
                    THEN Assign(globals, def.name, def.val) ELSE globals
      /\ call' = [call EXCEPT !.at = @ + 1]
      /\ alive' = alive /\ sb' = sb /\ builtins' = builtins /\ fns' = fns
      /\ loaded' = loaded /\ held' = held /\ strange' = strange /\ outcome' = outcome
  BY DEF LoadDef, AtDef, DefNo, LoadedFns, LoadedDefs
<1>2. /\ alive /\ IsLoad(call) /\ outcome = NoLoad
      /\ FnsFilled(call, fns, builtins) /\ GlobalsFilled(call, globals)
      /\ Defs[call.image] \in Seq(DefEntry)
  BY <1>1, LoadFacts
<1>3. def \in DefEntry
  BY <1>1, <1>2
<1>4. def.name \in Text /\ def.val \in Nat
  <2> HIDE DEF def
  <2> QED BY <1>3 DEF DefEntry
<1>5. /\ IsLoad(call') /\ call'.at = call.at + 1 /\ call'.image = call.image
      /\ call'.overrideFns = call.overrideFns
      /\ call'.overrideGlobals = call.overrideGlobals
      /\ call'.before = call.before
  BY <1>1, <1>2, NextRow
<1>6. FnsFilled(call', fns', builtins')
  <2>1. FnsDone(call') = FnsDone(call)
    BY <1>1, <1>2, <1>5, GlobalsDoneNext
  <2>2. \A n : FnsNamed(call', n) = FnsNamed(call, n)
    BY <1>5, <2>1 DEF FnsNamed
  <2> QED BY <1>1, <1>2, <1>5, <2>1, <2>2 DEF FnsFilled
<1>7. GlobalsFilled(call', globals')
  <2> HIDE DEF k
  <2> QED BY <1>1, <1>2, <1>5, GlobalFilled DEF k
<1>8. CallOK'
  BY <1>1, <1>2, <1>5, <1>6, <1>7 DEF CallOK
<1> HIDE DEF def, k
<1>9. GlobalsOK(globals') /\ DOMAIN globals \subseteq DOMAIN globals'
  <2>1. GlobalsOK(globals)
    BY DEF Inv
  <2>2. CASE globals' = globals
    BY <2>1, <2>2
  <2>3. CASE globals' = Assign(globals, def.name, def.val)
    <3>1. /\ DOMAIN globals' = DOMAIN globals \cup {def.name}
          /\ globals' \in [DOMAIN globals' -> Nat]
      BY <1>4, <2>1, <2>3 DEF Assign, GlobalsOK
    <3> QED BY <1>4, <2>1, <3>1 DEF GlobalsOK
  <2> QED BY <1>1, <2>2, <2>3
<1>10. Grows
  BY <1>1, <1>9 DEF Grows
<1>11. /\ alive' \in BOOLEAN /\ loaded' \in Seq(Images) /\ DeadOK'
       /\ strange' \subseteq Handle
       /\ StoreOK(sb') /\ BuiltinsOK(builtins', sb', strange')
       /\ FnsOK(fns', builtins', sb', strange') /\ HeldOK(held', sb', strange')
  BY <1>1, <1>2 DEF Inv, DeadOK
<1> QED BY <1>8, <1>9, <1>10, <1>11 DEF Inv

\* A load that returns leaves the tables as they were filled.
LEMMA ReturnKeeps ==
  ASSUME Inv, Loading, NEW ret, Returns(ret),
         UNCHANGED <<alive, sb, builtins, fns, globals, held, strange>>,
         loaded' \in Seq(Images)
  PROVE  Inv' /\ Grows /\ LoadLeaves'
<1>1. /\ alive /\ FnsFilled(call, fns, builtins) /\ GlobalsFilled(call, globals)
  BY LoadFacts
<1>2. call' = NoCall /\ outcome'.call = call
  BY DEF Returns
<1>3. CallOK' /\ DeadOK' /\ Grows
  BY <1>1, <1>2, NoLoadGoingOn DEF DeadOK, Grows
<1>4. LoadLeaves'
  BY <1>1, <1>2 DEF LoadLeaves
<1>5. /\ alive' \in BOOLEAN /\ StoreOK(sb') /\ BuiltinsOK(builtins', sb', strange')
      /\ FnsOK(fns', builtins', sb', strange') /\ HeldOK(held', sb', strange') /\ GlobalsOK(globals')
  BY DEF Inv
<1> QED BY <1>3, <1>4, <1>5 DEF Inv

LEMMA ReturningKeeps ==
  ASSUME Inv, LoadFails \/ LoadStops \/ LoadEnd
  PROVE  Inv' /\ Grows /\ LoadLeaves'
<1>1. CASE LoadFails \/ LoadStops
  <2>1. /\ Loading /\ \E ret \in BOOLEAN : Returns(ret)
        /\ UNCHANGED <<alive, sb, builtins, fns, globals, held, strange>> /\ loaded' = loaded
    BY <1>1 DEF LoadFails, LoadStops, AtFn, tables
  <2> QED BY <2>1, ReturnKeeps DEF Inv
<1>2. CASE LoadEnd
  <2>1. /\ Loading /\ Returns(TRUE) /\ loaded' = Append(loaded, call.image)
        /\ UNCHANGED <<alive, sb, builtins, fns, globals, held, strange>>
    BY <1>2 DEF LoadEnd
  <2>2. call.image \in Images /\ loaded \in Seq(Images)
    BY <2>1, LoadFacts DEF Inv, IsLoad
  <2>3. loaded' \in Seq(Images)
    BY <2>1, <2>2
  <2> QED BY <2>1, <2>3, ReturnKeeps
<1> QED BY <1>1, <1>2

\* A bytecode is loaded once all its functions and globals can be found.
LEMMA LoadEndFinds ==
  ASSUME Inv, LoadEnd, LoadedAreFindable
  PROVE  LoadedAreFindable'
<1> DEFINE b == call.image
<1>1. /\ Loading /\ call.at - Len(Fns[b]) > Len(Defs[b])
      /\ loaded' = Append(loaded, b) /\ fns' = fns /\ globals' = globals
  BY DEF LoadEnd, DefNo, LoadedFns, LoadedDefs
<1>2. /\ IsLoad(call) /\ Fns[b] \in Seq(FnEntry) /\ Defs[b] \in Seq(DefEntry)
      /\ FnsFilled(call, fns, builtins) /\ GlobalsFilled(call, globals)
  BY <1>1, LoadFacts
<1>3. /\ FnsDone(call) = 1 .. Len(Fns[b])
      /\ GlobalsDone(call) = {i \in 1 .. Len(Defs[b]) : Defs[b][i].global}
  BY <1>1, <1>2 DEF IsLoad, FnsDone, GlobalsDone
<1>4. \A i \in 1 .. Len(Fns[b]) : Fns[b][i].name \in DOMAIN fns
  BY <1>2, <1>3 DEF FnsFilled
<1>5. \A i \in 1 .. Len(Defs[b]) : Defs[b][i].global => Defs[b][i].name \in DOMAIN globals
  BY <1>2, <1>3 DEF GlobalsFilled
<1>6. loaded \in Seq(Images) /\ b \in Images
  BY <1>2 DEF Inv, IsLoad
<1>7. \A k \in 1 .. Len(loaded') : loaded'[k] = b \/ (k \in 1 .. Len(loaded) /\ loaded'[k] = loaded[k])
  BY <1>1, <1>6
<1> HIDE DEF b
<1> QED BY <1>1, <1>4, <1>5, <1>7 DEF LoadedAreFindable, qcVMFindFn

-----------------------------------------------------------------------------
(* Every step.                                                               *)
LEMMA NextKeeps ==
  ASSUME Inv, [Next]_vars
  PROVE  Inv' /\ (vars' # vars => Grows)
<1>1. ASSUME NEW createDefaults \in BOOLEAN, qcCreateVM(createDefaults)
      PROVE  Inv' /\ Grows
  BY <1>1, CreateKeeps
<1>2. CASE qcDestroyVM
  BY <1>2, DestroyKeeps
<1>3. CASE qcVMResetDefaultBuiltins
  BY <1>3, StartResetKeeps
<1>4. CASE ResetRow
  BY <1>4, ResetRowKeeps
<1>5. CASE ResetEnd
  BY <1>5, ResetEndKeeps
<1>6. ASSUME NEW index \in Indexes, NEW fn \in Offered,
             NEW overrideExisting \in BOOLEAN,
             qcVMSetBuiltin(index, fn, overrideExisting)
      PROVE  Inv' /\ Grows
  BY <1>6, SetBuiltinKeeps
<1>7. ASSUME NEW index \in Indexes, qcVMGetBuiltin(index)
      PROVE  Inv' /\ Grows
  BY <1>7, GetBuiltinKeeps
<1>8. ASSUME NEW name \in DOMAIN fns, NEW nArgs \in 0 .. MaxParams,
             qcVMExec(name, nArgs)
      PROVE  Inv' /\ Grows
  BY <1>8, ExecKeeps
<1>9. ASSUME NEW b \in Images, NEW overrideFns \in BOOLEAN,
             NEW overrideGlobals \in BOOLEAN,
             qcVMLoadByteCode(b, overrideFns, overrideGlobals)
      PROVE  Inv' /\ Grows
  BY <1>9, StartLoadKeeps
<1>10. CASE LoadFn
  BY <1>10, LoadFnKeeps
<1>11. CASE LoadDef
  BY <1>11, LoadDefKeeps
<1>12. CASE LoadFails \/ LoadStops \/ LoadEnd
  BY <1>12, ReturningKeeps
<1>13. CASE UNCHANGED vars
  <2>1. /\ alive' = alive /\ loaded' = loaded /\ sb' = sb /\ builtins' = builtins
        /\ fns' = fns /\ globals' = globals /\ held' = held /\ call' = call
        /\ strange' = strange /\ outcome' = outcome
    BY <1>13 DEF vars, tables
  <2>2. CallOK' /\ DeadOK'
    BY <2>1 DEF Inv, CallOK, DeadOK, Loading
  <2>3. /\ alive' \in BOOLEAN /\ loaded' \in Seq(Images)
        /\ StoreOK(sb') /\ BuiltinsOK(builtins', sb', strange')
        /\ FnsOK(fns', builtins', sb', strange') /\ HeldOK(held', sb', strange')
        /\ GlobalsOK(globals') /\ strange' \subseteq Handle
    BY <2>1 DEF Inv
  <2> QED BY <1>13, <2>2, <2>3 DEF Inv
<1> QED BY <1>1, <1>2, <1>3, <1>4, <1>5, <1>6, <1>7, <1>8, <1>9, <1>10,
           <1>11, <1>12, <1>13 DEF Next, Load

THEOREM VMInv == Spec => []Inv
BY InvInit, NextKeeps, PTL DEF Spec

\* What a load left stays as it is until the next call that changes a table.
LEMMA LoadLeavesKept ==
  ASSUME Inv, LoadLeaves, [Next]_vars
  PROVE  LoadLeaves'
<1>1. CASE /\ outcome' = outcome /\ fns' = fns /\ builtins' = builtins
           /\ globals' = globals
  BY <1>1 DEF LoadLeaves
<1>2. CASE outcome' = NoLoad
  BY <1>2 DEF LoadLeaves
<1>3. CASE LoadFails \/ LoadStops \/ LoadEnd
  BY <1>3, ReturningKeeps
<1>4. CASE \E createDefaults \in BOOLEAN : qcCreateVM(createDefaults)
  BY <1>2, <1>4 DEF qcCreateVM, Inv, DeadOK
<1>5. CASE qcDestroyVM \/ qcVMResetDefaultBuiltins
  BY <1>2, <1>5 DEF qcDestroyVM, qcVMResetDefaultBuiltins
<1>6. CASE ResetRow \/ LoadFn \/ LoadDef
  <2>1. call # NoCall /\ outcome' = outcome
    BY <1>6 DEF ResetRow, LoadFn, LoadDef, AtFn, AtDef, Resetting, Loading
  <2> QED BY <1>2, <2>1 DEF Inv, CallOK
<1>7. CASE ResetEnd \/ \E index \in Indexes : qcVMGetBuiltin(index)
  BY <1>1, <1>7 DEF ResetEnd, qcVMGetBuiltin, tables
<1>8. CASE \E index \in Indexes, fn \in Offered, overrideExisting \in BOOLEAN :
             qcVMSetBuiltin(index, fn, overrideExisting)
  BY <1>2, <1>8 DEF qcVMSetBuiltin
<1>9. CASE \E name \in DOMAIN fns, nArgs \in 0 .. MaxParams : qcVMExec(name, nArgs)
  BY <1>2, <1>9 DEF qcVMExec
<1>10. CASE \E b \in Images, overrideFns, overrideGlobals \in BOOLEAN :
              qcVMLoadByteCode(b, overrideFns, overrideGlobals)
  BY <1>2, <1>10 DEF qcVMLoadByteCode
<1>11. CASE UNCHANGED vars
  BY <1>1, <1>11 DEF vars, tables
<1> QED BY <1>3, <1>4, <1>5, <1>6, <1>7, <1>8, <1>9, <1>10, <1>11 DEF Next, Load

\* What was loaded can be found after every step.
LEMMA LoadedAreFindableKept ==
  ASSUME Inv, LoadedAreFindable, [Next]_vars
  PROVE  LoadedAreFindable'
<1>1. Inv' /\ (vars' # vars => Grows)
  BY NextKeeps
<1>2. CASE loaded' = <<>>
  BY <1>2 DEF LoadedAreFindable
<1>3. CASE ~ alive'
  BY <1>1, <1>2, <1>3 DEF Inv, DeadOK
<1>4. CASE UNCHANGED vars
  BY <1>4 DEF LoadedAreFindable, qcVMFindFn, vars, tables
<1>5. CASE LoadEnd
  BY <1>5, LoadEndFinds
<1>6. CASE alive' /\ loaded' = loaded /\ vars' # vars
  <2>1. DOMAIN fns \subseteq DOMAIN fns' /\ DOMAIN globals \subseteq DOMAIN globals'
    BY <1>1, <1>6 DEF Grows
  <2> QED BY <1>6, <2>1 DEF LoadedAreFindable, qcVMFindFn
<1>7. CASE Next /\ ~ LoadEnd
  <2>1. loaded' = loaded \/ ~ alive'
    BY <1>7 DEF Next, Load, qcCreateVM, qcDestroyVM, qcVMResetDefaultBuiltins,
       ResetRow, ResetEnd, qcVMSetBuiltin, qcVMGetBuiltin, qcVMExec,
       qcVMLoadByteCode, LoadFn, LoadFails, LoadStops, LoadDef, tables
  <2> QED BY <1>3, <1>4, <1>6, <2>1
<1> QED BY <1>4, <1>5, <1>7

-----------------------------------------------------------------------------
\* The tables, the store and the call have their types, the rows in the tables
\* of builtins and functions among them.
THEOREM VMTyped == Spec => []TypeOK
<1>1. ASSUME Inv PROVE TypeOK
  <2>1. alive \in BOOLEAN /\ (sb # NoStore => IsStringStore(sb)) /\ loaded \in Seq(Images)
    BY <1>1 DEF Inv, StoreOK, StoreInv
  <2>2. /\ DOMAIN builtins \subseteq Nat /\ DOMAIN fns \subseteq Text
        /\ \A i \in DOMAIN builtins : builtins[i] = BuiltinRow(builtins[i].native, i)
        /\ \A n \in DOMAIN fns : IsRow(fns[n])
    BY <1>1 DEF Inv, BuiltinsOK, FnsOK
  <2>3. DOMAIN globals \subseteq Text /\ globals \in [DOMAIN globals -> Nat]
    BY <1>1 DEF Inv, GlobalsOK
  <2>4. held \in Native \cup {NoFn} /\ strange \subseteq Handle
    BY <1>1 DEF Inv, HeldOK
  <2>5. Loading => call.image \in Images /\ call.at \in Nat
    BY <1>1, LoadFacts DEF IsLoad
  <2> QED BY <2>1, <2>2, <2>3, <2>4, <2>5 DEF TypeOK
<1> QED BY <1>1, VMInv, PTL

\* The name stored in a function is a handle that is taken, however much is
\* emplaced and overridden after it was stored, or no name (vm.cpp:281, :520),
\* or the one name that the copy of a builtin of an earlier VM brought along.
THEOREM NamesStayTaken == Spec => []NamesAreTaken
<1>1. Inv => NamesAreTaken
  BY DEF Inv, FnsOK, IsName, NamesAreTaken
<1> QED BY <1>1, VMInv, PTL

\* A function that stands for a builtin has the index of one in the table, and
\* no more parameters than a call passes (vm.cpp:383).
THEOREM BuiltinsStayBacked == Spec => []BuiltinsBacked
<1>1. Inv => BuiltinsBacked
  BY DEF Inv, FnsOK, Callable, BuiltinsBacked
<1> QED BY <1>1, VMInv, PTL

\* A load leaves, of the functions and globals it got to, the last of a name
\* when it overrides and else the first of a name that was free, whether it
\* ends, fails or stops half way (vm.cpp:447-548).
THEOREM LoadsLeave == Spec => []LoadLeaves
<1>1. Init => LoadLeaves
  BY DEF Init, LoadLeaves
<1> QED BY <1>1, LoadLeavesKept, VMInv, PTL DEF Spec

\* Every function and global of a loaded bytecode can be found, whatever is
\* loaded, reset, set and run afterwards.
THEOREM LoadedStayFindable == Spec => []LoadedAreFindable
<1>1. Init => LoadedAreFindable
  BY DEF Init, LoadedAreFindable
<1> QED BY <1>1, LoadedAreFindableKept, VMInv, PTL DEF Spec

\* As long as the VM lives, no step takes a row out of a table: what
\* qcVMFindFn returned still points into it (vm.cpp:379).
THEOREM NothingIsTaken == Spec => NothingDisappears
<1>1. ASSUME Inv, [Next]_vars
      PROVE  [alive' => /\ DOMAIN fns \subseteq DOMAIN fns'
                        /\ DOMAIN builtins \subseteq DOMAIN builtins'
                        /\ DOMAIN globals \subseteq DOMAIN globals']_vars
  BY <1>1, NextKeeps DEF Grows
<1> QED BY <1>1, VMInv, PTL DEF Spec, NothingDisappears

-----------------------------------------------------------------------------
(***************************************************************************)
(* The handles of VMs.  OneHolder alone is not inductive: that a VM goes from *)
(* a hand into a handle without pushing another one out needs that the place  *)
(* a thread constructs in stays without a handle, and that the handle a       *)
(* thread destroys stays empty, while other threads move and assign.        *)
(***************************************************************************)

\* The shape of what a thread does, with the state of the places it does it to.
Shape(t) ==
  /\ op[t].at = "idle" => op[t] = Idle
  /\ op[t].at \in {"put", "exchange", "drop", "end"} =>
       op[t].dst \in Slot /\ op[t].src \in Slot
  /\ op[t].at = "put" => m_vm[op[t].dst] = Raw
  /\ op[t].at \in {"exchange", "drop"} => m_vm[op[t].dst] # Raw
  /\ op[t].at = "end" => op[t].dst = op[t].src /\ m_vm[op[t].dst] = Null
  /\ op[t].at = "use" => op[t].src \in Slot /\ m_vm[op[t].src] = op[t].vm

Shapes == \A t \in Thread : Shape(t)

\* Nobody else changes a handle that is being constructed or destroyed, and
\* nobody changes one that is used.
Touches(u, s) == op[u].at # "use" /\ s \in {op[u].dst, op[u].src}

Exclusive ==
  \A t, u \in Thread :
    /\ op[t].at \in {"put", "end"} /\ t # u => ~ Touches(u, op[t].dst)
    /\ op[t].at = "use" => ~ Touches(u, op[t].src)

\* A VM is in one handle, or in one hand, or in neither when it is not alive.
Holds(t, vm) == op[t].at # "use" /\ op[t].vm = vm

Apart ==
  \A vm \in VM :
    /\ \A s, r \in Slot : m_vm[s] = vm /\ m_vm[r] = vm => s = r
    /\ \A t, u \in Thread : Holds(t, vm) /\ Holds(u, vm) => t = u
    /\ \A s \in Slot, t \in Thread : ~ (m_vm[s] = vm /\ Holds(t, vm))

NoneLost ==
  \A vm \in VM :
    vm \in living <=> \/ \E s \in Slot : m_vm[s] = vm
                     \/ \E t \in Thread : Holds(t, vm)

HandleInv == HandleTypeOK /\ Shapes /\ Exclusive /\ Apart /\ NoneLost

USE VMHandleAssumption

LEMMA HandleInvInit == HandleInit => HandleInv
  BY DEF HandleInit, HandleInv, HandleTypeOK, Shapes, Shape, Exclusive, Touches, Apart, NoneLost,
         Holds, Idle, Op

LEMMA InvConstruct ==
  ASSUME HandleInv, NEW t \in Thread, NEW s \in Slot, Construct(t, s)
  PROVE  HandleInv'
<1>1. PICK vm \in VM \ living :
        /\ living' = living \cup {vm}
        /\ m_vm' = [m_vm EXCEPT ![s] = vm]
  BY DEF Construct
<1>2. op' = op /\ m_vm[s] = Raw /\ \A u \in Thread : ~ Touches(u, s)
  BY DEF Construct, IsHandle, Changing, Touches
<1>3. HandleTypeOK'
  BY <1>1, <1>2 DEF HandleInv, HandleTypeOK
<1>4. Shapes'
  <2> SUFFICES ASSUME NEW u \in Thread PROVE Shape(u)'
    BY DEF Shapes
  <2>1. Shape(u) /\ ~ Touches(u, s) /\ op[u] \in Op
    BY <1>2 DEF HandleInv, Shapes, HandleTypeOK
  <2> QED BY <1>1, <1>2, <1>3, <2>1 DEF HandleInv, HandleTypeOK, Shape, Touches, Op
<1>5. Exclusive'
  BY <1>2 DEF HandleInv, Exclusive, Touches
<1>6. Apart'
  BY <1>1, <1>2 DEF HandleInv, HandleTypeOK, Apart, NoneLost, Holds
<1>7. NoneLost'
  BY <1>1, <1>2 DEF HandleInv, HandleTypeOK, NoneLost, Holds
<1> QED BY <1>3, <1>4, <1>5, <1>6, <1>7 DEF HandleInv

LEMMA InvMoveConstruct ==
  ASSUME HandleInv, NEW t \in Thread, NEW dst \in Slot, NEW src \in Slot, MoveConstruct(t, dst, src)
  PROVE  HandleInv'
<1>1. /\ m_vm' = [m_vm EXCEPT ![src] = Null]
      /\ op' = [op EXCEPT ![t] = [at |-> "put", dst |-> dst, src |-> src,
                                 vm |-> m_vm[src]]]
      /\ living' = living
  BY DEF MoveConstruct, Emptied, Now
<1>2. /\ op[t] = Idle /\ m_vm[dst] = Raw /\ m_vm[src] # Raw
      /\ \A u \in Thread : ~ Touches(u, dst)
      /\ \A u \in Thread : op[u].at = "use" => op[u].src # src
      /\ \A u \in Thread : op[u].at = "end" => ~ Touches(u, src)
  BY DEF MoveConstruct, Emptied, Now, IsHandle, Changing, Using, Touches
<1>3. HandleTypeOK'
  BY <1>1, <1>2 DEF HandleInv, HandleTypeOK, Op, Shapes, Shape, Idle
<1>4. Shapes'
  <2> SUFFICES ASSUME NEW u \in Thread PROVE Shape(u)'
    BY DEF Shapes
  <2>1. Shape(u) /\ op[u] \in Op /\ Shape(t) /\ op[t] \in Op
    BY DEF HandleInv, Shapes, HandleTypeOK
  <2> QED BY <1>1, <1>2, <1>3, <2>1 DEF HandleInv, HandleTypeOK, Shape, Touches, Op, Exclusive, Idle
<1>5. Exclusive'
  BY <1>1, <1>2 DEF HandleInv, HandleTypeOK, Op, Shapes, Shape, Exclusive, Touches, Idle
<1>6. Apart'
  BY <1>1, <1>2 DEF HandleInv, HandleTypeOK, Op, Shapes, Shape, Apart, Holds, Idle
<1>7. NoneLost'
  BY <1>1, <1>2 DEF HandleInv, HandleTypeOK, Op, Shapes, Shape, Apart, NoneLost, Holds, Idle
<1> QED BY <1>3, <1>4, <1>5, <1>6, <1>7 DEF HandleInv

LEMMA InvPut ==
  ASSUME HandleInv, NEW t \in Thread, Put(t)
  PROVE  HandleInv'
<1>1. /\ m_vm' = [m_vm EXCEPT ![op[t].dst] = op[t].vm]
      /\ op' = [op EXCEPT ![t] = Idle]
      /\ living' = living
  BY DEF Put, Now
<1>2. op[t].at = "put"
  BY DEF Put, Now, IsHandle, Changing, Using, Touches
<1>3. HandleTypeOK'
  BY <1>1, <1>2 DEF HandleInv, HandleTypeOK, Op, Shapes, Shape, Idle
<1>4. Shapes'
  <2> SUFFICES ASSUME NEW u \in Thread PROVE Shape(u)'
    BY DEF Shapes
  <2>1. Shape(u) /\ op[u] \in Op /\ Shape(t) /\ op[t] \in Op
    BY DEF HandleInv, Shapes, HandleTypeOK
  <2> QED BY <1>1, <1>2, <1>3, <2>1 DEF HandleInv, HandleTypeOK, Shape, Touches, Op, Exclusive, Idle
<1>5. Exclusive'
  BY <1>1, <1>2 DEF HandleInv, HandleTypeOK, Op, Shapes, Shape, Exclusive, Touches, Idle
<1>6. Apart'
  BY <1>1, <1>2 DEF HandleInv, HandleTypeOK, Op, Shapes, Shape, Apart, Holds, Idle
<1>7. NoneLost'
  BY <1>1, <1>2 DEF HandleInv, HandleTypeOK, Op, Shapes, Shape, Apart, NoneLost, Holds, Idle
<1> QED BY <1>3, <1>4, <1>5, <1>6, <1>7 DEF HandleInv

LEMMA InvMoveAssign ==
  ASSUME HandleInv, NEW t \in Thread, NEW dst \in Slot, NEW src \in Slot, MoveAssign(t, dst, src)
  PROVE  HandleInv'
<1>1. /\ m_vm' = [m_vm EXCEPT ![src] = Null]
      /\ op' = [op EXCEPT ![t] = [at |-> "exchange", dst |-> dst, src |-> src,
                                 vm |-> m_vm[src]]]
      /\ living' = living
  BY DEF MoveAssign, Emptied, Now
<1>2. /\ op[t] = Idle /\ dst # src /\ m_vm[dst] # Raw /\ m_vm[src] # Raw
      /\ \A u \in Thread, s \in {dst, src} : op[u].at = "use" => op[u].src # s
      /\ \A u \in Thread, s \in {dst, src} : op[u].at = "end" => ~ Touches(u, s)
  BY DEF MoveAssign, Emptied, Now, IsHandle, Changing, Using, Touches
<1>3. HandleTypeOK'
  BY <1>1, <1>2 DEF HandleInv, HandleTypeOK, Op, Shapes, Shape, Idle
<1>4. Shapes'
  <2> SUFFICES ASSUME NEW u \in Thread PROVE Shape(u)'
    BY DEF Shapes
  <2>1. Shape(u) /\ op[u] \in Op /\ Shape(t) /\ op[t] \in Op
    BY DEF HandleInv, Shapes, HandleTypeOK
  <2> QED BY <1>1, <1>2, <1>3, <2>1 DEF HandleInv, HandleTypeOK, Shape, Touches, Op, Exclusive, Idle
<1>5. Exclusive'
  BY <1>1, <1>2 DEF HandleInv, HandleTypeOK, Op, Shapes, Shape, Exclusive, Touches, Idle
<1>6. Apart'
  BY <1>1, <1>2 DEF HandleInv, HandleTypeOK, Op, Shapes, Shape, Apart, Holds, Idle
<1>7. NoneLost'
  BY <1>1, <1>2 DEF HandleInv, HandleTypeOK, Op, Shapes, Shape, Apart, NoneLost, Holds, Idle
<1> QED BY <1>3, <1>4, <1>5, <1>6, <1>7 DEF HandleInv

LEMMA InvExchange ==
  ASSUME HandleInv, NEW t \in Thread, Exchange(t)
  PROVE  HandleInv'
<1>1. /\ m_vm' = [m_vm EXCEPT ![op[t].dst] = op[t].vm]
      /\ op' = [op EXCEPT ![t] = [at |-> "drop", dst |-> op[t].dst,
                                 src |-> op[t].src, vm |-> m_vm[op[t].dst]]]
      /\ living' = living
  BY DEF Exchange, Now
<1>2. op[t].at = "exchange"
  BY DEF Exchange, Now, IsHandle, Changing, Using, Touches
<1>3. HandleTypeOK'
  BY <1>1, <1>2 DEF HandleInv, HandleTypeOK, Op, Shapes, Shape, Idle
<1>4. Shapes'
  <2> SUFFICES ASSUME NEW u \in Thread PROVE Shape(u)'
    BY DEF Shapes
  <2>1. Shape(u) /\ op[u] \in Op /\ Shape(t) /\ op[t] \in Op
    BY DEF HandleInv, Shapes, HandleTypeOK
  <2> QED BY <1>1, <1>2, <1>3, <2>1 DEF HandleInv, HandleTypeOK, Shape, Touches, Op, Exclusive, Idle
<1>5. Exclusive'
  BY <1>1, <1>2 DEF HandleInv, HandleTypeOK, Op, Shapes, Shape, Exclusive, Touches, Idle
<1>6. Apart'
  BY <1>1, <1>2 DEF HandleInv, HandleTypeOK, Op, Shapes, Shape, Apart, Holds, Idle
<1>7. NoneLost'
  BY <1>1, <1>2 DEF HandleInv, HandleTypeOK, Op, Shapes, Shape, Apart, NoneLost, Holds, Idle
<1> QED BY <1>3, <1>4, <1>5, <1>6, <1>7 DEF HandleInv

LEMMA InvDrop ==
  ASSUME HandleInv, NEW t \in Thread, Drop(t)
  PROVE  HandleInv'
<1>1. /\ living' = living \ {op[t].vm}
      /\ op' = [op EXCEPT ![t] = Idle]
      /\ m_vm' = m_vm
  BY DEF Drop, Now
<1>2. op[t].at = "drop"
  BY DEF Drop, Now, IsHandle, Changing, Using, Touches
<1>3. HandleTypeOK'
  BY <1>1, <1>2 DEF HandleInv, HandleTypeOK, Op, Shapes, Shape, Idle
<1>4. Shapes'
  <2> SUFFICES ASSUME NEW u \in Thread PROVE Shape(u)'
    BY DEF Shapes
  <2>1. Shape(u) /\ op[u] \in Op /\ Shape(t) /\ op[t] \in Op
    BY DEF HandleInv, Shapes, HandleTypeOK
  <2> QED BY <1>1, <1>2, <1>3, <2>1 DEF HandleInv, HandleTypeOK, Shape, Touches, Op, Exclusive, Idle
<1>5. Exclusive'
  BY <1>1, <1>2 DEF HandleInv, HandleTypeOK, Op, Shapes, Shape, Exclusive, Touches, Idle
<1>6. Apart'
  BY <1>1, <1>2 DEF HandleInv, HandleTypeOK, Op, Shapes, Shape, Apart, Holds, Idle
<1>7. NoneLost'
  BY <1>1, <1>2 DEF HandleInv, HandleTypeOK, Op, Shapes, Shape, Apart, NoneLost, Holds, Idle
<1> QED BY <1>3, <1>4, <1>5, <1>6, <1>7 DEF HandleInv

LEMMA InvDestroy ==
  ASSUME HandleInv, NEW t \in Thread, NEW s \in Slot, Destroy(t, s)
  PROVE  HandleInv'
<1>1. /\ m_vm' = [m_vm EXCEPT ![s] = Null]
      /\ op' = [op EXCEPT ![t] = [at |-> "end", dst |-> s, src |-> s,
                                 vm |-> m_vm[s]]]
      /\ living' = living
  BY DEF Destroy, Emptied, Now
<1>2. /\ op[t] = Idle /\ m_vm[s] # Raw
      /\ \A u \in Thread : ~ Touches(u, s)
      /\ \A u \in Thread : op[u].at = "use" => op[u].src # s
  BY DEF Destroy, Emptied, Now, IsHandle, Changing, Using, Touches
<1>3. HandleTypeOK'
  BY <1>1, <1>2 DEF HandleInv, HandleTypeOK, Op, Shapes, Shape, Idle
<1>4. Shapes'
  <2> SUFFICES ASSUME NEW u \in Thread PROVE Shape(u)'
    BY DEF Shapes
  <2>1. Shape(u) /\ op[u] \in Op /\ Shape(t) /\ op[t] \in Op
    BY DEF HandleInv, Shapes, HandleTypeOK
  <2> QED BY <1>1, <1>2, <1>3, <2>1 DEF HandleInv, HandleTypeOK, Shape, Touches, Op, Exclusive, Idle
<1>5. Exclusive'
  BY <1>1, <1>2 DEF HandleInv, HandleTypeOK, Op, Shapes, Shape, Exclusive, Touches, Idle
<1>6. Apart'
  BY <1>1, <1>2 DEF HandleInv, HandleTypeOK, Op, Shapes, Shape, Apart, Holds, Idle
<1>7. NoneLost'
  BY <1>1, <1>2 DEF HandleInv, HandleTypeOK, Op, Shapes, Shape, Apart, NoneLost, Holds, Idle
<1> QED BY <1>3, <1>4, <1>5, <1>6, <1>7 DEF HandleInv

LEMMA InvEnd ==
  ASSUME HandleInv, NEW t \in Thread, End(t)
  PROVE  HandleInv'
<1>1. /\ living' = living \ {op[t].vm}
      /\ m_vm' = [m_vm EXCEPT ![op[t].dst] = Raw]
      /\ op' = [op EXCEPT ![t] = Idle]
  BY DEF End, Now
<1>2. op[t].at = "end"
  BY DEF End, Now, IsHandle, Changing, Using, Touches
<1>3. HandleTypeOK'
  BY <1>1, <1>2 DEF HandleInv, HandleTypeOK, Op, Shapes, Shape, Idle
<1>4. Shapes'
  <2> SUFFICES ASSUME NEW u \in Thread PROVE Shape(u)'
    BY DEF Shapes
  <2>1. Shape(u) /\ op[u] \in Op /\ Shape(t) /\ op[t] \in Op
    BY DEF HandleInv, Shapes, HandleTypeOK
  <2> QED BY <1>1, <1>2, <1>3, <2>1 DEF HandleInv, HandleTypeOK, Shape, Touches, Op, Exclusive, Idle
<1>5. Exclusive'
  BY <1>1, <1>2 DEF HandleInv, HandleTypeOK, Op, Shapes, Shape, Exclusive, Touches, Idle
<1>6. Apart'
  BY <1>1, <1>2 DEF HandleInv, HandleTypeOK, Op, Shapes, Shape, Apart, Holds, Idle
<1>7. NoneLost'
  BY <1>1, <1>2 DEF HandleInv, HandleTypeOK, Op, Shapes, Shape, Apart, NoneLost, Holds, Idle
<1> QED BY <1>3, <1>4, <1>5, <1>6, <1>7 DEF HandleInv

LEMMA InvUse ==
  ASSUME HandleInv, NEW t \in Thread, NEW s \in Slot, Use(t, s)
  PROVE  HandleInv'
<1>1. /\ op' = [op EXCEPT ![t] = [at |-> "use", dst |-> Null, src |-> s,
                                 vm |-> m_vm[s]]]
      /\ m_vm' = m_vm /\ living' = living
  BY DEF Use, Now
<1>2. /\ op[t] = Idle /\ m_vm[s] # Raw
      /\ \A u \in Thread : ~ Touches(u, s)
  BY DEF Use, Now, IsHandle, Changing, Using, Touches
<1>3. HandleTypeOK'
  BY <1>1, <1>2 DEF HandleInv, HandleTypeOK, Op, Shapes, Shape, Idle
<1>4. Shapes'
  <2> SUFFICES ASSUME NEW u \in Thread PROVE Shape(u)'
    BY DEF Shapes
  <2>1. Shape(u) /\ op[u] \in Op /\ Shape(t) /\ op[t] \in Op
    BY DEF HandleInv, Shapes, HandleTypeOK
  <2> QED BY <1>1, <1>2, <1>3, <2>1 DEF HandleInv, HandleTypeOK, Shape, Touches, Op, Exclusive, Idle
<1>5. Exclusive'
  BY <1>1, <1>2 DEF HandleInv, HandleTypeOK, Op, Shapes, Shape, Exclusive, Touches, Idle
<1>6. Apart'
  BY <1>1, <1>2 DEF HandleInv, HandleTypeOK, Op, Shapes, Shape, Apart, Holds, Idle
<1>7. NoneLost'
  BY <1>1, <1>2 DEF HandleInv, HandleTypeOK, Op, Shapes, Shape, Apart, NoneLost, Holds, Idle
<1> QED BY <1>3, <1>4, <1>5, <1>6, <1>7 DEF HandleInv

LEMMA InvUsed ==
  ASSUME HandleInv, NEW t \in Thread, Used(t)
  PROVE  HandleInv'
<1>1. /\ op' = [op EXCEPT ![t] = Idle]
      /\ m_vm' = m_vm /\ living' = living
  BY DEF Used, Now
<1>2. op[t].at = "use"
  BY DEF Used, Now, IsHandle, Changing, Using, Touches
<1>3. HandleTypeOK'
  BY <1>1, <1>2 DEF HandleInv, HandleTypeOK, Op, Shapes, Shape, Idle
<1>4. Shapes'
  <2> SUFFICES ASSUME NEW u \in Thread PROVE Shape(u)'
    BY DEF Shapes
  <2>1. Shape(u) /\ op[u] \in Op /\ Shape(t) /\ op[t] \in Op
    BY DEF HandleInv, Shapes, HandleTypeOK
  <2> QED BY <1>1, <1>2, <1>3, <2>1 DEF HandleInv, HandleTypeOK, Shape, Touches, Op, Exclusive, Idle
<1>5. Exclusive'
  BY <1>1, <1>2 DEF HandleInv, HandleTypeOK, Op, Shapes, Shape, Exclusive, Touches, Idle
<1>6. Apart'
  BY <1>1, <1>2 DEF HandleInv, HandleTypeOK, Op, Shapes, Shape, Apart, Holds, Idle
<1>7. NoneLost'
  BY <1>1, <1>2 DEF HandleInv, HandleTypeOK, Op, Shapes, Shape, Apart, NoneLost, Holds, Idle
<1> QED BY <1>3, <1>4, <1>5, <1>6, <1>7 DEF HandleInv

LEMMA HandleInvNext == HandleInv /\ [HandleNext]_handleVars => HandleInv'
<1> SUFFICES ASSUME HandleInv, [HandleNext]_handleVars PROVE HandleInv'
  OBVIOUS
<1>1. CASE UNCHANGED handleVars
  BY <1>1 DEF handleVars, HandleInv, HandleTypeOK, Shapes, Shape, Exclusive, Touches, Apart, NoneLost,
              Holds
<1>2. CASE HandleNext
  BY <1>2, InvConstruct, InvMoveConstruct, InvPut, InvMoveAssign, InvExchange,
     InvDrop, InvDestroy, InvEnd, InvUse, InvUsed
  DEF HandleNext
<1> QED BY <1>1, <1>2

LEMMA HandleInvAlways == HandleSpec => []HandleInv
<1> QED BY HandleInvInit, HandleInvNext, PTL DEF HandleSpec

\* The pointers of handles are VMs, null or no handle, and what a thread does
\* is to places of handles.
THEOREM HandlesTyped == HandleSpec => []HandleTypeOK
<1>1. HandleInv => HandleTypeOK
  BY DEF HandleInv
<1> QED BY <1>1, HandleInvAlways, PTL

\* However moves, assignments and destructions of handles meet (vm.hpp:41-54), a
\* VM is neither leaked nor in two places, and one that was destroyed is in none.
THEOREM HoldersAreUnique == HandleSpec => []OneHolder
<1>1. HandleInv => OneHolder
  <2> SUFFICES ASSUME HandleInv, NEW vm \in VM
               PROVE  IF vm \in living
                      THEN \/ Hands(vm) = {} /\ \E s \in Slot : Handles(vm) = {s}
                           \/ Handles(vm) = {} /\ \E t \in Thread : Hands(vm) = {t}
                      ELSE Handles(vm) = {} /\ Hands(vm) = {}
    BY DEF OneHolder
  <2>1. CASE vm \notin living
    BY <2>1 DEF HandleInv, NoneLost, Holds, Handles, Hands
  <2>2. ASSUME vm \in living, NEW s \in Slot, m_vm[s] = vm
        PROVE  Hands(vm) = {} /\ Handles(vm) = {s}
    BY <2>2 DEF HandleInv, Apart, Holds, Handles, Hands
  <2>3. ASSUME vm \in living, NEW t \in Thread, Holds(t, vm)
        PROVE  Handles(vm) = {} /\ Hands(vm) = {t}
    BY <2>3 DEF HandleInv, Apart, Holds, Handles, Hands
  <2> QED BY <2>1, <2>2, <2>3 DEF HandleInv, NoneLost
<1> QED BY <1>1, HandleInvAlways, PTL

\* The VM a member function uses (vm.hpp:61) is that of its handle and alive,
\* whatever other threads do to other handles.
THEOREM UsedVMsAreAlive == HandleSpec => []UsesAreAlive
<1>1. HandleInv => UsesAreAlive
  BY DEF HandleInv, HandleTypeOK, Op, Shapes, Shape, NoneLost, UsesAreAlive
<1> QED BY <1>1, HandleInvAlways, PTL
=============================================================================
