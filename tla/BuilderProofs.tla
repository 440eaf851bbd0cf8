---------------------------- MODULE BuilderProofs ----------------------------
(***************************************************************************)
(* What holds of a QC_ByteCodeBuilder for any number of threads and any      *)
(* entries: its sections are closed under their references, the indexes it   *)
(* returned stand, and, when nothing is emitted while an add is going on,    *)
(* it implements SectionLog.                                                *)
(***************************************************************************)
EXTENDS Builder, TLAPS

\* The strings end with a NUL, so that an index inside them is a name.
NamesEnd == bc.strBuf # <<>> => bc.strBuf[Len(bc.strBuf)] = NUL

Short == \A s \in Sections : Len(bc[s]) <= MaxLen[s]

EntryPointExists(b, fn) == fn.entryPoint \in 0 .. Len(b.stmts) - 1

\* An entry that may be appended, now or after others were.
EntryOK(s, e) ==
  /\ e \in Entries[s]
  /\ s = "defs" => DefClosed(bc, e)
  /\ s = "fields" => FieldClosed(bc, e)
  /\ s = "fns" => FnClosed(bc, e) /\ EntryPointExists(bc, e)
  /\ s = "strBuf" => StringAccepted(e)

\* The mutex: a thread is in an add exactly while it holds the lock, and what
\* it checked and read is still so.
Holds(t) ==
  LET s == pending[t].sec
      e == pending[t].entry
  IN  /\ s \in Sections
      /\ EntryOK(s, e)
      /\ pending[t].idx = NextIndex(bc, s)
      /\ Len(Added(bc, s, e)[s]) <= MaxLen[s]

LockInv ==
  /\ lock \in Thread \cup {Free}
  /\ \A t \in Thread : IF lock = t THEN Holds(t) ELSE pending[t] = NoAdd

Typed ==
  /\ IsByteCode(bc)
  /\ pending \in [Thread -> Adding \cup {NoAdd}]
  /\ given \subseteq Adding

\* The inductive invariant.
Inv == Typed /\ Short /\ LockInv /\ NamesEnd /\ BuilderClosed /\ IndexesStand

-----------------------------------------------------------------------------
\* One sequence extends another.
Extends(q, p) ==
  /\ Len(p) \in Nat /\ Len(q) \in Nat /\ Len(p) <= Len(q)
  /\ \A k \in 1 .. Len(p) : q[k] = p[k]

\* Appending keeps what was there.
LEMMA AppendFacts ==
  ASSUME NEW T, NEW q \in Seq(T), NEW e \in T
  PROVE  /\ Append(q, e) \in Seq(T) /\ Extends(Append(q, e), q)
         /\ Len(Append(q, e)) = Len(q) + 1 /\ Append(q, e)[Len(q) + 1] = e
<1>1. /\ Append(q, e) \in Seq(T) /\ Len(Append(q, e)) = Len(q) + 1
      /\ \A k \in 1 .. Len(q) : Append(q, e)[k] = q[k]
      /\ Append(q, e)[Len(q) + 1] = e
  OBVIOUS
<1>2. Len(q) \in Nat
  OBVIOUS
<1> QED BY <1>1, <1>2 DEF Extends

LEMMA ConcatFacts ==
  ASSUME NEW T, NEW q \in Seq(T), NEW e \in Seq(T)
  PROVE  /\ q \o e \in Seq(T) /\ Extends(q \o e, q)
         /\ Len(q \o e) = Len(q) + Len(e)
         /\ \A k \in 1 .. Len(e) : (q \o e)[Len(q) + k] = e[k]
<1>1. /\ q \o e \in Seq(T) /\ Len(q \o e) = Len(q) + Len(e)
      /\ \A k \in 1 .. Len(q) : (q \o e)[k] = q[k]
      /\ \A k \in 1 .. Len(e) : (q \o e)[Len(q) + k] = e[k]
  OBVIOUS
<1>2. Len(q) \in Nat /\ Len(e) \in Nat
  OBVIOUS
<1> QED BY <1>1, <1>2 DEF Extends

LEMMA AddedFacts ==
  ASSUME NEW b, IsByteCode(b), NEW s \in Sections, NEW e \in Entries[s],
         NEW a, a = Added(b, s, e)
  PROVE  /\ IsByteCode(a)
         /\ \A r \in Sections : Extends(a[r], b[r])
         /\ \A r \in Sections \ {s} : a[r] = b[r]
         /\ s # "strBuf" =>
              Len(a[s]) = Len(b[s]) + 1 /\ a[s][Len(b[s]) + 1] = e
         /\ s = "strBuf" =>
              /\ e \in Seq(Char) /\ Len(a[s]) = Len(b[s]) + Len(e)
              /\ \A k \in 1 .. Len(e) : a[s][Len(b[s]) + k] = e[k]
<1>1. \A r \in Sections : b[r] \in Seq(Contents(r))
  BY DEF IsByteCode
<1>2. /\ a = [r \in Sections |-> IF r = s THEN a[s] ELSE b[r]]
      /\ a[s] = IF s = "strBuf" THEN b[s] \o e ELSE Append(b[s], e)
  BY DEF Added, IsByteCode
<1>3. /\ a[s] \in Seq(Contents(s)) /\ Extends(a[s], b[s])
      /\ s # "strBuf" =>
           Len(a[s]) = Len(b[s]) + 1 /\ a[s][Len(b[s]) + 1] = e
      /\ s = "strBuf" =>
           /\ e \in Seq(Char) /\ Len(a[s]) = Len(b[s]) + Len(e)
           /\ \A k \in 1 .. Len(e) : a[s][Len(b[s]) + k] = e[k]
  <2>1. CASE s = "strBuf"
    <3>1. e \in Seq(Char) /\ b[s] \in Seq(Char) /\ Contents(s) = Char
      BY <1>1, <2>1, EntryAssumption DEF Contents
    <3>2. a[s] = b[s] \o e
      BY <1>2, <2>1
    <3>3. /\ a[s] \in Seq(Char) /\ Extends(a[s], b[s])
          /\ Len(a[s]) = Len(b[s]) + Len(e)
          /\ \A k \in 1 .. Len(e) : a[s][Len(b[s]) + k] = e[k]
      BY <3>1, <3>2, ConcatFacts
    <3> QED BY <2>1, <3>1, <3>3
  <2>2. CASE s # "strBuf"
    <3>1. b[s] \in Seq(Entries[s]) /\ Contents(s) = Entries[s]
      BY <1>1, <2>2 DEF Contents
    <3>2. a[s] = Append(b[s], e)
      BY <1>2, <2>2
    <3>3. /\ a[s] \in Seq(Entries[s]) /\ Extends(a[s], b[s])
          /\ Len(a[s]) = Len(b[s]) + 1 /\ a[s][Len(b[s]) + 1] = e
      <4>1. e \in Entries[s] /\ b[s] \in Seq(Entries[s])
        BY <3>1
      <4>2. /\ Append(b[s], e) \in Seq(Entries[s])
            /\ Extends(Append(b[s], e), b[s])
            /\ Len(Append(b[s], e)) = Len(b[s]) + 1
            /\ Append(b[s], e)[Len(b[s]) + 1] = e
        BY <4>1, AppendFacts, Zenon
      <4> QED BY <3>2, <4>2
    <3> QED BY <2>2, <3>1, <3>3
  <2> QED BY <2>1, <2>2
<1>4. \A r \in Sections \ {s} : a[r] = b[r]
  BY <1>2
<1>5. \A r \in Sections \ {s} : Extends(b[r], b[r])
  BY <1>1 DEF Extends
<1>6. \A r \in Sections : Extends(a[r], b[r])
  BY <1>3, <1>4, <1>5
<1>7. IsByteCode(a)
  BY <1>1, <1>2, <1>3, <1>4 DEF IsByteCode
<1> QED BY <1>3, <1>4, <1>6, <1>7

\* What resolves in a bytecode resolves in one that extends it.
Grown(a, b) == \A r \in Sections : Extends(a[r], b[r])

LEMMA GrownKeepsClosed ==
  ASSUME NEW a, NEW b, Grown(a, b), NEW e
  PROVE  /\ DefClosed(b, e) => DefClosed(a, e)
         /\ FieldClosed(b, e) => FieldClosed(a, e)
         /\ EntryPointExists(b, e) => EntryPointExists(a, e)
         /\ EntryPointExists(b, e) /\ FnClosed(b, e) => FnClosed(a, e)
<1>1. /\ Extends(a.strBuf, b.strBuf) /\ Extends(a.globals, b.globals)
      /\ Extends(a.stmts, b.stmts)
  BY DEF Grown, Sections
<1>2. \A n : NameResolves(b, n) => NameResolves(a, n)
  BY <1>1 DEF NameResolves, Extends
<1>3. e.globalIdx \in 0 .. Len(b.globals) - 1 =>
        e.globalIdx \in 0 .. Len(a.globals) - 1
  BY <1>1 DEF Extends
<1>4. EntryPointExists(b, e) =>
        EntryPointExists(a, e) /\ e.entryPoint < Len(a.stmts)
  BY <1>1 DEF Extends, EntryPointExists
<1> QED BY <1>2, <1>3, <1>4 DEF DefClosed, FieldClosed, FnClosed

-----------------------------------------------------------------------------
\* What the checks accept may be appended.
LEMMA InsideIsNamed ==
  ASSUME Typed, NamesEnd, NEW n \in Nat, n < Len(bc.strBuf)
  PROVE  NameResolves(bc, n)
<1>1. bc.strBuf \in Seq(Char)
  BY DEF Typed, IsByteCode, Contents, Sections
<1>2. Len(bc.strBuf) \in 1 .. Len(bc.strBuf) /\ bc.strBuf # <<>>
  BY <1>1
<1> QED BY <1>1, <1>2 DEF NamesEnd, NameResolves

LEMMA RefInside ==
  ASSUME NEW n, IsRef(n), NEW s \in Sections, Short, Typed,
         AsSize(n) < Len(bc[s])
  PROVE  n \in Nat /\ n < Len(bc[s])
<1>1. Len(bc[s]) \in Nat /\ Len(bc[s]) <= MaxLen[s] /\ MaxLen[s] \in Nat
      /\ 2 * MaxLen[s] <= SizeMod /\ SizeMod \in Nat
  BY BuilderAssumption, ByteCodeAssumption DEF Short, Typed, IsByteCode
<1>2. n \in Int /\ - (2 * n) <= SizeMod
  BY DEF IsRef
<1>3. CASE n < 0
  <2>1. SizeMod + n < Len(bc[s])
    BY <1>3 DEF AsSize
  <2> QED BY <1>1, <1>2, <2>1
<1>4. CASE n >= 0
  BY <1>1, <1>2, <1>4 DEF AsSize
<1> QED BY <1>2, <1>3, <1>4

LEMMA DefIsOK ==
  ASSUME Inv, NEW e \in Entries["defs"], DefAccepted(e)
  PROVE  EntryOK("defs", e)
<1>1. e.nameIdx \in Nat /\ e.globalIdx \in Nat
  BY EntryAssumption
<1>2. bc.globals \in Seq(Entries["globals"])
  BY DEF Inv, Typed, IsByteCode, Contents, Sections
<1>3. e.nameIdx < Len(bc.strBuf) /\ e.globalIdx < Len(bc.globals)
  BY DEF DefAccepted
<1>4. NameResolves(bc, e.nameIdx)
  BY <1>1, <1>3, InsideIsNamed DEF Inv
<1> QED BY <1>1, <1>2, <1>3, <1>4 DEF EntryOK, DefClosed

LEMMA FieldIsOK ==
  ASSUME Inv, NEW e \in Entries["fields"], FieldAccepted(e)
  PROVE  EntryOK("fields", e)
<1>1. NameResolves(bc, e.nameIdx)
  BY EntryAssumption, InsideIsNamed DEF Inv, FieldAccepted
<1> QED BY <1>1 DEF EntryOK, FieldClosed

LEMMA FnIsOK ==
  ASSUME Inv, NEW e \in Entries["fns"], FnAccepted(e)
  PROVE  EntryOK("fns", e)
<1>1. IsRef(e.nameIdx) /\ IsRef(e.entryPoint)
  BY EntryAssumption
<1>2. e.nameIdx \in Nat /\ e.nameIdx < Len(bc["strBuf"])
  BY <1>1, RefInside DEF Inv, FnAccepted, Sections
<1>3. e.entryPoint \in Nat /\ e.entryPoint < Len(bc["stmts"])
  BY <1>1, RefInside DEF Inv, FnAccepted, Sections
<1>4. NameResolves(bc, e.nameIdx)
  BY <1>2, InsideIsNamed DEF Inv
<1>5. EntryPointExists(bc, e)
  <2>1. Len(bc.stmts) \in Nat
    BY DEF Inv, Typed, IsByteCode, Sections
  <2> QED BY <1>3, <2>1 DEF EntryPointExists
<1> QED BY <1>3, <1>4, <1>5 DEF EntryOK, FnClosed, FnAccepted

\* A call that is let in adds an entry that is closed.
LEMMA AddIsLock ==
  ASSUME Inv, NEW t \in Thread, Add(t)
  PROVE  \E s \in Sections : \E e \in Entries[s] : EntryOK(s, e) /\ Lock(t, s, e)
<1>1. CASE qcBuilderAddStatement(t)
  BY <1>1 DEF qcBuilderAddStatement, EntryOK, Sections
<1>2. CASE qcBuilderAddDef(t)
  BY <1>2, DefIsOK DEF qcBuilderAddDef, Sections
<1>3. CASE qcBuilderAddField(t)
  BY <1>3, FieldIsOK DEF qcBuilderAddField, Sections
<1>4. CASE qcBuilderAddFunction(t)
  BY <1>4, FnIsOK DEF qcBuilderAddFunction, Sections
<1>5. CASE qcBuilderAddGlobal(t)
  BY <1>5 DEF qcBuilderAddGlobal, EntryOK, Sections
<1>6. CASE qcBuilderAddString(t)
  BY <1>6 DEF qcBuilderAddString, EntryOK, Sections
<1> QED BY <1>1, <1>2, <1>3, <1>4, <1>5, <1>6 DEF Add

-----------------------------------------------------------------------------
\* The invariant depends on these variables only.
LEMMA InvUnchanged ==
  Inv /\ UNCHANGED <<bc, lock, pending, given>> => Inv'
BY DEF Inv, Typed, Short, LockInv, Holds, EntryOK, EntryPointExists, NamesEnd,
       BuilderClosed, EntryPointsExist, IndexesStand, Designates

LEMMA InvInit == Init => Inv
<1> SUFFICES ASSUME Init PROVE Inv
  OBVIOUS
<1>1. bc = Empty /\ lock = Free /\ given = {}
      /\ pending = [t \in Thread |-> NoAdd]
  BY DEF Init
<1>2. \A s \in Sections : bc[s] = <<>> /\ Len(bc[s]) = 0
  BY <1>1 DEF Empty
<1>3. IsByteCode(bc)
  BY <1>1, <1>2 DEF IsByteCode, Empty
<1>4. Typed
  BY <1>1, <1>3 DEF Typed
<1>5. Short
  BY <1>2, BuilderAssumption DEF Short
<1>6. LockInv
  BY <1>1, BuilderAssumption DEF LockInv
<1>7. bc.strBuf = <<>> /\ Len(bc.defs) = 0 /\ Len(bc.fields) = 0
      /\ Len(bc.fns) = 0
  BY <1>2 DEF Sections
<1>8. NamesEnd /\ BuilderClosed
  BY <1>7 DEF NamesEnd, BuilderClosed, EntryPointsExist, Closed
<1>9. IndexesStand
  BY <1>1 DEF IndexesStand
<1> QED BY <1>4, <1>5, <1>6, <1>8, <1>9 DEF Inv

LEMMA InvLock ==
  ASSUME Inv, NEW t \in Thread, NEW s \in Sections, NEW e \in Entries[s],
         EntryOK(s, e), Lock(t, s, e)
  PROVE  Inv'
<1> DEFINE add == [sec |-> s, entry |-> e, idx |-> NextIndex(bc, s)]
<1>1. /\ lock = Free /\ lock' = t /\ UNCHANGED <<bc, given>>
      /\ pending' = [pending EXCEPT ![t] = add]
      /\ Len(Added(bc, s, e)[s]) <= MaxLen[s]
  BY DEF Lock, MutexFree
<1>2. NextIndex(bc, s) \in 0 .. MaxLen[s]
  BY BuilderAssumption DEF Inv, Typed, Short, IsByteCode, NextIndex
<1>3. add \in Adding
  BY <1>2 DEF Adding
<1>4. Typed'
  BY <1>1, <1>3 DEF Inv, Typed, IsByteCode, Contents
<1>5. pending'[t] = add /\ \A u \in Thread \ {t} : pending'[u] = pending[u]
  BY <1>1 DEF Inv, Typed
<1>6. LockInv'
  <2>1. Holds(t)'
    BY <1>1, <1>5 DEF Holds, EntryOK, EntryPointExists
  <2>2. \A u \in Thread \ {t} : pending'[u] = NoAdd
    BY <1>1, <1>5, BuilderAssumption DEF Inv, LockInv
  <2> QED BY <1>1, <2>1, <2>2 DEF LockInv
<1>7. (Short /\ NamesEnd /\ BuilderClosed /\ IndexesStand)'
  BY <1>1 DEF Inv, Short, NamesEnd, BuilderClosed, EntryPointsExist, IndexesStand,
              Designates
<1> QED BY <1>4, <1>6, <1>7 DEF Inv

\* What an add appends at the end: the entries before it keep their place, the
\* new one is closed, and the index read under the lock designates it.
LEMMA InvFinish ==
  ASSUME Inv, NEW t \in Thread, Finish(t)
  PROVE  Inv'
<1> DEFINE p == pending[t]
           s == p.sec
           e == p.entry
<1>1. /\ p # NoAdd /\ bc' = Added(bc, s, e) /\ given' = given \cup {p}
      /\ lock' = Free /\ pending' = [pending EXCEPT ![t] = NoAdd]
  BY DEF Finish
<1>2. lock = t /\ p \in Adding
  BY <1>1 DEF Inv, LockInv, Typed
<1>3. Holds(t)
  BY <1>2 DEF Inv, LockInv
<1>4. /\ s \in Sections /\ e \in Entries[s] /\ EntryOK(s, e)
      /\ p.idx = Len(bc[s]) /\ Len(Added(bc, s, e)[s]) <= MaxLen[s]
  BY <1>3 DEF Holds, EntryOK, NextIndex
<1>5. IsByteCode(bc) /\ \A r \in Sections : bc[r] \in Seq(Contents(r))
  BY DEF Inv, Typed, IsByteCode
<1>6. /\ IsByteCode(bc')
      /\ \A r \in Sections : Extends(bc'[r], bc[r])
      /\ \A r \in Sections \ {s} : bc'[r] = bc[r]
      /\ s # "strBuf" =>
           Len(bc'[s]) = Len(bc[s]) + 1 /\ bc'[s][Len(bc[s]) + 1] = e
      /\ s = "strBuf" =>
           /\ e \in Seq(Char) /\ Len(bc'[s]) = Len(bc[s]) + Len(e)
           /\ \A k \in 1 .. Len(e) : bc'[s][Len(bc[s]) + k] = e[k]
  <2>1. s \in Sections /\ e \in Entries[s] /\ IsByteCode(bc)
    BY <1>4, <1>5
  <2> HIDE DEF s, e
  <2>2. \A a : a = Added(bc, s, e) =>
          /\ IsByteCode(a)
          /\ \A r \in Sections : Extends(a[r], bc[r])
          /\ \A r \in Sections \ {s} : a[r] = bc[r]
          /\ s # "strBuf" =>
               Len(a[s]) = Len(bc[s]) + 1 /\ a[s][Len(bc[s]) + 1] = e
          /\ s = "strBuf" =>
               /\ e \in Seq(Char) /\ Len(a[s]) = Len(bc[s]) + Len(e)
               /\ \A k \in 1 .. Len(e) : a[s][Len(bc[s]) + k] = e[k]
    BY <2>1, AddedFacts
  <2> QED BY <1>1, <2>2
<1>7. Grown(bc', bc)
  BY <1>6 DEF Grown
<1> HIDE DEF s, e
<1>8. Typed'
  BY <1>1, <1>2, <1>6 DEF Inv, Typed
<1>9. Short'
  BY <1>1, <1>4, <1>6 DEF Inv, Short
<1>10. LockInv'
  <2>1. \A u \in Thread \ {t} : pending[u] = NoAdd
    BY <1>2 DEF Inv, LockInv
  <2>2. \A u \in Thread : pending'[u] = NoAdd
    BY <1>1, <2>1 DEF Inv, Typed
  <2> QED BY <1>1, <2>2, BuilderAssumption DEF LockInv
<1>11. NamesEnd'
  <2>1. CASE s = "strBuf"
    <3>1. e # <<>> /\ e[Len(e)] = NUL
      BY <1>4, <2>1 DEF EntryOK, StringAccepted
    <3>2. /\ e \in Seq(Char) /\ bc.strBuf \in Seq(Char)
          /\ Len(bc'.strBuf) = Len(bc.strBuf) + Len(e)
          /\ \A k \in 1 .. Len(e) : bc'.strBuf[Len(bc.strBuf) + k] = e[k]
      BY <1>5, <1>6, <2>1 DEF Contents, Sections
    <3>3. Len(e) \in 1 .. Len(e)
      BY <3>1, <3>2
    <3> QED BY <3>1, <3>2, <3>3 DEF NamesEnd
  <2>2. CASE s # "strBuf"
    BY <1>6, <2>2 DEF Inv, NamesEnd, Sections
  <2> QED BY <2>1, <2>2
<1>12. BuilderClosed'
  <2>1. ASSUME NEW r \in Sections \ {"strBuf"}, NEW i \in 1 .. Len(bc'[r])
        PROVE  \/ i \in 1 .. Len(bc[r]) /\ bc'[r][i] = bc[r][i]
               \/ s = r /\ bc'[r][i] = e
    <3>1. Len(bc[r]) \in Nat
      BY <1>5
    <3>2. CASE i \in 1 .. Len(bc[r])
      BY <1>6, <3>2 DEF Extends
    <3>3. CASE i \notin 1 .. Len(bc[r])
      <4>1. s = r
        BY <1>6, <3>3
      <4> QED BY <1>6, <3>1, <3>3, <4>1
    <3> QED BY <3>2, <3>3
  <2>2. \A i \in 1 .. Len(bc'.defs) : DefClosed(bc', bc'.defs[i])
    <3> SUFFICES ASSUME NEW i \in 1 .. Len(bc'.defs)
                 PROVE  DefClosed(bc, bc'.defs[i])
      BY <1>7, GrownKeepsClosed
    <3>1. i \in 1 .. Len(bc.defs) => DefClosed(bc, bc.defs[i])
      BY DEF Inv, BuilderClosed, Closed
    <3>2. s = "defs" => DefClosed(bc, e)
      BY <1>4 DEF EntryOK
    <3> QED BY <2>1, <3>1, <3>2 DEF Sections
  <2>3. \A i \in 1 .. Len(bc'.fields) : FieldClosed(bc', bc'.fields[i])
    <3> SUFFICES ASSUME NEW i \in 1 .. Len(bc'.fields)
                 PROVE  FieldClosed(bc, bc'.fields[i])
      BY <1>7, GrownKeepsClosed
    <3>1. i \in 1 .. Len(bc.fields) => FieldClosed(bc, bc.fields[i])
      BY DEF Inv, BuilderClosed, Closed
    <3>2. s = "fields" => FieldClosed(bc, e)
      BY <1>4 DEF EntryOK
    <3> QED BY <2>1, <3>1, <3>2 DEF Sections
  <2>4. ASSUME NEW i \in 1 .. Len(bc'.fns)
        PROVE  FnClosed(bc', bc'.fns[i]) /\ EntryPointExists(bc', bc'.fns[i])
    <3> SUFFICES FnClosed(bc, bc'.fns[i]) /\ EntryPointExists(bc, bc'.fns[i])
      BY <1>7, GrownKeepsClosed
    <3>1. i \in 1 .. Len(bc.fns) =>
            FnClosed(bc, bc.fns[i]) /\ EntryPointExists(bc, bc.fns[i])
      BY DEF Inv, BuilderClosed, EntryPointsExist, EntryPointExists, Closed
    <3>2. s = "fns" => FnClosed(bc, e) /\ EntryPointExists(bc, e)
      BY <1>4 DEF EntryOK
    <3> QED BY <2>1, <3>1, <3>2 DEF Sections
  <2>5. EntryPointsExist'
    BY <2>4 DEF EntryPointsExist, EntryPointExists
  <2> QED BY <2>2, <2>3, <2>4, <2>5 DEF BuilderClosed, Closed
<1>13. IndexesStand'
  <2> SUFFICES ASSUME NEW g \in given' PROVE Designates(g)'
    BY DEF IndexesStand
  <2>1. g.sec \in Sections /\ g.idx \in Nat /\ g.entry \in Entries[g.sec]
    BY <1>1, <1>2, BuilderAssumption DEF Inv, Typed, Adding
  <2>2. CASE g \in given
    <3>1. Designates(g)
      BY <2>2 DEF Inv, IndexesStand
    <3>2. Extends(bc'[g.sec], bc[g.sec])
      BY <1>6, <2>1
    <3>3. CASE g.sec = "strBuf"
      <4>1. g.entry \in Seq(Char)
        BY <2>1, <3>3, EntryAssumption
      <4> QED BY <2>1, <3>1, <3>2, <3>3, <4>1 DEF Designates, Extends
    <3>4. CASE g.sec # "strBuf"
      BY <2>1, <3>1, <3>2, <3>4 DEF Designates, Extends
    <3> QED BY <3>3, <3>4
  <2>3. CASE g \notin given
    <3>1. g = p /\ g.sec = s /\ g.entry = e /\ g.idx = Len(bc[s])
      BY <1>1, <1>4, <2>3 DEF s, e
    <3>2. CASE s = "strBuf"
      <4>1. /\ e \in Seq(Char) /\ bc.strBuf \in Seq(Char)
            /\ Len(bc'.strBuf) = Len(bc.strBuf) + Len(e)
            /\ \A k \in 1 .. Len(e) : bc'.strBuf[Len(bc.strBuf) + k] = e[k]
        BY <1>5, <1>6, <3>2 DEF Contents, Sections
      <4> QED BY <3>1, <3>2, <4>1 DEF Designates
    <3>3. CASE s # "strBuf"
      <4>1. Len(bc'[s]) = Len(bc[s]) + 1 /\ bc'[s][Len(bc[s]) + 1] = e
            /\ Len(bc[s]) \in Nat
        BY <1>4, <1>5, <1>6, <3>3
      <4> QED BY <3>1, <3>3, <4>1 DEF Designates
    <3> QED BY <3>2, <3>3
  <2> QED BY <2>2, <2>3
<1> QED BY <1>8, <1>9, <1>10, <1>11, <1>12, <1>13 DEF Inv

LEMMA InvDestroyBuilder ==
  ASSUME Inv, qcDestroyBuilder
  PROVE  Inv'
<1>1. /\ bc' = Empty /\ given' = {} /\ UNCHANGED <<lock, pending>>
      /\ lock = Free
  BY DEF qcDestroyBuilder, Idle
<1>2. \A s \in Sections : bc'[s] = <<>> /\ Len(bc'[s]) = 0
  BY <1>1 DEF Empty
<1>3. IsByteCode(bc')
  BY <1>1, <1>2 DEF IsByteCode, Empty
<1>4. Typed' /\ Short'
  BY <1>1, <1>2, <1>3, BuilderAssumption DEF Inv, Typed, Short
<1>5. LockInv'
  BY <1>1, BuilderAssumption DEF Inv, LockInv
<1>6. bc'.strBuf = <<>> /\ Len(bc'.defs) = 0 /\ Len(bc'.fields) = 0
      /\ Len(bc'.fns) = 0
  BY <1>2 DEF Sections
<1>7. (NamesEnd /\ BuilderClosed)'
  BY <1>6 DEF NamesEnd, BuilderClosed, EntryPointsExist, Closed
<1>8. IndexesStand'
  BY <1>1 DEF IndexesStand
<1> QED BY <1>4, <1>5, <1>7, <1>8 DEF Inv

LEMMA InvNext == Inv /\ [Next]_vars => Inv'
<1> SUFFICES ASSUME Inv, [Next]_vars PROVE Inv'
  OBVIOUS
<1>1. ASSUME NEW t \in Thread, Add(t) PROVE Inv'
  BY <1>1, AddIsLock, InvLock
<1>2. ASSUME NEW t \in Thread, Finish(t) PROVE Inv'
  BY <1>2, InvFinish
<1>3. ASSUME NEW t \in Thread, EmitBegin(t) PROVE Inv'
  BY <1>3, InvUnchanged DEF EmitBegin
<1>4. CASE EmitCopy
  BY <1>4, InvUnchanged DEF EmitCopy
<1>5. CASE EmitEnd
  BY <1>5, InvUnchanged DEF EmitEnd
<1>6. CASE qcDestroyByteCode
  BY <1>6, InvUnchanged DEF qcDestroyByteCode
<1>7. CASE qcDestroyBuilder
  BY <1>7, InvDestroyBuilder
<1>8. CASE qcCreateBuilder
  BY <1>8, InvUnchanged DEF qcCreateBuilder
<1>9. CASE UNCHANGED vars
  BY <1>9, InvUnchanged DEF vars
<1> QED BY <1>1, <1>2, <1>3, <1>4, <1>5, <1>6, <1>7, <1>8, <1>9 DEF Next

LEMMA InvAlways == Spec => []Inv
BY InvInit, InvNext, PTL DEF Spec

\* However the adds of any number of threads interleave, and whatever is
\* emitted meanwhile, every name, global and entry point a section of the
\* builder refers to exists (the checks of bytecode.cpp:284-350).
THEOREM BuilderIsClosed == Spec => []BuilderClosed
<1>1. Inv => BuilderClosed
  BY DEF Inv
<1> QED BY <1>1, InvAlways, PTL

\* An index that an add returned designates what it added as long as the
\* builder lives (bytecode.h:194-234).
THEOREM IndexesStay == Spec => []IndexesStand
<1>1. Inv => IndexesStand
  BY DEF Inv
<1> QED BY <1>1, InvAlways, PTL

\* Every section is copied, once.
LEMMA CopyOrderFacts ==
  /\ Len(CopyOrder) = 6
  /\ \A i \in 1 .. 6 : CopyOrder[i] \in Sections
  /\ \A s \in Sections : \E i \in 1 .. 6 : CopyOrder[i] = s
  /\ \A i, j \in 1 .. 6 : CopyOrder[i] = CopyOrder[j] => i = j
<1>1. /\ Len(CopyOrder) = 6
      /\ CopyOrder[1] = "stmts" /\ CopyOrder[2] = "defs"
      /\ CopyOrder[3] = "fields" /\ CopyOrder[4] = "fns"
      /\ CopyOrder[5] = "globals" /\ CopyOrder[6] = "strBuf"
  BY DEF CopyOrder
<1>2. \A i \in 1 .. 6 : i = 1 \/ i = 2 \/ i = 3 \/ i = 4 \/ i = 5 \/ i = 6
  OBVIOUS
<1> QED BY <1>1, <1>2 DEF Sections

-----------------------------------------------------------------------------
\* Types.  An emit that races with adds copies vectors or tears them.
UnorderedTyped ==
  /\ unordered = [t \in Thread |-> unordered[t]]
  /\ \A t \in Thread :
       bc \in unordered[t] /\ \A b \in unordered[t] : IsByteCode(b)

EmissionTyped ==
  emission # NoEmit =>
    /\ emission.by \in Thread
    /\ emission.copied \in 0 .. Len(CopyOrder)
    /\ emission.out = [s \in Sections |-> emission.out[s]]
    /\ \A s \in Sections : emission.out[s] \in Seq(Contents(s)) \cup {Torn}

Flags == alive \in BOOLEAN /\ allocator \in {Allocator, Wild}

LEMMA CopiesTyped ==
  ASSUME Inv, UnorderedTyped, NEW t \in Thread, NEW s \in Sections,
         NEW c \in Copies(t, s)
  PROVE  c \in Seq(Contents(s)) \cup {Torn}
<1>1. ASSUME NEW u \in Thread, pending[u] # NoAdd
      PROVE  IsByteCode(Added(bc, pending[u].sec, pending[u].entry))
  <2>1. Holds(u)
    BY <1>1 DEF Inv, LockInv
  <2>2. /\ pending[u].sec \in Sections
        /\ pending[u].entry \in Entries[pending[u].sec]
    BY <2>1 DEF Holds, EntryOK
  <2> QED BY <2>2, AddedFacts DEF Inv, Typed
<1>2. ASSUME NEW b \in Observable(t) PROVE IsByteCode(b)
  BY <1>1, <1>2 DEF Observable, UnorderedTyped
<1>3. c = Torn \/ \E b \in Observable(t) : c = b[s]
  BY DEF Copies
<1> QED BY <1>2, <1>3 DEF IsByteCode

LEMMA UnorderedStep ==
  ASSUME Inv, Inv', UnorderedTyped, [Next]_vars
  PROVE  UnorderedTyped'
<1>1. IsByteCode(bc) /\ IsByteCode(bc')
  BY DEF Inv, Typed
<1>2. UNCHANGED <<bc, unordered>> => UnorderedTyped'
  BY DEF UnorderedTyped, IsByteCode, Contents
<1>3. ASSUME NEW t \in Thread, Add(t) PROVE UnorderedTyped'
  <2>1. PICK s \in Sections : \E e \in Entries[s] : Lock(t, s, e)
    BY <1>3, AddIsLock
  <2>2. bc' = bc /\ unordered' = [unordered EXCEPT ![t] = {bc}]
    BY <2>1 DEF Lock
  <2>3. /\ unordered' = [u \in Thread |-> unordered'[u]]
        /\ \A u \in Thread : unordered'[u] = IF u = t THEN {bc} ELSE unordered[u]
    BY <2>2 DEF UnorderedTyped
  <2> QED BY <1>1, <2>2, <2>3 DEF UnorderedTyped, IsByteCode, Contents
<1>4. ASSUME NEW t \in Thread, Finish(t) PROVE UnorderedTyped'
  <2>1. unordered' = [u \in Thread |-> IF u = t \/ Quiesced THEN {bc'}
                                       ELSE unordered[u] \cup {bc'}]
    BY <1>4 DEF Finish
  <2>2. /\ unordered' = [u \in Thread |-> unordered'[u]]
        /\ \A u \in Thread : /\ bc' \in unordered'[u]
                             /\ unordered'[u] \subseteq unordered[u] \cup {bc'}
    BY <2>1
  <2> QED BY <1>1, <2>2 DEF UnorderedTyped, IsByteCode, Contents
<1>5. CASE qcDestroyBuilder
  <2>1. bc' = Empty /\ unordered' = [t \in Thread |-> {Empty}]
    BY <1>5 DEF qcDestroyBuilder
  <2> QED BY <1>1, <2>1 DEF UnorderedTyped, IsByteCode, Contents
<1>6. ASSUME NEW t \in Thread, EmitBegin(t) PROVE UNCHANGED <<bc, unordered>>
  BY <1>6 DEF EmitBegin
<1>7. EmitCopy \/ EmitEnd \/ qcDestroyByteCode \/ qcCreateBuilder \/ UNCHANGED vars
        => UNCHANGED <<bc, unordered>>
  BY DEF EmitCopy, EmitEnd, qcDestroyByteCode, qcCreateBuilder, vars
<1> QED BY <1>2, <1>3, <1>4, <1>5, <1>6, <1>7 DEF Next

LEMMA TypedStep ==
  ASSUME Inv, UnorderedTyped, EmissionTyped, Flags, [Next]_vars
  PROVE  EmissionTyped' /\ Flags'
<1>1. ASSUME NEW t \in Thread, Add(t) PROVE EmissionTyped' /\ Flags'
  <2>1. PICK s \in Sections : \E e \in Entries[s] : Lock(t, s, e)
    BY <1>1, AddIsLock
  <2> QED BY <2>1 DEF Lock, EmissionTyped, Flags
<1>2. ASSUME NEW t \in Thread, Finish(t) PROVE EmissionTyped' /\ Flags'
  BY <1>2 DEF Finish, EmissionTyped, Flags
<1>3. ASSUME NEW t \in Thread, EmitBegin(t) PROVE EmissionTyped' /\ Flags'
  <2>1. /\ UNCHANGED <<alive, allocator>>
        /\ emission'.by = t /\ emission'.out = Empty /\ emission'.copied = 0
    BY <1>3 DEF EmitBegin
  <2>2. /\ Empty = [s \in Sections |-> Empty[s]]
        /\ \A s \in Sections : Empty[s] \in Seq(Contents(s))
    BY DEF Empty
  <2> QED BY <2>1, <2>2, CopyOrderFacts DEF EmissionTyped, Flags
<1>4. CASE EmitCopy
  <2> DEFINE n == emission.copied + 1
             s == CopyOrder[n]
  <2>1. /\ emission # NoEmit /\ emission.copied \in 0 .. 5
        /\ UNCHANGED <<alive, allocator>>
    BY <1>4, CopyOrderFacts DEF EmitCopy, EmissionTyped
  <2>2. PICK c \in Copies(emission.by, s) :
          emission' = [by     |-> emission.by,
                       out    |-> [emission.out EXCEPT ![s] = c],
                       copied |-> n]
    BY <1>4 DEF EmitCopy
  <2>3. n \in 1 .. 6 /\ s \in Sections
    BY <2>1, CopyOrderFacts
  <2>4. emission.by \in Thread /\ c \in Seq(Contents(s)) \cup {Torn}
    <3>1. emission.by \in Thread
      BY <2>1 DEF EmissionTyped
    <3> HIDE DEF s
    <3> QED BY <2>2, <2>3, <3>1, CopiesTyped
  <2>5. /\ emission.out = [r \in Sections |-> emission.out[r]]
        /\ \A r \in Sections : emission.out[r] \in Seq(Contents(r)) \cup {Torn}
    BY <2>1 DEF EmissionTyped
  <2> DEFINE out == [emission.out EXCEPT ![s] = c]
  <2>6. out = [r \in Sections |-> out[r]]
    BY <2>3, <2>5
  <2>7. \A r \in Sections : out[r] = IF r = s THEN c ELSE emission.out[r]
    BY <2>3, <2>5
  <2>8. \A r \in Sections : out[r] \in Seq(Contents(r)) \cup {Torn}
    BY <2>4, <2>5, <2>7
  <2>9. /\ emission'.by = emission.by /\ emission'.out = out
        /\ emission'.copied = n
    BY <2>2
  <2> HIDE DEF out, s, n
  <2> QED BY <2>1, <2>3, <2>4, <2>6, <2>8, <2>9, CopyOrderFacts
          DEF EmissionTyped, Flags
<1>5. CASE EmitEnd
  BY <1>5 DEF EmitEnd, EmissionTyped, Flags
<1>6. CASE qcDestroyByteCode
  BY <1>6 DEF qcDestroyByteCode, EmissionTyped, Flags
<1>7. CASE qcDestroyBuilder
  BY <1>7 DEF qcDestroyBuilder, EmissionTyped, Flags
<1>8. CASE qcCreateBuilder
  BY <1>8 DEF qcCreateBuilder, Uninitialized, EmissionTyped, Flags
<1>9. CASE UNCHANGED vars
  BY <1>9 DEF vars, EmissionTyped, Flags
<1> QED BY <1>1, <1>2, <1>3, <1>4, <1>5, <1>6, <1>7, <1>8, <1>9 DEF Next

\* The variables keep their types, those of a racing emit included.
THEOREM BuilderTyped == Spec => []TypeOK
<1>1. Init => UnorderedTyped /\ EmissionTyped /\ Flags
  <2>1. IsByteCode(Empty)
    BY DEF IsByteCode, Empty
  <2> QED BY <2>1 DEF Init, Uninitialized, UnorderedTyped, EmissionTyped, Flags
<1>2. Inv /\ Inv' /\ UnorderedTyped /\ EmissionTyped /\ Flags /\ [Next]_vars
        => UnorderedTyped' /\ EmissionTyped' /\ Flags'
  BY TypedStep, UnorderedStep
<1>3. Inv /\ UnorderedTyped /\ EmissionTyped /\ Flags => TypeOK
  BY DEF Inv, Typed, LockInv, UnorderedTyped, EmissionTyped, Flags, TypeOK
<1> QED BY <1>1, <1>2, <1>3, InvAlways, PTL DEF Spec

-----------------------------------------------------------------------------
\* Emitting while no add is going on, and ordered after all that ended: what
\* is copied stays what the builder has, so that the copy that is complete is
\* the builder's state.
Ordered == unordered = [t \in Thread |-> {bc}]

EmissionInv ==
  emission # NoEmit =>
    /\ lock = Free
    /\ emission.by \in Thread
    /\ emission.copied \in 0 .. Len(CopyOrder)
    /\ emission.out = [s \in Sections |-> emission.out[s]]
    /\ \A i \in 1 .. emission.copied :
         emission.out[CopyOrder[i]] = bc[CopyOrder[i]]

EmittedInv ==
  emitted # NotEmitted =>
    /\ emitted.snapshot
    /\ IsByteCode(emitted.sections)
    /\ Closed(emitted.sections)

\* The copy that is complete equals the sections it was made of.
LEMMA CompleteCopy ==
  ASSUME Inv, EmissionInv, EmitEnd
  PROVE  emission.out = bc
<1>1. /\ emission # NoEmit /\ emission.copied = 6
      /\ emission.out = [s \in Sections |-> emission.out[s]]
      /\ \A i \in 1 .. 6 : emission.out[CopyOrder[i]] = bc[CopyOrder[i]]
  BY CopyOrderFacts DEF EmissionInv, EmitEnd
<1>2. \A s \in Sections : emission.out[s] = bc[s]
  BY <1>1, CopyOrderFacts
<1>3. bc = [s \in Sections |-> bc[s]]
  BY DEF Inv, Typed, IsByteCode
<1> QED BY <1>1, <1>2, <1>3

LEMMA OrderedStep ==
  ASSUME Quiesced, Inv, Ordered, [Next]_vars
  PROVE  Ordered'
<1>1. ASSUME NEW t \in Thread, Add(t) PROVE Ordered'
  <2>1. PICK s \in Sections : \E e \in Entries[s] : Lock(t, s, e)
    BY <1>1, AddIsLock
  <2>2. bc' = bc /\ unordered' = [unordered EXCEPT ![t] = {bc}]
    BY <2>1 DEF Lock
  <2> QED BY <2>2 DEF Ordered
<1>2. ASSUME NEW t \in Thread, Finish(t) PROVE Ordered'
  BY <1>2 DEF Finish, Ordered
<1>3. CASE qcDestroyBuilder
  BY <1>3 DEF qcDestroyBuilder, Ordered
<1>4. ASSUME NEW t \in Thread, EmitBegin(t) PROVE Ordered'
  BY <1>4 DEF EmitBegin, Ordered
<1>5. EmitCopy \/ EmitEnd \/ qcDestroyByteCode \/ qcCreateBuilder \/ UNCHANGED vars
        => Ordered'
  BY DEF EmitCopy, EmitEnd, qcDestroyByteCode, qcCreateBuilder, vars, Ordered
<1> QED BY <1>1, <1>2, <1>3, <1>4, <1>5 DEF Next

\* With the mutex free and everything ordered there is one state to observe.
LEMMA OneObservable ==
  ASSUME Inv, Ordered, lock = Free, NEW t \in Thread
  PROVE  Observable(t) = {bc} /\ \A s \in Sections : Copies(t, s) = {bc[s]}
<1>1. \A u \in Thread : pending[u] = NoAdd
  BY BuilderAssumption DEF Inv, LockInv
<1>2. unordered[t] = {bc}
  BY DEF Ordered
<1>3. Observable(t) = {bc}
  BY <1>1, <1>2 DEF Observable
<1>4. \A s \in Sections : {b[s] : b \in Observable(t)} = {bc[s]}
  BY <1>3
<1> QED BY <1>3, <1>4 DEF Copies

LEMMA EmissionStep ==
  ASSUME Quiesced, Inv, Ordered, EmissionInv, EmittedInv, [Next]_vars
  PROVE  EmissionInv' /\ EmittedInv'
<1>1. ASSUME NEW t \in Thread, Add(t) PROVE EmissionInv' /\ EmittedInv'
  <2>1. PICK s \in Sections : \E e \in Entries[s] : Lock(t, s, e)
    BY <1>1, AddIsLock
  <2>2. emission = NoEmit /\ UNCHANGED <<emission, emitted>>
    BY <2>1 DEF Lock
  <2> QED BY <2>2 DEF EmissionInv, EmittedInv
<1>2. ASSUME NEW t \in Thread, Finish(t) PROVE EmissionInv' /\ EmittedInv'
  <2>1. lock = t /\ emission = NoEmit
    BY <1>2, BuilderAssumption DEF Finish, Inv, LockInv, EmissionInv
  <2>2. emission' = NoEmit /\ UNCHANGED emitted
    BY <1>2, <2>1 DEF Finish
  <2> QED BY <2>2 DEF EmissionInv, EmittedInv
<1>3. ASSUME NEW t \in Thread, EmitBegin(t) PROVE EmissionInv' /\ EmittedInv'
  <2>1. /\ lock = Free /\ UNCHANGED <<bc, lock, emitted>>
        /\ emission' = [by |-> t, out |-> Empty, copied |-> 0]
    BY <1>3 DEF EmitBegin
  <2>2. Empty = [s \in Sections |-> Empty[s]]
    BY DEF Empty
  <2> QED BY <2>1, <2>2, CopyOrderFacts DEF EmissionInv, EmittedInv
<1>4. CASE EmitCopy
  <2> DEFINE n == emission.copied + 1
             s == CopyOrder[n]
  <2>1. /\ emission # NoEmit /\ emission.copied \in 0 .. 5 /\ lock = Free
        /\ emission.by \in Thread /\ UNCHANGED <<bc, lock, emitted>>
    BY <1>4, CopyOrderFacts DEF EmitCopy, EmissionInv
  <2>2. n \in 1 .. 6 /\ s \in Sections
    BY <2>1, CopyOrderFacts
  <2>3. Copies(emission.by, s) = {bc[s]}
    <3> HIDE DEF s
    <3> QED BY <2>1, <2>2, OneObservable
  <2>4. emission' = [by     |-> emission.by,
                     out    |-> [emission.out EXCEPT ![s] = bc[s]],
                     copied |-> n]
    BY <1>4, <2>3 DEF EmitCopy
  <2>5. emission.out = [r \in Sections |-> emission.out[r]]
    BY <2>1 DEF EmissionInv
  <2> DEFINE out == [emission.out EXCEPT ![s] = bc[s]]
  <2>6. /\ out = [r \in Sections |-> out[r]]
        /\ out[s] = bc[s]
        /\ \A r \in Sections \ {s} : out[r] = emission.out[r]
    BY <2>2, <2>5
  <2>7. \A i \in 1 .. n : out[CopyOrder[i]] = bc[CopyOrder[i]]
    <3>1. \A i \in 1 .. n - 1 : emission.out[CopyOrder[i]] = bc[CopyOrder[i]]
      BY <2>1 DEF EmissionInv
    <3>2. \A i \in 1 .. n - 1 : CopyOrder[i] \in Sections \ {s}
      BY <2>2, CopyOrderFacts
    <3>3. \A i \in 1 .. n : i = n \/ i \in 1 .. n - 1
      BY <2>2
    <3> HIDE DEF out
    <3> QED BY <2>6, <3>1, <3>2, <3>3
  <2> HIDE DEF out, s, n
  <2>8. /\ emission'.by = emission.by /\ emission'.out = out
        /\ emission'.copied = n
    BY <2>4 DEF out
  <2> QED BY <2>1, <2>2, <2>6, <2>7, <2>8, CopyOrderFacts
          DEF EmissionInv, EmittedInv
<1>5. CASE EmitEnd
  <2>1. /\ emission.out = bc /\ Observable(emission.by) = {bc}
    BY <1>5, CompleteCopy, OneObservable DEF EmissionInv, EmitEnd
  <2>2. emission' = NoEmit /\ emitted'.sections = emission.out
        /\ emitted'.snapshot = (emission.out \in Observable(emission.by))
    BY <1>5 DEF EmitEnd
  <2>3. IsByteCode(bc) /\ Closed(bc)
    BY DEF Inv, Typed, BuilderClosed
  <2> QED BY <2>1, <2>2, <2>3 DEF EmissionInv, EmittedInv
<1>6. CASE qcDestroyByteCode
  BY <1>6 DEF qcDestroyByteCode, EmissionInv, EmittedInv
<1>7. CASE qcDestroyBuilder
  BY <1>7 DEF qcDestroyBuilder, Idle, EmissionInv, EmittedInv
<1>8. CASE qcCreateBuilder
  BY <1>8 DEF qcCreateBuilder, EmissionInv, EmittedInv
<1>9. CASE UNCHANGED vars
  BY <1>9 DEF vars, EmissionInv, EmittedInv
<1> QED BY <1>1, <1>2, <1>3, <1>4, <1>5, <1>6, <1>7, <1>8, <1>9 DEF Next

LEMMA EmissionInit == Init => Ordered /\ EmissionInv /\ EmittedInv
BY DEF Init, Ordered, EmissionInv, EmittedInv

\* All of it stays so.
EmitInv == Ordered /\ EmissionInv /\ EmittedInv

LEMMA EmitInvAlways ==
  ASSUME Quiesced
  PROVE  Spec => []EmitInv
<1>1. Inv /\ EmitInv /\ [Next]_vars => EmitInv'
  BY OrderedStep, EmissionStep DEF EmitInv
<1>2. Init => EmitInv
  BY EmissionInit DEF EmitInv
<1> QED BY <1>1, <1>2, InvAlways, PTL DEF Spec

\* When callers emit only while no add is going on, and after those that ended,
\* what is emitted is the state the builder had during the call
\* (bytecode.h:183) ...
THEOREM EmitsASnapshot ==
  ASSUME Quiesced
  PROVE  Spec => []EmitIsSnapshot
<1>1. EmitInv => EmitIsSnapshot
  BY DEF EmitInv, EmittedInv, EmitIsSnapshot
<1> QED BY <1>1, EmitInvAlways, PTL

\* ... and every reference in it resolves.
THEOREM EmitsClosed ==
  ASSUME Quiesced
  PROVE  Spec => []EmittedClosed
<1>1. EmitInv => EmittedClosed
  <2>1. ASSUME NEW b, IsByteCode(b) PROVE Whole(b)
    BY <2>1, BuilderAssumption DEF IsByteCode, Whole
  <2> QED BY <2>1 DEF EmitInv, EmittedInv, EmittedClosed
<1> QED BY <1>1, EmitInvAlways, PTL

-----------------------------------------------------------------------------
\* The log and the builder have the same bytecode.
LEMMA SameByteCode ==
  /\ Log!Sections = Sections
  /\ Log!Empty = Empty
  /\ \A b, s, e : Log!Added(b, s, e) = Added(b, s, e)
  /\ \A b, e : /\ Log!DefClosed(b, e) = DefClosed(b, e)
               /\ Log!FieldClosed(b, e) = FieldClosed(b, e)
               /\ Log!FnClosed(b, e) = FnClosed(b, e)
<1>1. Log!Sections = Sections
  BY DEF Log!Sections, Sections
<1>2. Log!Empty = Empty
  BY <1>1 DEF Log!Empty, Empty
<1>3. ASSUME NEW b, NEW s, NEW e PROVE Log!Added(b, s, e) = Added(b, s, e)
  BY DEF Log!Added, Added
<1>4. ASSUME NEW b, NEW n
      PROVE  Log!NameResolves(b, n) = NameResolves(b, n)
  BY DEF Log!NameResolves, NameResolves
<1>5. ASSUME NEW b, NEW e
      PROVE  Log!DefClosed(b, e) = DefClosed(b, e)
  BY <1>4 DEF Log!DefClosed, DefClosed
<1>6. ASSUME NEW b, NEW e
      PROVE  Log!FieldClosed(b, e) = FieldClosed(b, e)
  BY <1>4 DEF Log!FieldClosed, FieldClosed
<1>7. ASSUME NEW b, NEW e
      PROVE  Log!FnClosed(b, e) = FnClosed(b, e)
  BY <1>4 DEF Log!FnClosed, FnClosed
<1> QED BY <1>1, <1>2, <1>3, <1>5, <1>6, <1>7

\* Every step of the builder is a step of the log of sections it promises, or
\* changes nothing of it.
LEMMA FinishIsLogAdd ==
  ASSUME Inv, NEW t \in Thread, Finish(t)
  PROVE  Log!LogAdd
<1>1. /\ pending[t] # NoAdd /\ UNCHANGED emitted
      /\ bc' = Added(bc, pending[t].sec, pending[t].entry)
  BY DEF Finish
<1>2. Holds(t)
  BY <1>1 DEF Inv, LockInv
<1>3. /\ pending[t].sec \in Sections
      /\ pending[t].entry \in Entries[pending[t].sec]
      /\ Log!EntryClosed(pending[t].sec, pending[t].entry)
  BY <1>2, SameByteCode DEF Holds, EntryOK, Log!EntryClosed
<1> QED BY <1>1, <1>3, SameByteCode DEF Log!LogAdd

LEMMA EmitEndIsLogEmit ==
  ASSUME Inv, EmissionInv, EmitEnd
  PROVE  Log!LogEmit \/ Log!LogDiscard
<1>1. emission.out = bc
  BY CompleteCopy
<1>2. emitted'.sections = emission.out /\ UNCHANGED bc
  BY DEF EmitEnd
<1> QED BY <1>1, <1>2 DEF Log!LogEmit, Log!LogDiscard

LEMMA NextIsLogNext ==
  ASSUME Inv, EmissionInv, [Next]_vars
  PROVE  [Log!LogNext]_(Log!logVars)
<1>1. ASSUME NEW t \in Thread, Add(t) PROVE UNCHANGED <<bc, emitted>>
  <2>1. PICK s \in Sections : \E e \in Entries[s] : Lock(t, s, e)
    BY <1>1, AddIsLock
  <2> QED BY <2>1 DEF Lock
<1>2. ASSUME NEW t \in Thread, Finish(t) PROVE Log!LogNext
  BY <1>2, FinishIsLogAdd DEF Log!LogNext
<1>3. CASE EmitEnd
  BY <1>3, EmitEndIsLogEmit DEF Log!LogNext
<1>4. CASE qcDestroyByteCode
  BY <1>4 DEF qcDestroyByteCode, Log!LogNext, Log!LogDiscard
<1>5. CASE qcDestroyBuilder
  BY <1>5, SameByteCode DEF qcDestroyBuilder, Log!LogNext, Log!LogRenew
<1>6. CASE EmitCopy \/ qcCreateBuilder \/ UNCHANGED vars
  BY <1>6 DEF EmitCopy, qcCreateBuilder, vars, Log!logVars
<1>7. ASSUME NEW t \in Thread, EmitBegin(t) PROVE UNCHANGED <<bc, emitted>>
  BY <1>7 DEF EmitBegin
<1>8. UNCHANGED <<bc, emitted>> => UNCHANGED Log!logVars
  BY DEF Log!logVars
<1> QED BY <1>1, <1>2, <1>3, <1>4, <1>5, <1>6, <1>7, <1>8 DEF Next

\* The builder keeps what bytecode.h:182-237 promises: a log to which closed
\* entries are added one at a time, and of which the whole is emitted.
THEOREM BuilderImplementsLog ==
  ASSUME Quiesced
  PROVE  Spec => ImplementsLog
<1>1. Init => Log!LogInit
  BY SameByteCode DEF Init, Log!LogInit
<1>2. Inv /\ EmitInv /\ [Next]_vars => [Log!LogNext]_(Log!logVars)
  BY NextIsLogNext DEF EmitInv
<1>3. Spec => Log!LogSpec
  BY <1>1, <1>2, EmitInvAlways, InvAlways, PTL DEF Spec, Log!LogSpec
<1> QED BY <1>3 DEF ImplementsLog
=============================================================================
