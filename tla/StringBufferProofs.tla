-------------------------- MODULE StringBufferProofs --------------------------
(***************************************************************************)
(* What holds of a QC_StringBuffer for every page size, every alphabet and   *)
(* every set of strings.  The inductive invariant is Inv below: no property  *)
(* is inductive alone, because the bounds of the strings, the NULs at the    *)
(* ends of the page and the buffer having one page each rest on the others.  *)
(***************************************************************************)
EXTENDS StringBuffer, StringPagesProofs

-----------------------------------------------------------------------------
\* The inductive invariant of the specification.
Inv ==
  /\ TypeOK
  /\ ExtentsInBounds
  /\ PagesTerminated
  /\ OnePage
  /\ LatestIsStored

\* The state predicates of the buffer are StoreInv, and the views are inside.
ViewsInside ==
  \A v \in views : v.buf = 0 /\ v.off + v.len < PageSize

LEMMA InvIsStoreInv ==
  Inv <=> TypeOK /\ StoreInv(sb) /\ ViewsInside /\ LatestIsStored
<1>1. SUFFICES ASSUME TypeOK, OnePage
               PROVE  /\ ExtentsInBounds /\ PagesTerminated
                         <=> StoreInv(sb) /\ ViewsInside
  BY DEF Inv, StoreInv, OnePage
<1>2. PagesTerminated <=> sb.bufs[1][0] = NUL /\ sb.bufs[1][PageSize - 1] = NUL
  BY <1>1 DEF PagesTerminated, OnePage
<1>3. \A b \in BufIdx : \A o, len : InBounds(b, o, len) <=> b = 0 /\ o + len < PageSize
  BY <1>1 DEF InBounds, OnePage, BufIdx
<1>4. /\ \A h \in DOMAIN sb.taken : h.buf \in BufIdx
      /\ \A v \in views : v.buf \in BufIdx
  BY <1>1 DEF TypeOK, IsStringStore, IsRegistry, Handle, View
<1> QED
  BY <1>1, <1>2, <1>3, <1>4
  DEF ExtentsInBounds, ViewsInside, StoreInv, TypeOK, OnePage

LEMMA InvInit == Init => Inv
<1> SUFFICES ASSUME Init PROVE Inv
  OBVIOUS
<1>1. StoreInv(sb)
  BY StoreCreate DEF Init
<1>2. TypeOK
  BY <1>1 DEF Init, TypeOK, StoreInv, NoEmplace
<1>3. LatestIsStored /\ ViewsInside
  BY DEF Init, LatestIsStored, NoEmplace, ViewsInside
<1> QED BY <1>1, <1>2, <1>3, InvIsStoreInv

LEMMA InvEmplace ==
  ASSUME Inv, NEW text \in Texts, Emplace(text)
  PROVE  /\ TypeOK' /\ StoreInv(sb') /\ ViewsInside' /\ LatestIsStored'
<1> DEFINE res == qcStringBufferEmplace(sb, text)
<1>1. TypeOK /\ StoreInv(sb) /\ ViewsInside /\ LatestIsStored
  BY InvIsStoreInv
<1>2. text \in CString
  BY TextsAssumption DEF CString
<1>3. /\ StoreInv(res.sb)
      /\ ~ Admissible(text) => res = Result(sb, NoString)
      /\ Admissible(text) =>
           /\ res.ret \in Handle /\ res.ret \in DOMAIN res.sb.taken
           /\ res.ret.buf = 0
           /\ Spells(res.sb.bufs[1], res.ret.off, text)
  BY <1>1, <1>2, StoreEmplace
<1> HIDE DEF res
<1>4. sb' = res.sb /\ views' = views
  BY DEF Emplace, res
<1>5. CASE ~ Admissible(text)
  <2>1. res.ret = NoString /\ res.sb = sb
    BY <1>3, <1>5 DEF Result
  <2>2. UNCHANGED vars
    BY <1>4, <2>1 DEF Emplace, res, vars
  <2> QED
    BY <1>1, <2>2 DEF vars, TypeOK, ViewsInside, LatestIsStored
<1>6. CASE Admissible(text)
  <2>1. latest' = [text |-> text, ret |-> res.ret]
    BY <1>3, <1>6, NoStringAssumption DEF Emplace, res
  <2>2. TypeOK'
    BY <1>1, <1>3, <1>4, <1>6, <2>1 DEF TypeOK, StoreInv
  <2>3. LatestIsStored'
    BY <1>3, <1>4, <1>6, <2>1 DEF LatestIsStored
  <2> QED BY <1>1, <1>3, <1>4, <2>2, <2>3 DEF ViewsInside
<1> QED BY <1>5, <1>6

LEMMA InvErase ==
  ASSUME Inv, NEW h \in Passed, NEW clearBytes \in BOOLEAN,
         Erase(h, clearBytes)
  PROVE  /\ TypeOK' /\ StoreInv(sb') /\ ViewsInside' /\ LatestIsStored'
<1> DEFINE res == qcStringBufferErase(sb, h, clearBytes)
<1>1. TypeOK /\ StoreInv(sb) /\ ViewsInside /\ LatestIsStored
  BY InvIsStoreInv
<1>2. StoreInv(res.sb) /\ res.ret \in BOOLEAN /\ (~ res.ret => res.sb = sb)
  BY <1>1, StoreErase
<1> HIDE DEF res
<1>3. sb' = res.sb /\ views' = views
  BY DEF Erase, res
<1>4. CASE ~ res.ret
  <2>1. UNCHANGED vars
    BY <1>2, <1>3, <1>4 DEF Erase, res, vars
  <2> QED
    BY <1>1, <2>1 DEF vars, TypeOK, ViewsInside, LatestIsStored
<1>5. CASE res.ret
  <2>1. latest' = NoEmplace
    BY <1>5 DEF Erase, res
  <2>2. TypeOK'
    BY <1>1, <1>2, <1>3, <2>1 DEF TypeOK, StoreInv, NoEmplace
  <2>3. LatestIsStored'
    BY <2>1 DEF LatestIsStored, NoEmplace
  <2> QED BY <1>1, <1>2, <1>3, <2>2, <2>3 DEF ViewsInside
<1> QED BY <1>2, <1>4, <1>5

LEMMA InvString ==
  ASSUME Inv, NEW h \in Passed, String(h)
  PROVE  /\ TypeOK' /\ StoreInv(sb') /\ ViewsInside' /\ LatestIsStored'
<1>1. TypeOK /\ StoreInv(sb) /\ ViewsInside /\ LatestIsStored
  BY InvIsStoreInv
<1>2. LET v == qcString(sb, h)
      IN  v \in View /\ v.buf = 0 /\ v.off + v.len < PageSize
  <2>1. CASE h \in DOMAIN sb.taken /\ InSomePage(sb, h)
    <3>1. /\ h.buf \in BufIdx /\ h.off \in Offset
          /\ sb.taken[h] \in 1 .. PageSize
      BY <1>1, <2>1 DEF StoreInv, IsStringStore, IsRegistry, Handle
    <3> QED BY <1>1, <2>1, <3>1 DEF qcString, View, StoreInv
  <2>2. CASE ~ (h \in DOMAIN sb.taken /\ InSomePage(sb, h))
    BY <2>2, PageAssumption
    DEF qcString, EmptyView, View, BufIdx, Offset
  <2> QED BY <2>1, <2>2
<1>3. TypeOK' /\ ViewsInside'
  BY <1>1, <1>2 DEF String, TypeOK, ViewsInside
<1> QED BY <1>1, <1>3 DEF String, LatestIsStored

LEMMA InvNext == Inv /\ [Next]_vars => Inv'
<1> SUFFICES ASSUME Inv, [Next]_vars
             PROVE  TypeOK' /\ StoreInv(sb') /\ ViewsInside' /\ LatestIsStored'
  <2>1. Inv' <=> TypeOK' /\ StoreInv(sb)' /\ ViewsInside' /\ LatestIsStored'
    BY InvIsStoreInv, PTL
  <2> QED BY <2>1
<1>1. TypeOK /\ StoreInv(sb) /\ ViewsInside /\ LatestIsStored
  BY InvIsStoreInv
<1>2. CASE \E text \in Texts : Emplace(text)
  BY <1>2, InvEmplace
<1>3. CASE \E h \in Passed, clearBytes \in BOOLEAN : Erase(h, clearBytes)
  BY <1>3, InvErase
<1>4. CASE \E h \in Passed : String(h)
  BY <1>4, InvString
<1>5. CASE \E view \in views : Drop(view)
  BY <1>1, <1>5 DEF Drop, TypeOK, ViewsInside, LatestIsStored
<1>6. CASE UNCHANGED vars
  BY <1>1, <1>6 DEF vars, TypeOK, ViewsInside, LatestIsStored
<1> QED BY <1>2, <1>3, <1>4, <1>5, <1>6 DEF Next

LEMMA InvAlways == Spec => []Inv
<1> QED BY InvInit, InvNext, PTL DEF Spec

\* The pages are pages of bytes, the registry has lengths of handles, and views
\* have the shape of views.
THEOREM StringBufferTyped == Spec => []TypeOK
<1>1. Inv => TypeOK
  BY DEF Inv
<1> QED BY <1>1, InvAlways, PTL

\* Registered strings, and the views callers still hold after the unlock, stay
\* inside their page and before its last byte.
THEOREM ExtentsStayInside == Spec => []ExtentsInBounds
<1>1. Inv => ExtentsInBounds
  BY DEF Inv
<1> QED BY <1>1, InvAlways, PTL

\* The first and the last byte of every page stay NUL, whatever is copied to it
\* and cleared in it.
THEOREM PagesStayTerminated == Spec => []PagesTerminated
<1>1. Inv => PagesTerminated
  BY DEF Inv
<1> QED BY <1>1, InvAlways, PTL

\* There is one page for ever: the code that appends pages never runs.
THEOREM NoSecondPage == Spec => []OnePage
<1>1. Inv => OnePage
  BY DEF Inv
<1> QED BY <1>1, InvAlways, PTL

\* What the latest emplace returned is taken and spells the string.
THEOREM LatestStaysStored == Spec => []LatestIsStored
<1>1. Inv => LatestIsStored
  BY DEF Inv
<1> QED BY <1>1, InvAlways, PTL

-----------------------------------------------------------------------------
\* A string within the size limit is never refused, and only such a string is
\* accepted, in every state of the pages.
THEOREM NeverRefused == Spec => []NeverFull
<1>1. Inv => NeverFull
  <2> SUFFICES ASSUME Inv, NEW text \in Texts
               PROVE  Admissible(text) <=>
                        qcStringBufferEmplace(sb, text).ret # NoString
    BY DEF NeverFull
  <2> DEFINE res == qcStringBufferEmplace(sb, text)
  <2>1. text \in CString /\ StoreInv(sb)
    BY InvIsStoreInv, TextsAssumption DEF CString
  <2>2. /\ ~ Admissible(text) => res = Result(sb, NoString)
        /\ Admissible(text) => res.ret \in Handle
    BY <2>1, StoreEmplace
  <2>3. Result(sb, NoString).ret = NoString
    BY DEF Result
  <2> HIDE DEF res
  <2> QED BY <2>2, <2>3, NoStringAssumption DEF res
<1>2. Inv /\ [Next]_vars => Inv'
  BY InvNext
<1> QED BY <1>1, <1>2, InvInit, PTL DEF Spec

\* A taken handle keeps its length: emplacing never replaces an entry of the
\* registry, and erasing only removes one.
THEOREM LengthsAreLatched == Spec => LengthLatched
<1>1. ASSUME Inv, [Next]_vars, NEW h \in DOMAIN sb.taken \cap DOMAIN sb'.taken
      PROVE  sb'.taken[h] = sb.taken[h]
  <2>1. StoreInv(sb) /\ IsRegistry(sb.taken) /\ sb.bufs[1] \in Page
    BY <1>1, InvIsStoreInv, StoreFacts DEF StoreInv, IsStringStore
  <2>2. ASSUME NEW text \in Texts, Emplace(text) PROVE sb'.taken[h] = sb.taken[h]
    <3>1. text \in CString
      BY TextsAssumption DEF CString
    <3>2. CASE ~ Admissible(text)
      BY <2>2, <3>2 DEF Emplace, qcStringBufferEmplace, Result
    <3>3. CASE Admissible(text)
      <4>1. Len(text) \in 1 .. PageSize
        BY <3>1, <3>3, PageAssumption DEF Admissible, CString
      <4>2. PICK k : sb'.taken = TryEmplace(sb.taken, k, Len(text))
        BY <2>1, <2>2, <3>1, <3>3, EmplaceResult
        DEF Emplace, Taken, Created, Result
      <4> QED BY <4>2, <1>1 DEF TryEmplace
    <3> QED BY <3>2, <3>3
  <2>3. ASSUME NEW k \in Passed, NEW c \in BOOLEAN, Erase(k, c)
        PROVE  sb'.taken[h] = sb.taken[h]
    <3>1. sb'.taken = sb.taken \/ sb'.taken = Without(sb.taken, k)
      BY <2>3 DEF Erase, qcStringBufferErase, Result
    <3> QED BY <1>1, <3>1 DEF Without
  <2>4. CASE UNCHANGED sb
    BY <2>4
  <2> QED BY <1>1, <2>2, <2>3, <2>4 DEF Next, String, Drop, vars
<1>2. Inv /\ [Next]_vars =>
        \A h \in DOMAIN sb.taken \cap DOMAIN sb'.taken :
          sb'.taken[h] = sb.taken[h]
  BY <1>1
<1> QED BY <1>2, InvInit, InvNext, PTL DEF Spec, LengthLatched

-----------------------------------------------------------------------------
\* Emplacing the string emplaced last again returns its handle and leaves the
\* buffer as it is.
THEOREM EmplaceIdempotent == Spec => []EmplaceIsIdempotent
<1>1. Init => EmplaceIsIdempotent
  BY DEF Init, EmplaceIsIdempotent, NoEmplace
<1>2. Inv /\ EmplaceIsIdempotent /\ [Next]_vars => EmplaceIsIdempotent'
  <2> SUFFICES ASSUME Inv, EmplaceIsIdempotent, [Next]_vars
               PROVE  EmplaceIsIdempotent'
    OBVIOUS
  <2>1. ASSUME NEW text \in Texts, Emplace(text) PROVE EmplaceIsIdempotent'
    <3> DEFINE res == qcStringBufferEmplace(sb, text)
    <3>1. StoreInv(sb) /\ text \in CString
      BY InvIsStoreInv, TextsAssumption DEF CString
    <3>2. CASE res.ret = NoString
      <4>1. ~ Admissible(text)
        BY <3>1, <3>2, StoreEmplace, NoStringAssumption
      <4>2. UNCHANGED <<sb, latest>>
        BY <2>1, <3>2, <4>1 DEF Emplace, qcStringBufferEmplace, Result
      <4> QED BY <4>2 DEF EmplaceIsIdempotent
    <3>3. CASE res.ret # NoString
      <4>1. Admissible(text)
        BY <3>3 DEF qcStringBufferEmplace, Result
      <4>2. sb' = res.sb /\ latest' = [text |-> text, ret |-> res.ret]
        BY <2>1, <3>3 DEF Emplace
      <4>3. qcStringBufferEmplace(res.sb, text) = Result(res.sb, res.ret)
        BY <3>1, <4>1, EmplaceAgain
      <4> HIDE DEF res
      <4> QED BY <4>2, <4>3 DEF EmplaceIsIdempotent
    <3> QED BY <3>2, <3>3
  <2>2. ASSUME NEW h \in Passed, NEW c \in BOOLEAN, Erase(h, c)
        PROVE  EmplaceIsIdempotent'
    <3>1. \/ latest' = NoEmplace
          \/ UNCHANGED <<sb, latest>>
      BY <2>2 DEF Erase, qcStringBufferErase, Result
    <3> QED BY <3>1 DEF EmplaceIsIdempotent, NoEmplace
  <2>3. CASE UNCHANGED <<sb, latest>>
    BY <2>3 DEF EmplaceIsIdempotent
  <2> QED BY <2>1, <2>2, <2>3 DEF Next, String, Drop, vars
<1> QED BY <1>1, <1>2, InvInit, InvNext, PTL DEF Spec
=============================================================================
