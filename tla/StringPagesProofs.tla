-------------------------- MODULE StringPagesProofs --------------------------
(***************************************************************************)
(* What the operations on the pages of a QC_StringBuffer keep true, return    *)
(* and leave alone, for every page size and alphabet: the lemmas that the    *)
(* proofs about a buffer and about its owners share.  StoreInv is what every *)
(* operation keeps; the bounds of the strings, the NULs at the ends of the   *)
(* page and there being one page each rest on the others.                   *)
(***************************************************************************)
EXTENDS StringPages, Integers, FiniteSetTheorems, WellFoundedInduction, TLAPS

-----------------------------------------------------------------------------
\* A nonempty set of numbers has a least one.  Induction is not at hand, so it is
\* found through the strict inclusion of the intervals 0 .. x, which the library
\* proves well-founded on finite sets.
LEMMA LeastOfNats ==
  ASSUME NEW S \in SUBSET Nat, S # {}
  PROVE  \E x \in S : \A y \in S : x <= y
<1> DEFINE UpTo == {0 .. x : x \in S}
           Order == StrictSubsetOrdering(Nat)
<1>1. \A x \in S : x \in Nat /\ 0 .. x \in SUBSET Nat /\ IsFiniteSet(0 .. x)
  BY FS_Interval
<1>2. UpTo \subseteq FiniteSubsetsOf(Nat) /\ UpTo # {}
  BY <1>1 DEF FiniteSubsetsOf
<1>3. \E m \in UpTo : \A t \in UpTo : <<t, m>> \notin Order
  <2> HIDE DEF UpTo, Order
  <2> QED BY <1>2, WFMin, FS_StrictSubsetOrderingWellFounded DEF Order
<1>4. PICK x \in S : \A y \in S : <<0 .. y, 0 .. x>> \notin Order
  BY <1>3
<1>5. ASSUME NEW y \in S, y < x PROVE FALSE
  <2>1. 0 .. y \subseteq 0 .. x /\ x \in 0 .. x /\ x \notin 0 .. y
    BY <1>1, <1>5
  <2> QED BY <1>1, <1>4, <2>1 DEF StrictSubsetOrdering
<1> QED BY <1>1, <1>5

\* One with a bound has a greatest one, the farthest from the bound being least.
LEMMA GreatestOfNats ==
  ASSUME NEW S \in SUBSET Nat, S # {}, NEW n \in Nat, \A y \in S : y <= n
  PROVE  \E x \in S : \A y \in S : x >= y
<1> DEFINE Below == {n - y : y \in S}
<1>1. \A y \in S : y \in Nat /\ n - y \in Nat
  OBVIOUS
<1>2. PICK m \in Below : \A k \in Below : m <= k
  <2>1. Below \in SUBSET Nat /\ Below # {}
    BY <1>1
  <2> HIDE DEF Below
  <2> QED BY <2>1, LeastOfNats
<1>3. PICK x \in S : m = n - x
  OBVIOUS
<1>4. \A y \in S : n - x <= n - y
  BY <1>2, <1>3
<1> QED BY <1>1, <1>4
\* The first of a set of numbers is its least.
LEMMA FirstOfNats ==
  ASSUME NEW S \in SUBSET Nat, S # {}
  PROVE  First(S) \in S /\ \A y \in S : First(S) <= y
BY LeastOfNats DEF First

-----------------------------------------------------------------------------
\* What the operations keep true of the buffer alone.
StoreInv(s) ==
  /\ IsStringStore(s)
  /\ Len(s.bufs) = 1
  /\ s.bufs[1][0] = NUL /\ s.bufs[1][PageSize - 1] = NUL
  /\ \A h \in DOMAIN s.taken : h.buf = 0 /\ h.off + s.taken[h] < PageSize

CString == Seq(Byte \ {NUL})

LEMMA StoreFacts ==
  ASSUME NEW s, StoreInv(s)
  PROVE  /\ s.bufs = <<s.bufs[1]>>
         /\ s.bufs[1] \in Page
         /\ s = [bufs |-> s.bufs, taken |-> s.taken]
  BY DEF StoreInv, IsStringStore

\* Registering a length for a free handle keeps the registry one.
LEMMA TryEmplaceFacts ==
  ASSUME NEW t, IsRegistry(t), NEW h \in Handle, NEW n \in 1 .. PageSize
  PROVE  /\ IsRegistry(TryEmplace(t, h, n))
         /\ DOMAIN TryEmplace(t, h, n) = DOMAIN t \cup {h}
         /\ \A k \in DOMAIN t : TryEmplace(t, h, n)[k] = t[k]
         /\ h \notin DOMAIN t => TryEmplace(t, h, n)[h] = n
  BY DEF TryEmplace, IsRegistry

LEMMA WithoutFacts ==
  ASSUME NEW t, IsRegistry(t), NEW h
  PROVE  /\ IsRegistry(Without(t, h))
         /\ DOMAIN Without(t, h) = DOMAIN t \ {h}
         /\ \A k \in DOMAIN t \ {h} : Without(t, h)[k] = t[k]
  BY DEF Without, IsRegistry

\* A copy stays in its page, and lies where it was put.
LEMMA CopiedFacts ==
  ASSUME NEW page \in Page, NEW o \in Nat, NEW text \in CString,
         o + Len(text) <= PageSize
  PROVE  /\ Copied(page, o, text) \in Page
         /\ Spells(Copied(page, o, text), o, text)
         /\ \A i \in Offset : i < o \/ i >= o + Len(text) =>
              Copied(page, o, text)[i] = page[i]
<1> USE PageAssumption DEF Offset, CString
<1>1. Len(text) \in Nat /\ \A i \in 1 .. Len(text) : text[i] \in Byte
  OBVIOUS
<1>2. Copied(page, o, text) \in Page
  BY <1>1 DEF Copied, Page
<1>3. \A i \in 1 .. Len(text) : Copied(page, o, text)[o + i - 1] = text[i]
  <2> TAKE i \in 1 .. Len(text)
  <2>1. o + i - 1 \in Offset /\ o + i - 1 \in o .. o + Len(text) - 1
    BY <1>1
  <2>2. (o + i - 1) - o + 1 = i
    OBVIOUS
  <2> QED BY <2>1, <2>2 DEF Copied
<1>4. \A i \in Offset : i < o \/ i >= o + Len(text) =>
        Copied(page, o, text)[i] = page[i]
  BY <1>1 DEF Copied
<1> QED BY <1>2, <1>3, <1>4 DEF Spells

LEMMA ClearedFacts ==
  ASSUME NEW page \in Page, NEW o, NEW len
  PROVE  /\ Cleared(page, o, len) \in Page
         /\ \A i \in Offset : page[i] = NUL => Cleared(page, o, len)[i] = NUL
  BY PageAssumption DEF Cleared, Page

\* In a terminated page a string without NULs is found nowhere at its end.
LEMMA MatchInside ==
  ASSUME NEW page \in Page, page[PageSize - 1] = NUL, page[0] = NUL,
         NEW text \in CString, Len(text) > 0, NEW o \in Matches(page, text)
  PROVE  o \in Nat /\ o > 0 /\ o + Len(text) < PageSize
<1> USE PageAssumption DEF Offset, CString, Matches, Spells
<1>1. o \in Offset /\ o + Len(text) <= PageSize /\ Len(text) \in Nat
  OBVIOUS
<1>2. \A i \in 1 .. Len(text) : page[o + i - 1] = text[i] /\ text[i] # NUL
  OBVIOUS
<1>3. o + Len(text) # PageSize
  <2> SUFFICES ASSUME o + Len(text) = PageSize PROVE FALSE
    OBVIOUS
  <2>1. Len(text) \in 1 .. Len(text) /\ o + Len(text) - 1 = PageSize - 1
    BY <1>1
  <2> QED BY <2>1, <1>2
<1>4. o # 0
  <2>1. 1 \in 1 .. Len(text) /\ o + 1 - 1 = o
    BY <1>1
  <2> QED BY <2>1, <1>2
<1> QED BY <1>1, <1>3, <1>4

-----------------------------------------------------------------------------
\* With one page there is no handle after its last one: strings go to 1.
LEMMA NextIdxIsOne ==
  ASSUME NEW s, StoreInv(s)
  PROVE  NextIdx(s.taken, 0) = 1
<1>1. AfterLastTaken(s.taken, 0) = {}
  BY DEF StoreInv, AfterLastTaken
<1> QED BY <1>1 DEF NextIdx

\* The two ways a string gets its handle: the first match of the page is
\* taken, or it is copied to offset 1.
FirstMatch(s, text) == HandleAt(0, First(Matches(s.bufs[1], text)))

Takes(s, text) ==
  /\ Matches(s.bufs[1], text) # {}
  /\ FirstMatch(s, text) \in DOMAIN s.taken =>
       s.taken[FirstMatch(s, text)] = Len(text)

Taken(s, text) ==
  Result([bufs  |-> s.bufs,
          taken |-> TryEmplace(s.taken, FirstMatch(s, text), Len(text))],
         FirstMatch(s, text))

Created(s, text) ==
  Result([bufs  |-> <<Copied(s.bufs[1], 1, text)>>,
          taken |-> TryEmplace(s.taken, HandleAt(0, 1), Len(text))],
         HandleAt(0, 1))

LEMMA FirstMatchFacts ==
  ASSUME NEW s, StoreInv(s), NEW text \in CString, Admissible(text),
         Matches(s.bufs[1], text) # {}
  PROVE  LET o == First(Matches(s.bufs[1], text))
         IN  /\ FirstMatch(s, text) \in Handle
             /\ FirstMatch(s, text) = HandleAt(0, o)
             /\ o \in Nat /\ o > 0 /\ o + Len(text) < PageSize
             /\ Spells(s.bufs[1], o, text)
<1> DEFINE o == First(Matches(s.bufs[1], text))
<1>1. o \in Matches(s.bufs[1], text)
  BY FirstOfNats DEF Matches, Offset
<1>2. o \in Nat /\ o > 0 /\ o + Len(text) < PageSize
  BY <1>1, MatchInside, StoreFacts DEF StoreInv, Admissible
<1>3. FirstMatch(s, text) = HandleAt(0, o)
  BY DEF FirstMatch
<1>4. o \in Offset /\ 0 \in BufIdx
  BY <1>1, PageAssumption DEF Matches, BufIdx
<1>5. HandleAt(0, o) \in Handle
  BY <1>4 DEF Handle, HandleAt
<1> QED BY <1>1, <1>2, <1>3, <1>5 DEF Matches

LEMMA EmplaceResult ==
  ASSUME NEW s, StoreInv(s), NEW text \in CString, Admissible(text)
  PROVE  qcStringBufferEmplace(s, text) =
           IF Takes(s, text) THEN Taken(s, text) ELSE Created(s, text)
<1> DEFINE res == IF Takes(s, text) THEN Taken(s, text) ELSE Created(s, text)
           take == qcvm_tryTakeStr(s, 0, text)
           o == First(Matches(s.bufs[1], text))
<1>1. Len(text) \in Nat /\ Len(text) > 0 /\ Len(text) < PageSize - 1
  BY DEF Admissible, CString
<1>2. HandleAt(0, 1) \in Handle
  BY PageAssumption DEF Handle, HandleAt, Offset, BufIdx
<1>3. take = IF Takes(s, text) THEN Taken(s, text) ELSE Result(s, NoString)
  <2>1. CASE Matches(s.bufs[1], text) = {}
    BY <2>1 DEF qcvm_tryTakeStr, Takes
  <2>2. CASE Matches(s.bufs[1], text) # {}
    <3>1. /\ FirstMatch(s, text) = HandleAt(0, o)
          /\ o \in Nat /\ o + Len(text) < PageSize
      BY <2>2, FirstMatchFacts
    <3>2. ~ (o + Len(text) >= PageSize)
      BY <3>1, <1>1, PageAssumption
    <3>3. [s EXCEPT !.taken = TryEmplace(@, HandleAt(0, o), Len(text))]
            = [bufs  |-> s.bufs,
               taken |-> TryEmplace(s.taken, HandleAt(0, o), Len(text))]
      BY StoreFacts
    <3>4. take = IF HandleAt(0, o) \in DOMAIN s.taken
                    /\ s.taken[HandleAt(0, o)] # Len(text)
                 THEN Result(s, NoString)
                 ELSE Result([bufs  |-> s.bufs,
                              taken |-> TryEmplace(s.taken, HandleAt(0, o),
                                                   Len(text))],
                             HandleAt(0, o))
      BY <2>2, <3>1, <3>2, <3>3 DEF qcvm_tryTakeStr
    <3> QED BY <2>2, <3>1, <3>4 DEF Takes, Taken
  <2> QED BY <2>1, <2>2
<1>4. qcvm_tryCreateStr(s, 0, text) = Created(s, text)
  <2>1. NextIdx(s.taken, 0) = 1
    BY NextIdxIsOne
  <2>2. ~ (Len(text) >= PageSize - 1 \/ 1 + Len(text) >= PageSize)
    BY <1>1, PageAssumption
  <2>3. [s.bufs EXCEPT ![0 + 1] = Copied(@, 1, text)]
          = <<Copied(s.bufs[1], 1, text)>>
    BY StoreFacts
  <2> QED BY <2>1, <2>2, <2>3 DEF qcvm_tryCreateStr, Created
<1>5. res.ret \in Handle
  BY <1>2, FirstMatchFacts DEF Takes, Taken, Created, Result
<1>6. TryPage(s, 0, text) = res
  <2>1. CASE Takes(s, text)
    <3>1. take.ret # NoString
      BY <2>1, <1>3, <1>5, NoStringAssumption
    <3> QED BY <2>1, <3>1, <1>3 DEF TryPage
  <2>2. CASE ~ Takes(s, text)
    <3>1. take.ret = NoString
      BY <2>2, <1>3 DEF Result
    <3> QED BY <2>2, <3>1, <1>4 DEF TryPage
  <2> QED BY <2>1, <2>2
<1>7. Accepting(s, text) = {0}
  <2>1. 0 .. Len(s.bufs) - 1 = {0}
    BY DEF StoreInv
  <2>2. TryPage(s, 0, text).ret # NoString
    BY <1>5, <1>6, NoStringAssumption
  <2> QED BY <2>1, <2>2 DEF Accepting
<1>8. First({0}) = 0
  BY FirstOfNats
<1>9. qcvm_emplaceStrBuf(s, text) = TryPage(s, 0, text)
  BY <1>7, <1>8 DEF qcvm_emplaceStrBuf
<1> QED BY <1>6, <1>9 DEF qcStringBufferEmplace

-----------------------------------------------------------------------------
\* Creation, emplacing and erasing keep the invariant of the buffer.
LEMMA StoreCreate == StoreInv(qcCreateStringBuffer)
<1> USE PageAssumption
<1>1. ZeroPage \in Page
  BY DEF ZeroPage, Page
<1>2. HandleAt(0, 0) \in Handle
  BY DEF Handle, HandleAt, Offset, BufIdx
<1>3. IsRegistry([h \in {HandleAt(0, 0)} |-> 1])
  BY <1>2 DEF IsRegistry
<1>4. ZeroPage[0] = NUL /\ ZeroPage[PageSize - 1] = NUL
  BY DEF ZeroPage, Offset
<1>5. \A h \in {HandleAt(0, 0)} : h.buf = 0 /\ h.off + 1 < PageSize
  BY DEF HandleAt
<1> QED
  BY <1>1, <1>3, <1>4, <1>5
  DEF StoreInv, IsStringStore, qcCreateStringBuffer

LEMMA StoreTaken ==
  ASSUME NEW s, StoreInv(s), NEW text \in CString, Admissible(text),
         Takes(s, text)
  PROVE  /\ StoreInv(Taken(s, text).sb)
         /\ Taken(s, text).ret \in DOMAIN Taken(s, text).sb.taken
         /\ Taken(s, text).ret \in Handle /\ Taken(s, text).ret.buf = 0
         /\ Spells(s.bufs[1], Taken(s, text).ret.off, text)
         /\ Taken(s, text).sb.bufs = s.bufs
<1> DEFINE h == FirstMatch(s, text)
           o == First(Matches(s.bufs[1], text))
           t == TryEmplace(s.taken, h, Len(text))
<1>1. /\ h \in Handle /\ h.buf = 0 /\ h.off = o
      /\ o \in Nat /\ o + Len(text) < PageSize
      /\ Spells(s.bufs[1], o, text)
  BY FirstMatchFacts DEF Takes, HandleAt
<1>2. Len(text) \in 1 .. PageSize
  BY PageAssumption DEF Admissible, CString
<1>3. IsRegistry(s.taken)
  BY DEF StoreInv, IsStringStore
<1>4. /\ IsRegistry(t) /\ DOMAIN t = DOMAIN s.taken \cup {h}
      /\ \A k \in DOMAIN s.taken : t[k] = s.taken[k]
      /\ h \notin DOMAIN s.taken => t[h] = Len(text)
  BY <1>1, <1>2, <1>3, TryEmplaceFacts
<1>5. t[h] = Len(text)
  BY <1>4 DEF Takes
<1>6. \A k \in DOMAIN t : k.buf = 0 /\ k.off + t[k] < PageSize
  BY <1>1, <1>4, <1>5 DEF StoreInv
<1>7. StoreInv([bufs |-> s.bufs, taken |-> t])
  BY <1>4, <1>6 DEF StoreInv, IsStringStore
<1> QED BY <1>1, <1>4, <1>7 DEF Taken, Result

LEMMA StoreCreated ==
  ASSUME NEW s, StoreInv(s), NEW text \in CString, Admissible(text)
  PROVE  /\ StoreInv(Created(s, text).sb)
         /\ Created(s, text).ret = HandleAt(0, 1)
         /\ Created(s, text).ret \in Handle
         /\ Created(s, text).ret \in DOMAIN Created(s, text).sb.taken
         /\ Spells(Created(s, text).sb.bufs[1], 1, text)
<1> DEFINE h == HandleAt(0, 1)
           page == Copied(s.bufs[1], 1, text)
           t == TryEmplace(s.taken, h, Len(text))
<1>1. h \in Handle /\ h.buf = 0 /\ h.off = 1
  BY PageAssumption DEF Handle, HandleAt, Offset, BufIdx
<1>2. Len(text) \in 1 .. PageSize /\ 1 + Len(text) < PageSize
  BY PageAssumption DEF Admissible, CString
<1>3. IsRegistry(s.taken) /\ s.bufs[1] \in Page
  BY StoreFacts DEF StoreInv, IsStringStore
<1>4. /\ IsRegistry(t) /\ DOMAIN t = DOMAIN s.taken \cup {h}
      /\ \A k \in DOMAIN s.taken : t[k] = s.taken[k]
      /\ h \notin DOMAIN s.taken => t[h] = Len(text)
  BY <1>1, <1>2, <1>3, TryEmplaceFacts
<1>5. \A k \in DOMAIN t : k.buf = 0 /\ k.off + t[k] < PageSize
  BY <1>1, <1>2, <1>4 DEF StoreInv
<1>6. /\ page \in Page /\ Spells(page, 1, text)
      /\ \A i \in Offset : i < 1 \/ i >= 1 + Len(text) =>
           page[i] = s.bufs[1][i]
  <2>1. 1 \in Nat /\ 1 + Len(text) <= PageSize
    BY <1>2, PageAssumption
  <2> QED BY <1>3, <2>1, CopiedFacts
<1>7. page[0] = NUL /\ page[PageSize - 1] = NUL
  <2>1. 0 \in Offset /\ PageSize - 1 \in Offset
    BY PageAssumption DEF Offset
  <2>2. PageSize - 1 >= 1 + Len(text)
    BY <1>2, PageAssumption
  <2> QED BY <2>1, <2>2, <1>6 DEF StoreInv
<1>8. StoreInv([bufs |-> <<page>>, taken |-> t])
  BY <1>4, <1>5, <1>6, <1>7 DEF StoreInv, IsStringStore
<1> QED BY <1>1, <1>4, <1>6, <1>8 DEF Created, Result

LEMMA StoreEmplace ==
  ASSUME NEW s, StoreInv(s), NEW text \in CString,
         NEW res, res = qcStringBufferEmplace(s, text)
  PROVE  /\ StoreInv(res.sb)
         /\ ~ Admissible(text) => res = Result(s, NoString)
         /\ Admissible(text) =>
              /\ res.ret \in Handle /\ res.ret \in DOMAIN res.sb.taken
              /\ res.ret.buf = 0
              /\ Spells(res.sb.bufs[1], res.ret.off, text)
<1>1. CASE ~ Admissible(text)
  BY <1>1 DEF qcStringBufferEmplace, Result
<1>2. CASE Admissible(text) /\ Takes(s, text)
  <2>1. res = Taken(s, text)
    BY <1>2, EmplaceResult
  <2> QED BY <1>2, <2>1, StoreTaken
<1>3. CASE Admissible(text) /\ ~ Takes(s, text)
  <2>1. res = Created(s, text)
    BY <1>3, EmplaceResult
  <2>2. HandleAt(0, 1).buf = 0 /\ HandleAt(0, 1).off = 1
    BY DEF HandleAt
  <2> QED BY <1>3, <2>1, <2>2, StoreCreated
<1> QED BY <1>1, <1>2, <1>3

LEMMA StoreErase ==
  ASSUME NEW s, StoreInv(s), NEW h, NEW clearBytes \in BOOLEAN,
         NEW res, res = qcStringBufferErase(s, h, clearBytes)
  PROVE  /\ StoreInv(res.sb)
         /\ res.ret \in BOOLEAN
         /\ ~ res.ret => res.sb = s
<1>1. CASE ~ (InSomePage(s, h) /\ h \in DOMAIN s.taken)
  BY <1>1 DEF qcStringBufferErase, Result
<1>2. CASE InSomePage(s, h) /\ h \in DOMAIN s.taken
  <2> DEFINE page == IF clearBytes
                     THEN Cleared(s.bufs[1], h.off, s.taken[h])
                     ELSE s.bufs[1]
             t == Without(s.taken, h)
  <2>1. h.buf + 1 = 1
    BY <1>2 DEF StoreInv
  <2>2. res = Result([bufs |-> <<page>>, taken |-> t], TRUE)
    <3>1. CASE clearBytes
      <4>1. [s.bufs EXCEPT ![1] = Cleared(@, h.off, s.taken[h])] = <<page>>
        BY <3>1, StoreFacts
      <4> QED BY <1>2, <2>1, <3>1, <4>1 DEF qcStringBufferErase
    <3>2. CASE ~ clearBytes
      BY <1>2, <3>2, StoreFacts DEF qcStringBufferErase
    <3> QED BY <3>1, <3>2
  <2>3. page \in Page /\ page[0] = NUL /\ page[PageSize - 1] = NUL
    <3>1. 0 \in Offset /\ PageSize - 1 \in Offset
      BY PageAssumption DEF Offset
    <3> QED BY <3>1, StoreFacts, ClearedFacts DEF StoreInv
  <2>4. /\ IsRegistry(t)
        /\ \A k \in DOMAIN t : k.buf = 0 /\ k.off + t[k] < PageSize
    <3>1. IsRegistry(s.taken)
      BY DEF StoreInv, IsStringStore
    <3>2. /\ IsRegistry(t) /\ DOMAIN t = DOMAIN s.taken \ {h}
          /\ \A k \in DOMAIN s.taken \ {h} : t[k] = s.taken[k]
      BY <3>1, WithoutFacts
    <3> HIDE DEF t
    <3> QED BY <3>2 DEF StoreInv
  <2>5. StoreInv([bufs |-> <<page>>, taken |-> t])
    <3> HIDE DEF page, t
    <3> QED BY <2>3, <2>4 DEF StoreInv, IsStringStore
  <2> QED BY <2>2, <2>5 DEF Result
<1> QED BY <1>1, <1>2

-----------------------------------------------------------------------------
\* A copied string is its page's first match: nothing without NULs matches at
\* offset 0.
LEMMA CreatedIsFirstMatch ==
  ASSUME NEW s, StoreInv(s), NEW text \in CString, Admissible(text)
  PROVE  /\ Matches(Created(s, text).sb.bufs[1], text) # {}
         /\ FirstMatch(Created(s, text).sb, text) = HandleAt(0, 1)
<1> DEFINE c == Created(s, text).sb
           M == Matches(c.bufs[1], text)
<1>1. StoreInv(c) /\ Spells(c.bufs[1], 1, text)
  BY StoreCreated
<1>2. 1 \in M
  BY <1>1, PageAssumption DEF Matches, Offset
<1>3. First(M) \in M /\ \A y \in M : First(M) <= y
  <2>1. M \in SUBSET Nat /\ M # {}
    BY <1>2 DEF Matches, Offset
  <2> HIDE DEF M
  <2> QED BY <2>1, FirstOfNats
<1>4. First(M) \in Nat /\ First(M) > 0
  <2>1. c.bufs[1] \in Page /\ c.bufs[1][0] = NUL /\ c.bufs[1][PageSize - 1] = NUL
    BY <1>1, StoreFacts DEF StoreInv
  <2> QED BY <1>3, <2>1, MatchInside DEF Admissible
<1>5. First(M) = 1
  BY <1>2, <1>3, <1>4
<1> QED BY <1>2, <1>5 DEF FirstMatch

\* Copying a string over itself changes nothing.
LEMMA CopiedTwice ==
  ASSUME NEW page, NEW o, NEW text
  PROVE  Copied(Copied(page, o, text), o, text) = Copied(page, o, text)
  BY DEF Copied

LEMMA EmplaceAgain ==
  ASSUME NEW s, StoreInv(s), NEW text \in CString, Admissible(text),
         NEW res, res = qcStringBufferEmplace(s, text)
  PROVE  qcStringBufferEmplace(res.sb, text) = Result(res.sb, res.ret)
<1>1. StoreInv(res.sb)
  BY StoreEmplace
<1>2. qcStringBufferEmplace(res.sb, text) =
        IF Takes(res.sb, text) THEN Taken(res.sb, text)
                               ELSE Created(res.sb, text)
  BY <1>1, EmplaceResult
<1>3. CASE Takes(s, text)
  <2> DEFINE h == FirstMatch(s, text)
             t == TryEmplace(s.taken, h, Len(text))
  <2>1. res = Result([bufs |-> s.bufs, taken |-> t], h)
    BY <1>3, EmplaceResult DEF Taken
  <2>2. FirstMatch(res.sb, text) = h /\ Matches(res.sb.bufs[1], text) # {}
    BY <1>3, <2>1 DEF FirstMatch, Result, Takes
  <2>3. t[h] = Len(text) /\ h \in DOMAIN t
    BY <1>3 DEF Takes, TryEmplace
  <2>4. Takes(res.sb, text)
    BY <2>1, <2>2, <2>3 DEF Takes, Result
  <2>5. TryEmplace(t, h, Len(text)) = t
    BY <2>3 DEF TryEmplace
  <2> QED BY <1>2, <2>1, <2>2, <2>4, <2>5 DEF Taken, Result
<1>4. CASE ~ Takes(s, text)
  <2> DEFINE h == HandleAt(0, 1)
             t == TryEmplace(s.taken, h, Len(text))
             page == Copied(s.bufs[1], 1, text)
  <2>1. res = Created(s, text)
    BY <1>4, EmplaceResult
  <2>2. res = Result([bufs |-> <<page>>, taken |-> t], h)
    BY <2>1 DEF Created
  <2>3. FirstMatch(res.sb, text) = h
    BY <2>1, CreatedIsFirstMatch
  <2>4. TryEmplace(t, h, Len(text)) = t
    BY DEF TryEmplace
  <2>5. CASE Takes(res.sb, text)
    BY <1>2, <2>2, <2>3, <2>4, <2>5 DEF Taken, Result
  <2>6. CASE ~ Takes(res.sb, text)
    <3>1. Copied(res.sb.bufs[1], 1, text) = page
      BY <2>2, CopiedTwice DEF Result
    <3> HIDE DEF page, t, h
    <3> QED BY <1>2, <2>2, <2>4, <2>6, <3>1 DEF Created, Result, h
  <2> QED BY <2>5, <2>6
<1> QED BY <1>3, <1>4
-----------------------------------------------------------------------------
\* Emplacing only adds to the registry: a taken handle stays taken, with the
\* length it has.
Grown(s, t) ==
  \A h \in DOMAIN s.taken : h \in DOMAIN t.taken /\ t.taken[h] = s.taken[h]

LEMMA EmplaceGrows ==
  ASSUME NEW s, StoreInv(s), NEW text \in CString,
         NEW res, res = qcStringBufferEmplace(s, text)
  PROVE  Grown(s, res.sb)
<1>1. CASE ~ Admissible(text)
  <2>1. res.sb = s
    BY <1>1 DEF qcStringBufferEmplace, Result
  <2> QED BY <2>1 DEF Grown
<1>2. CASE Admissible(text)
  <2>1. PICK k : res.sb.taken = TryEmplace(s.taken, k, Len(text))
    BY <1>2, EmplaceResult DEF Taken, Created, Result
  <2> QED BY <2>1 DEF TryEmplace, Grown
<1> QED BY <1>1, <1>2

\* As long as nothing is erased, there is no NUL inside a registered string,
\* also where a later string was copied over it.
NulFree(s) ==
  \A h \in DOMAIN s.taken :
    h # HandleAt(0, 0) =>
      \A o \in h.off .. h.off + s.taken[h] - 1 : s.bufs[1][o] # NUL

LEMMA NulFreeCreate == NulFree(qcCreateStringBuffer)
BY DEF NulFree, qcCreateStringBuffer

\* A string that lies somewhere has no NUL there.
LEMMA SpelledNulFree ==
  ASSUME NEW page, NEW o \in Nat, NEW text \in CString, Spells(page, o, text)
  PROVE  \A i \in o .. o + Len(text) - 1 : page[i] # NUL
<1>1. Len(text) \in Nat /\ \A i \in 1 .. Len(text) : text[i] # NUL
  BY DEF CString
<1> SUFFICES ASSUME NEW i \in o .. o + Len(text) - 1 PROVE page[i] # NUL
  OBVIOUS
<1>2. i - o + 1 \in 1 .. Len(text) /\ o + (i - o + 1) - 1 = i
  BY <1>1
<1>3. page[o + (i - o + 1) - 1] = text[i - o + 1]
  BY <1>2 DEF Spells
<1> QED BY <1>1, <1>2, <1>3

\* Where a handle that is emplaced was taken already nothing new is registered;
\* else its string has just been found or copied.
LEMMA NulFreeEmplace ==
  ASSUME NEW s, StoreInv(s), NulFree(s), NEW text \in CString,
         NEW res, res = qcStringBufferEmplace(s, text)
  PROVE  /\ NulFree(res.sb)
         /\ Admissible(text) => res.ret # HandleAt(0, 0)
<1>1. CASE ~ Admissible(text)
  <2>1. res.sb = s
    BY <1>1 DEF qcStringBufferEmplace, Result
  <2> QED BY <1>1, <2>1 DEF NulFree
<1>2. CASE Admissible(text)
  <2>1. PICK h : /\ h = res.ret /\ h \in Handle /\ h.off \in Nat \ {0}
                 /\ h.buf = 0
                 /\ res.sb.taken = TryEmplace(s.taken, h, Len(text))
    <3>1. CASE Takes(s, text)
      <4>1. res = Taken(s, text)
        BY <1>2, <3>1, EmplaceResult
      <4>2. FirstMatch(s, text) \in Handle /\ FirstMatch(s, text).off \in Nat \ {0}
            /\ FirstMatch(s, text).buf = 0
        BY <1>2, <3>1, FirstMatchFacts DEF Takes, HandleAt
      <4> QED BY <4>1, <4>2 DEF Taken, Result
    <3>2. CASE ~ Takes(s, text)
      <4>1. res = Created(s, text)
        BY <1>2, <3>2, EmplaceResult
      <4>2. HandleAt(0, 1) \in Handle /\ HandleAt(0, 1).off \in Nat \ {0}
            /\ HandleAt(0, 1).buf = 0
        BY PageAssumption DEF Handle, HandleAt, Offset, BufIdx
      <4> QED BY <4>1, <4>2 DEF Created, Result
    <3> QED BY <3>1, <3>2
  <2>2. h # HandleAt(0, 0)
    BY <2>1 DEF HandleAt
  <2>3. Spells(res.sb.bufs[1], h.off, text)
    BY <1>2, <2>1, StoreEmplace
  <2>4. \A o \in Offset : s.bufs[1][o] # NUL => res.sb.bufs[1][o] # NUL
    <3>1. CASE Takes(s, text)
      BY <1>2, <3>1, EmplaceResult DEF Taken, Result
    <3>2. CASE ~ Takes(s, text)
      <4>1. res.sb.bufs[1] = Copied(s.bufs[1], 1, text)
        BY <1>2, <3>2, EmplaceResult DEF Created, Result
      <4>2. /\ Spells(Copied(s.bufs[1], 1, text), 1, text)
            /\ \A i \in Offset : i < 1 \/ i >= 1 + Len(text) =>
                 Copied(s.bufs[1], 1, text)[i] = s.bufs[1][i]
        <5>1. 1 + Len(text) <= PageSize /\ s.bufs[1] \in Page
          BY <1>2, StoreFacts, PageAssumption DEF Admissible, CString
        <5> QED BY <5>1, CopiedFacts
      <4>3. \A i \in 1 .. 1 + Len(text) - 1 : res.sb.bufs[1][i] # NUL
        BY <4>1, <4>2, SpelledNulFree
      <4>4. \A i \in Offset : \/ i < 1 \/ i >= 1 + Len(text)
                              \/ i \in 1 .. 1 + Len(text) - 1
        BY DEF CString, Offset
      <4> QED BY <4>1, <4>2, <4>3, <4>4
    <3> QED BY <3>1, <3>2
  <2>5. ASSUME NEW k \in DOMAIN res.sb.taken, k # HandleAt(0, 0),
               NEW o \in k.off .. k.off + res.sb.taken[k] - 1
        PROVE  res.sb.bufs[1][o] # NUL
    <3>1. IsRegistry(s.taken)
      BY DEF StoreInv, IsStringStore
    <3>2. CASE k \in DOMAIN s.taken
      <4>1. res.sb.taken[k] = s.taken[k]
        BY <2>1, <3>2 DEF TryEmplace
      <4>2. s.bufs[1][o] # NUL
        BY <2>5, <3>2, <4>1 DEF NulFree
      <4>3. o \in Offset
        <5>1. k.off \in Nat /\ s.taken[k] \in Nat /\ k.off + s.taken[k] < PageSize
          BY <3>1, <3>2 DEF StoreInv, IsRegistry, Handle, Offset
        <5> QED BY <4>1, <5>1, <2>5, PageAssumption DEF Offset
      <4> QED BY <2>4, <4>2, <4>3
    <3>3. CASE k \notin DOMAIN s.taken
      <4>1. k = h /\ res.sb.taken[k] = Len(text)
        BY <2>1, <3>3 DEF TryEmplace
      <4> QED BY <2>1, <2>3, <2>5, <4>1, SpelledNulFree
    <3> QED BY <3>2, <3>3
  <2> QED BY <2>1, <2>2, <2>5 DEF NulFree
<1> QED BY <1>1, <1>2

\* What a reader sees: some text for every handle, and one without NULs for a
\* registered string.
LEMMA ViewedText ==
  ASSUME NEW s, StoreInv(s), NEW h \in Handle \cup {NoString}
  PROVE  Viewed(s, qcString(s, h)) \in Text
<1>1. CASE ~ (h \in DOMAIN s.taken /\ InSomePage(s, h))
  BY <1>1 DEF qcString, EmptyView, Viewed, Text
<1>2. CASE h \in DOMAIN s.taken /\ InSomePage(s, h)
  <2>1. /\ s.bufs[1] \in Page /\ h.buf = 0 /\ h.off \in Nat
        /\ s.taken[h] \in Nat /\ h.off + s.taken[h] < PageSize
    BY <1>2, StoreFacts
    DEF StoreInv, IsStringStore, IsRegistry, Handle, Offset
  <2>2. \A i \in 1 .. s.taken[h] : s.bufs[1][h.off + i - 1] \in Byte
    <3> TAKE i \in 1 .. s.taken[h]
    <3>1. h.off + i - 1 \in Offset
      BY <2>1, PageAssumption DEF Offset
    <3> QED BY <2>1, <3>1 DEF Page
  <2>3. Viewed(s, qcString(s, h))
          = [i \in 1 .. s.taken[h] |-> s.bufs[1][h.off + i - 1]]
    BY <1>2, <2>1 DEF qcString, Viewed
  <2>4. [i \in 1 .. s.taken[h] |-> s.bufs[1][h.off + i - 1]] \in Seq(Byte)
    <3> DEFINE n == s.taken[h]
               byte(i) == s.bufs[1][h.off + i - 1]
    <3>1. n \in Nat /\ \A i \in 1 .. n : byte(i) \in Byte
      BY <2>1, <2>2
    <3> HIDE DEF n, byte
    <3>2. [i \in 1 .. n |-> byte(i)] \in Seq(Byte)
      BY <3>1
    <3> QED BY <3>2 DEF n, byte
  <2> QED BY <2>3, <2>4 DEF Text
<1> QED BY <1>1, <1>2

LEMMA ViewedString ==
  ASSUME NEW s, StoreInv(s), NulFree(s),
         NEW h \in DOMAIN s.taken, h # HandleAt(0, 0)
  PROVE  Viewed(s, [buf |-> h.buf, off |-> h.off, len |-> s.taken[h]]) \in CString
<1>1. /\ s.bufs[1] \in Page /\ h.buf = 0 /\ h.off \in Nat
      /\ s.taken[h] \in Nat /\ h.off + s.taken[h] < PageSize
  BY StoreFacts DEF StoreInv, IsStringStore, IsRegistry, Handle, Offset
<1>2. \A i \in 1 .. s.taken[h] : s.bufs[1][h.off + i - 1] \in Byte \ {NUL}
  <2> TAKE i \in 1 .. s.taken[h]
  <2>1. h.off + i - 1 \in Offset /\ h.off + i - 1 \in h.off .. h.off + s.taken[h] - 1
    BY <1>1, PageAssumption DEF Offset
  <2> QED BY <1>1, <2>1 DEF Page, NulFree
<1>3. Viewed(s, [buf |-> h.buf, off |-> h.off, len |-> s.taken[h]])
        = [i \in 1 .. s.taken[h] |-> s.bufs[1][h.off + i - 1]]
  BY <1>1 DEF Viewed
<1> QED BY <1>1, <1>2, <1>3 DEF CString
=============================================================================
