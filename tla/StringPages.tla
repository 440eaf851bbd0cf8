----------------------------- MODULE StringPages -----------------------------
(***************************************************************************)
(* The pages and the registry of a QC_StringBuffer, and the functions of    *)
(* src/src/string.cpp that read and change them, as operators on a record   *)
(*                                                                          *)
(*   [bufs  |-> the pages, each a function from offsets to bytes,           *)
(*    taken |-> the registered length of every taken handle]                *)
(*                                                                          *)
(* A QC_String packs a page number above bit 24 and an offset below it; here *)
(* it is the pair of both.  The pair UINT32_MAX stands for is not a handle   *)
(* of any page this model reaches, so it is the value NoString.             *)
(*                                                                          *)
(* No operator is RECURSIVE, so that modules with proofs can use this one.  *)
(***************************************************************************)
EXTENDS Naturals, Sequences

CONSTANTS
  Byte,       \* the values of a char
  NUL,        \* the char '\0'
  PageSize,   \* qcPageSize(), the bytes of every page
  MaxBufIdx,  \* the largest page number, 255 in the code
  NoString    \* UINT32_MAX, "no such string"

ASSUME PageAssumption ==
  /\ NUL \in Byte
  /\ PageSize \in Nat /\ PageSize >= 3
  /\ MaxBufIdx \in Nat

Offset == 0 .. PageSize - 1
BufIdx == 0 .. MaxBufIdx
Handle == [buf : BufIdx, off : Offset]

ASSUME NoStringAssumption == NoString \notin Handle

HandleAt(b, o) == [buf |-> b, off |-> o]

Page == [Offset -> Byte]
Text == Seq(Byte)

\* The registry maps the taken handles to lengths.
IsRegistry(taken) ==
  /\ DOMAIN taken \subseteq Handle
  /\ taken \in [DOMAIN taken -> 1 .. PageSize]

IsStringStore(sb) ==
  /\ sb = [bufs |-> sb.bufs, taken |-> sb.taken]
  /\ sb.bufs \in Seq(Page)
  /\ IsRegistry(sb.taken)

ZeroPage == [o \in Offset |-> NUL]

-----------------------------------------------------------------------------
\* Mutants.
InsertOrAssign(map, key, val) ==
  [k \in DOMAIN map \cup {key} |-> IF k = key THEN val ELSE map[k]]

MatchesButLast(page, text) ==
  {o \in Offset : /\ o + Len(text) <= PageSize
                  /\ \A i \in 1 .. Len(text) - 1 : page[o + i - 1] = text[i]}

NextIdxAfterLast(taken, b) ==
  LET offs == {h.off : h \in {k \in DOMAIN taken : k.buf = b}}
      last == CHOOSE x \in offs : \A y \in offs : y <= x
  IN  IF offs = {} THEN 1 ELSE last + taken[HandleAt(b, last)]

NextIdxFromZero(taken, b) == 0

AdmissibleWhenEmpty(text) == Len(text) < PageSize - 1
AdmissibleToTheEnd(text) == Len(text) > 0 /\ Len(text) < PageSize

-----------------------------------------------------------------------------
\* Maps and memory.

\* btree_map::emplace and try_emplace: an existing entry keeps its value.
TryEmplace(map, key, val) ==
  IF key \in DOMAIN map THEN map
  ELSE [k \in DOMAIN map \cup {key} |-> IF k = key THEN val ELSE map[k]]

Without(map, key) == [k \in DOMAIN map \ {key} |-> map[k]]

\* std::memcpy of a text to an offset of a page.
Copied(page, o, text) ==
  [i \in Offset |-> IF i \in o .. o + Len(text) - 1 THEN text[i - o + 1]
                                                    ELSE page[i]]

\* std::memset of len bytes to zero.
Cleared(page, o, len) ==
  [i \in Offset |-> IF i \in o .. o + len - 1 THEN NUL ELSE page[i]]

\* The text lies in the page at this offset.
Spells(page, o, text) ==
  /\ o + Len(text) <= PageSize
  /\ \A i \in 1 .. Len(text) : page[o + i - 1] = text[i]

\* The smallest member of a set of numbers that has one.
First(S) == CHOOSE x \in S : \A y \in S : x <= y

-----------------------------------------------------------------------------
\* qcvm_findInStrBuf searches the whole page, taken or not: these are the
\* matches, and it returns the first.
Matches(page, text) == {o \in Offset : Spells(page, o, text)}

\* The result of an operation: the new state and what the call returned.
Result(sb, ret) == [sb |-> sb, ret |-> ret]

\* A match is taken when its handle is free or has the same length.  One that
\* ends at the last byte is returned as a bare offset and never registered.
qcvm_tryTakeStr(sb, b, text) ==
  LET found == Matches(sb.bufs[b + 1], text)
      o     == First(found)
      h     == HandleAt(b, o)
  IN  CASE found = {} -> Result(sb, NoString)
        [] found # {} /\ o + Len(text) >= PageSize -> Result(sb, HandleAt(0, o))
        [] found # {} /\ o + Len(text) < PageSize ->
             IF h \in DOMAIN sb.taken /\ sb.taken[h] # Len(text)
             THEN Result(sb, NoString)
             ELSE Result([sb EXCEPT !.taken = TryEmplace(@, h, Len(text))], h)

\* The code looks for the last taken handle of the page with a reverse
\* iterator and then uses its base(), which is the handle AFTER it: these are
\* the handles the base can be, and there is none when no handle of the page
\* is taken or when no later page has one (base() = end()).
AfterLastTaken(taken, b) ==
  IF \E h \in DOMAIN taken : h.buf = b
  THEN {h \in DOMAIN taken : h.buf > b}
  ELSE {}

\* The offset a new string is put at, from the first handle after the page's.
NextIdx(taken, b) ==
  LET after   == AfterLastTaken(taken, b)
      nextBuf == First({h.buf : h \in after})
      o       == First({h.off : h \in {k \in after : k.buf = nextBuf}})
  IN  IF after = {} \/ o = 0 THEN 1 ELSE o + taken[HandleAt(nextBuf, o)]

\* Mutant: the length registered follows the string.
CreatedAndMeasured(sb, b, text) ==
  LET o == NextIdx(sb.taken, b)
      h == HandleAt(b, o)
  IN  IF Len(text) >= PageSize - 1 \/ o + Len(text) >= PageSize
      THEN Result(sb, NoString)
      ELSE Result([bufs  |-> [sb.bufs EXCEPT ![b + 1] = Copied(@, o, text)],
                   taken |-> InsertOrAssign(sb.taken, h, Len(text))], h)

\* The string is copied to the page and registered; taken.emplace leaves the
\* length of a handle that is already registered as it was.
qcvm_tryCreateStr(sb, b, text) ==
  LET o == NextIdx(sb.taken, b)
      h == HandleAt(b, o)
  IN  IF Len(text) >= PageSize - 1 \/ o + Len(text) >= PageSize
      THEN Result(sb, NoString)
      ELSE Result([bufs  |-> [sb.bufs EXCEPT ![b + 1] = Copied(@, o, text)],
                   taken |-> TryEmplace(sb.taken, h, Len(text))], h)

\* One round of the loop over the pages.
TryPage(sb, b, text) ==
  LET take == qcvm_tryTakeStr(sb, b, text)
  IN  IF take.ret # NoString THEN take ELSE qcvm_tryCreateStr(sb, b, text)

Accepting(sb, text) ==
  {b \in 0 .. Len(sb.bufs) - 1 : TryPage(sb, b, text).ret # NoString}

\* The string at the start of a page appended for it.
InNewPage(sb, text) ==
  LET b == Len(sb.bufs)
      h == HandleAt(b, 1)
  IN  Result([bufs  |-> Append(sb.bufs, Copied(ZeroPage, 1, text)),
              taken |-> TryEmplace(TryEmplace(sb.taken, HandleAt(b, 0), 1),
                                   h, Len(text))], h)

qcvm_emplaceStrBuf(sb, text) ==
  CASE Accepting(sb, text) # {} ->
         TryPage(sb, First(Accepting(sb, text)), text)
    [] Accepting(sb, text) = {} /\ Len(sb.bufs) <= MaxBufIdx ->
         InNewPage(sb, text)
    [] OTHER -> Result(sb, NoString)

-----------------------------------------------------------------------------
\* The entry points, each atomic: they hold the buffer's mutex.

qcCreateStringBuffer ==
  [bufs |-> <<ZeroPage>>, taken |-> [h \in {HandleAt(0, 0)} |-> 1]]

Admissible(text) == Len(text) > 0 /\ Len(text) < PageSize - 1

qcStringBufferEmplace(sb, text) ==
  IF Admissible(text) THEN qcvm_emplaceStrBuf(sb, text)
                      ELSE Result(sb, NoString)

InSomePage(sb, h) == h.buf < Len(sb.bufs) /\ h.off < PageSize

\* Erasing clears, if asked, as many bytes as are REGISTERED for the handle.
qcStringBufferErase(sb, h, clearBytes) ==
  IF InSomePage(sb, h) /\ h \in DOMAIN sb.taken
  THEN Result([bufs  |-> IF clearBytes
                         THEN [sb.bufs EXCEPT ![h.buf + 1] =
                                 Cleared(@, h.off, sb.taken[h])]
                         ELSE sb.bufs,
               taken |-> Without(sb.taken, h)], TRUE)
  ELSE Result(sb, FALSE)

\* A view of no bytes (QC_EMPTY_STRVIEW), or of the registered length.
EmptyView == [buf |-> 0, off |-> 0, len |-> 0]

qcString(sb, h) ==
  IF h \in DOMAIN sb.taken /\ InSomePage(sb, h)
  THEN [buf |-> h.buf, off |-> h.off, len |-> sb.taken[h]]
  ELSE EmptyView

\* The bytes a reader of the view sees now.
Viewed(sb, view) ==
  [i \in 1 .. view.len |-> sb.bufs[view.buf + 1][view.off + i - 1]]
=============================================================================
