---------------------------- MODULE StringBuffer ----------------------------
(***************************************************************************)
(* A QC_StringBuffer and the threads that share it.  Every entry point holds *)
(* the mutex from its first access to its last, so a call is one action; the *)
(* view qcString returns points into a page and is read after the unlock, so *)
(* the views in the callers' hands are part of the state.                   *)
(***************************************************************************)
EXTENDS StringPages, FiniteSets

CONSTANTS
  Texts,      \* the strings callers emplace
  MaxViews    \* bound: the views callers hold at a time

\* Callers pass the characters of C strings: names of functions and builtins,
\* formatted numbers, literals.
ASSUME TextsAssumption ==
  /\ Texts \subseteq Seq(Byte \ {NUL})
  /\ MaxViews \in Nat

VARIABLES
  sb,         \* the buffer
  views,      \* the views callers hold
  latest      \* history: the string of the latest accepted emplace and the
              \* handle it got, until an erase

vars == <<sb, views, latest>>

View == [buf : BufIdx, off : Offset, len : 0 .. PageSize]
NoEmplace == [text |-> <<>>, ret |-> NoString]

TypeOK ==
  /\ IsStringStore(sb)
  /\ views \subseteq View
  /\ latest \in [text : Texts \cup {<<>>}, ret : Handle \cup {NoString}]

Init ==
  /\ sb = qcCreateStringBuffer
  /\ views = {}
  /\ latest = NoEmplace

Emplace(text) ==
  LET res == qcStringBufferEmplace(sb, text)
  IN  /\ sb' = res.sb
      /\ latest' = IF res.ret = NoString THEN latest
                   ELSE [text |-> text, ret |-> res.ret]
      /\ UNCHANGED views

Erase(h, clearBytes) ==
  LET res == qcStringBufferErase(sb, h, clearBytes)
  IN  /\ sb' = res.sb
      /\ latest' = IF res.ret THEN NoEmplace ELSE latest
      /\ UNCHANGED views

String(h) ==
  /\ Cardinality(views) < MaxViews
  /\ views' = views \cup {qcString(sb, h)}
  /\ UNCHANGED <<sb, latest>>

\* A caller is done with a view.
Drop(view) ==
  /\ views' = views \ {view}
  /\ UNCHANGED <<sb, latest>>

\* The handles callers pass: of a taken string or of none, of a page there is
\* or not, and one whose offset is past the page.
Passed == Handle \cup {HandleAt(0, PageSize)}

Next ==
  \/ \E text \in Texts : Emplace(text)
  \/ \E h \in Passed, clearBytes \in BOOLEAN : Erase(h, clearBytes)
  \/ \E h \in Passed : String(h)
  \/ \E view \in views : Drop(view)

Spec == Init /\ [][Next]_vars

-----------------------------------------------------------------------------
(***************************************************************************)
(* Properties.                                                              *)
(***************************************************************************)

\* Every registered string, and every view a caller still holds, lies inside
\* one page, before the page's last byte: the memset of an erase and a reader
\* that comes after the unlock stay in the page.
InBounds(b, o, len) == b < Len(sb.bufs) /\ o + len < PageSize

ExtentsInBounds ==
  /\ \A h \in DOMAIN sb.taken : InBounds(h.buf, h.off, sb.taken[h])
  /\ \A v \in views : InBounds(v.buf, v.off, v.len)

\* The first and the last byte of every page stay '\0': handle 0 keeps reading
\* as the empty string, and no match ends at the end of the page, where
\* qcvm_tryTakeStr would return a handle it has not registered.
PagesTerminated ==
  \A p \in 1 .. Len(sb.bufs) :
    sb.bufs[p][0] = NUL /\ sb.bufs[p][PageSize - 1] = NUL

\* The buffer never gets a second page, however much is emplaced: the search
\* for the last taken string in qcvm_tryCreateStr comes out empty, so that
\* every new string goes to offset 1 of the first page.
OnePage == Len(sb.bufs) = 1

\* What the latest emplace returned is a taken handle and the text is where
\* the handle says.
LatestIsStored ==
  latest.ret # NoString =>
    /\ latest.ret \in DOMAIN sb.taken
    /\ Spells(sb.bufs[latest.ret.buf + 1], latest.ret.off, latest.text)

\* Emplacing the same string again returns the same handle and changes
\* nothing, whatever was registered at that offset before.
EmplaceIsIdempotent ==
  latest.ret # NoString =>
    qcStringBufferEmplace(sb, latest.text) = Result(sb, latest.ret)

\* No string within the size limit is ever refused, in any state of the pages.
NeverFull ==
  \A text \in Texts :
    Admissible(text) <=> qcStringBufferEmplace(sb, text).ret # NoString

\* The length a handle is registered with never changes while it is taken,
\* although the string stored there does.
LengthLatched ==
  [][\A h \in DOMAIN sb.taken \cap DOMAIN sb'.taken :
       sb'.taken[h] = sb.taken[h]]_vars
=============================================================================
