---------------------------- MODULE LoaderProofs ----------------------------
(***************************************************************************)
(* Theorems about Loader, for any files, however long their sections.        *)
(***************************************************************************)
EXTENDS Loader, SequenceTheorems, TLAPS

USE ByteCodeAssumption, LoaderAssumption

Checked == {"stmts", "defs", "fields", "fns"}

\* What has been read of a section is how it begins, and was accepted.
Begins(s) ==
  /\ read[s] \in Seq(EntryOf[s])
  /\ Len(read[s]) <= Len(file[s])
  /\ \A i \in 1 .. Len(read[s]) : read[s][i] = file[s][i]
  /\ s \in Checked => \A i \in 1 .. Len(read[s]) : Accepted(s, read[s][i])

\* The sections that have been read to their end.
Passed ==
  /\ stage \in Checked \cup {"allocate", "returned"} =>
       SectionRead("globals") /\ SectionRead("strBuf")
  /\ stage \in (Checked \ {"stmts"}) \cup {"allocate", "returned"} => SectionRead("stmts")
  /\ stage \in {"fields", "fns", "allocate", "returned"} => SectionRead("defs")
  /\ stage \in {"fns", "allocate", "returned"} => SectionRead("fields")
  /\ stage \in {"allocate", "returned"} => SectionRead("fns")

Cause ==
  stage = "refused" =>
    \/ file.ver # 6
    \/ \E s \in Checked : \E i \in 1 .. Len(file[s]) : ~Accepted(s, file[s][i])

Returned ==
  p = IF stage = "returned" THEN [allocator |-> allocator, bc |-> read] ELSE NoByteCode

Inv ==
  /\ file \in Files /\ allocator \in Allocators
  /\ stage \in {"header", "copy", "allocate", "refused", "nomemory", "returned"} \cup Checked
  /\ read = [s \in Sections |-> read[s]]
  /\ stage \in {"header", "copy"} => read = Empty
  /\ \A s \in Sections : Begins(s)
  /\ Passed /\ Cause /\ Returned

-----------------------------------------------------------------------------
\* Files, and the checks of their entries.

LEMMA FileFacts ==
  ASSUME NEW f \in Files, NEW s \in Sections
  PROVE  /\ f[s] \in Seq(EntryOf[s]) /\ Len(f[s]) \in Nat
         /\ \A i \in 1 .. Len(f[s]) : f[s][i] \in EntryOf[s]
<1>1. f[s] \in Seq(EntryOf[s])
  OBVIOUS
<1> QED BY <1>1

LEMMA SizeFacts ==
  ASSUME NEW f \in Files
  PROVE  /\ 2 * Len(f.strBuf) <= SizeMod
         /\ 8 * Len(f.globals) <= SizeMod
         /\ 32 * Len(f.stmts) <= SizeMod
<1>1. \A s \in {"strBuf", "globals", "stmts"} :
        2 * Len(f[s]) * EntrySize[s] <= SizeMod /\ Len(f[s]) \in Nat
  BY FileFacts DEF Sections
<1>2. EntrySize["strBuf"] = 1 /\ EntrySize["globals"] = 4 /\ EntrySize["stmts"] = 16
  BY DEF EntrySize
<1> QED BY <1>1, <1>2

LEMMA SizesAre ==
  ASSUME file \in Files
  PROVE  /\ Sizes("strBuf") = Len(file.strBuf) /\ Len(file.strBuf) \in Nat
         /\ Sizes("globals") = 4 * Len(file.globals) /\ Len(file.globals) \in Nat
         /\ Sizes("stmts") = 16 * Len(file.stmts) /\ Len(file.stmts) \in Nat
<1>1. \A s \in {"strBuf", "globals", "stmts"} :
        Len(file[s]) \in Nat /\ Sizes(s) = Len(file[s]) * EntrySize[s]
  BY FileFacts DEF Sections, Sizes
<1>2. EntrySize["strBuf"] = 1 /\ EntrySize["globals"] = 4 /\ EntrySize["stmts"] = 16
  BY DEF EntrySize
<1> QED BY <1>1, <1>2

\* A signed index that passes the comparison with a number of bytes is not
\* negative, and one that is not negative is compared as it is.
LEMMA SignedFacts ==
  ASSUME file \in Files, NEW n \in Signed
  PROVE  AsSize(n) < Sizes("strBuf") <=> Within(n, "strBuf")
  BY SizesAre, SizeFacts DEF AsSize, Signed, Within

LEMMA WithinFacts ==
  ASSUME file \in Files, NEW n
  PROVE  /\ Within(n, "strBuf") => n < Sizes("strBuf")
         /\ Within(n, "globals") => n < Sizes("globals")
<1>1. CASE Within(n, "strBuf")
  BY <1>1, SizesAre DEF Within
<1>2. CASE Within(n, "globals")
  <2>1. n \in Int /\ n >= 0 /\ n < Len(file.globals)
    BY <1>2, SizesAre DEF Within
  <2> QED BY <2>1, SizesAre DEF Within
<1> QED BY <1>1, <1>2

LEMMA AcceptedNames ==
  ASSUME file \in Files, NEW s \in {"defs", "fields", "fns"},
         NEW e \in EntryOf[s], Accepted(s, e)
  PROVE  Within(e.nameIdx, "strBuf")
<1>1. CASE s = "defs"
  <2>1. e.nameIdx \in Nat /\ e.nameIdx < Sizes("strBuf")
    BY <1>1 DEF EntryOf, Accepted, DefAccepted
  <2> QED BY <2>1, SizesAre DEF Within
<1>2. CASE s = "fields"
  <2>1. e.nameIdx \in Nat /\ e.nameIdx < Sizes("strBuf")
    BY <1>2 DEF EntryOf, Accepted, FieldAccepted
  <2> QED BY <2>1, SizesAre DEF Within
<1>3. CASE s = "fns"
  <2>1. e.nameIdx \in Signed /\ AsSize(e.nameIdx) < Sizes("strBuf")
    BY <1>3 DEF EntryOf, Accepted, FnAccepted
  <2> QED BY <2>1, SignedFacts
<1> QED BY <1>1, <1>2, <1>3

LEMMA WellFormedAccepted ==
  ASSUME file \in Files, WellFormed, NEW s \in Checked, NEW i \in 1 .. Len(file[s])
  PROVE  Accepted(s, file[s][i])
<1>1. file[s][i] \in EntryOf[s]
  BY FileFacts DEF Checked, Sections
<1>2. CASE s = "stmts"
  BY <1>2 DEF WellFormed, Accepted, StatementAccepted
<1>3. CASE s = "defs"
  <2>1. Within(file.defs[i].nameIdx, "strBuf") /\ Within(file.defs[i].globalIdx, "globals")
    BY <1>3 DEF WellFormed
  <2>2. file.defs[i].nameIdx < Sizes("strBuf") /\ file.defs[i].globalIdx < Sizes("globals")
    BY <2>1, WithinFacts
  <2> QED BY <1>3, <2>2 DEF Accepted, DefAccepted
<1>4. CASE s = "fields"
  <2>1. /\ Within(file.fields[i].nameIdx, "strBuf") /\ Within(file.fields[i].offset, "globals")
        /\ file.fields[i].type < TypeCount
    BY <1>4 DEF WellFormed
  <2>2. file.fields[i].nameIdx < Sizes("strBuf") /\ file.fields[i].offset < Sizes("globals")
    BY <2>1, WithinFacts
  <2> QED BY <1>4, <2>1, <2>2 DEF Accepted, FieldAccepted
<1>5. CASE s = "fns"
  <2> DEFINE fn == file.fns[i]
  <2>1. /\ fn.nameIdx \in Signed /\ fn.fileIdx \in Signed /\ fn.entryPoint \in Int
    BY <1>1, <1>5 DEF EntryOf, Signed
  <2>2. /\ Within(fn.nameIdx, "strBuf") /\ Within(fn.fileIdx, "strBuf")
        /\ fn.entryPoint < Len(file.stmts)
    BY <1>5 DEF WellFormed
  <2>3. AsSize(fn.nameIdx) < Sizes("strBuf") /\ AsSize(fn.fileIdx) < Sizes("strBuf")
    BY <2>1, <2>2, SignedFacts
  <2>4. fn.entryPoint > 0 => AsSize(fn.entryPoint) < Sizes("stmts")
    BY <2>1, <2>2, SizesAre DEF AsSize
  <2> QED BY <1>5, <2>3, <2>4 DEF Accepted, FnAccepted
<1> QED BY <1>2, <1>3, <1>4, <1>5 DEF Checked

-----------------------------------------------------------------------------
\* The invariant.

LEMMA InvInit == Init => Inv
<1> SUFFICES ASSUME Init PROVE Inv
  OBVIOUS
<1>1. /\ file \in Files /\ allocator \in Allocators /\ stage = "header"
      /\ read = Empty /\ p = NoByteCode
  BY DEF Init
<1>2. read = [s \in Sections |-> read[s]]
  BY <1>1 DEF Empty
<1>3. ASSUME NEW s \in Sections PROVE Begins(s)
  <2>1. read[s] = <<>>
    BY <1>1 DEF Empty
  <2>2. Len(file[s]) \in Nat
    BY <1>1, FileFacts
  <2>3. read[s] \in Seq(EntryOf[s]) /\ Len(read[s]) = 0
    BY <2>1
  <2> QED BY <2>2, <2>3 DEF Begins
<1> QED BY <1>1, <1>2, <1>3 DEF Inv, Passed, Cause, Returned, Checked

LEMMA AppendElement ==
  ASSUME NEW T, NEW q \in Seq(T), NEW e \in T
  PROVE  /\ Append(q, e) \in Seq(T) /\ Len(Append(q, e)) = Len(q) + 1
         /\ \A i \in 1 .. Len(q) : Append(q, e)[i] = q[i]
         /\ Append(q, e)[Len(q) + 1] = e
  OBVIOUS

\* One more entry of a section that is checked.
LEMMA EntryRead ==
  ASSUME Inv, NEW s \in Checked, ~SectionRead(s), Accepted(s, NextEntry(s)),
         file' = file, read' = Added(read, s, NextEntry(s))
  PROVE  /\ read' = [r \in Sections |-> read'[r]]
         /\ \A r \in Sections \ {s} : read'[r] = read[r]
         /\ Begins(s)'
<1> DEFINE e == NextEntry(s)
           n == Len(read[s])
<1>1. s \in Sections /\ s # "strBuf" /\ Begins(s) /\ file \in Files
  BY DEF Checked, Sections, Inv
<1>2. /\ read' = [r \in Sections |-> IF r = s THEN Append(read[s], e) ELSE read[r]]
  BY <1>1 DEF Added, Inv
<1>3. n \in Nat /\ Len(file[s]) \in Nat /\ n < Len(file[s])
  <2>1. read[s] \in Seq(EntryOf[s]) /\ n <= Len(file[s]) /\ n # Len(file[s])
    BY <1>1 DEF Begins, SectionRead
  <2>2. n \in Nat
    BY <2>1
  <2> QED BY <1>1, <2>1, <2>2, FileFacts
<1>4. e = file[s][n + 1] /\ e \in EntryOf[s]
  BY <1>1, <1>3, FileFacts DEF NextEntry
<1>5. /\ Append(read[s], e) \in Seq(EntryOf[s])
      /\ Len(Append(read[s], e)) = n + 1
      /\ \A i \in 1 .. n : Append(read[s], e)[i] = read[s][i]
      /\ Append(read[s], e)[n + 1] = e
  <2>1. read[s] \in Seq(EntryOf[s])
    BY <1>1 DEF Begins
  <2>2. PICK T, q, x : T = EntryOf[s] /\ q = read[s] /\ x = e
    OBVIOUS
  <2>3. q \in Seq(T) /\ x \in T
    BY <1>4, <2>1, <2>2
  <2>4. /\ Append(q, x) \in Seq(T) /\ Len(Append(q, x)) = Len(q) + 1
        /\ \A i \in 1 .. Len(q) : Append(q, x)[i] = q[i]
        /\ Append(q, x)[Len(q) + 1] = x
    BY <2>3, AppendElement
  <2> QED BY <2>2, <2>4, Zenon
<1>6. /\ read'[s] \in Seq(EntryOf[s]) /\ Len(read'[s]) = n + 1
      /\ \A i \in 1 .. n : read'[s][i] = read[s][i]
      /\ read'[s][n + 1] = e
  BY <1>1, <1>2, <1>5
<1> HIDE DEF e, n
<1>7. \A i \in 1 .. n + 1 : read'[s][i] = file[s][i]
  <2>1. \A i \in 1 .. n : read'[s][i] = file[s][i]
    BY <1>1, <1>6 DEF Begins, n
  <2>2. read'[s][n + 1] = file[s][n + 1]
    BY <1>4, <1>6
  <2>3. \A i \in 1 .. n + 1 : i \in 1 .. n \/ i = n + 1
    BY <1>3
  <2> QED BY <2>1, <2>2, <2>3
<1>8. \A i \in 1 .. n + 1 : Accepted(s, read[s][i])'
  <2> SUFFICES ASSUME NEW i \in 1 .. n + 1 PROVE Accepted(s, read[s][i])'
    OBVIOUS
  <2>1. \A x : Accepted(s, x)' <=> Accepted(s, x)
    BY DEF Accepted, StatementAccepted, DefAccepted, FieldAccepted, FnAccepted, Sizes
  <2>2. CASE i = n + 1
    BY <1>6, <2>1, <2>2 DEF e
  <2>3. CASE i # n + 1
    <3>1. i \in 1 .. n
      BY <1>3, <2>3
    <3>2. Accepted(s, read[s][i]) /\ read'[s][i] = read[s][i]
      BY <1>1, <1>6, <3>1 DEF Begins, n
    <3> QED BY <2>1, <3>2
  <2> QED BY <2>2, <2>3
<1>9. Begins(s)'
  BY <1>3, <1>6, <1>7, <1>8 DEF Begins
<1> QED BY <1>1, <1>2, <1>9

LEMMA BeginsStays ==
  ASSUME NEW s \in Sections, Begins(s), file' = file, read'[s] = read[s]
  PROVE  Begins(s)'
  BY DEF Begins, Accepted, StatementAccepted, DefAccepted, FieldAccepted, FnAccepted, Sizes

LEMMA InvNext == Inv /\ [Next]_vars => Inv'
<1> SUFFICES ASSUME Inv, [Next]_vars PROVE Inv'
  OBVIOUS
<1> USE DEF Checked
<1>1. /\ file \in Files /\ allocator \in Allocators
      /\ read = [s \in Sections |-> read[s]]
      /\ \A s \in Sections : Begins(s)
      /\ Passed /\ Cause /\ Returned
  BY DEF Inv
\* A step that reads nothing.
<1>2. ASSUME UNCHANGED <<file, allocator, read>>,
             stage' \in {"copy", "allocate", "refused", "nomemory", "returned"} \cup Checked,
             stage' = "copy" => read = Empty,
             Passed', Cause', Returned'
      PROVE  Inv'
  <2>1. \A s \in Sections : Begins(s)'
    BY <1>1, <1>2, BeginsStays
  <2> QED BY <1>1, <1>2, <2>1 DEF Inv
<1>3. CASE UNCHANGED vars
  <2>1. \A s \in Sections : Begins(s)'
    BY <1>1, <1>3, BeginsStays DEF vars
  <2>2. Passed' /\ Cause' /\ Returned'
    BY <1>1, <1>3 DEF vars, Passed, Cause, Returned, SectionRead, Accepted,
         StatementAccepted, DefAccepted, FieldAccepted, FnAccepted, Sizes
  <2> QED BY <1>1, <1>3, <2>1, <2>2 DEF vars, Inv
<1>4. CASE CheckVersion
  <2>1. stage = "header" /\ read = Empty /\ p = NoByteCode
    BY <1>4 DEF CheckVersion, Inv, Returned
  <2>2. /\ stage' \in {"copy", "refused"} /\ UNCHANGED <<file, allocator, read, p>>
        /\ stage' = "refused" => file.ver # 6
    BY <1>4 DEF CheckVersion, Refuse
  <2>3. Passed' /\ Cause' /\ Returned'
    BY <2>1, <2>2 DEF Passed, Cause, Returned
  <2> QED BY <1>2, <2>1, <2>2, <2>3
<1>5. CASE CopyUnchecked
  <2>1. /\ stage = "copy" /\ stage' = "stmts" /\ UNCHANGED <<file, allocator, p>>
        /\ read' = [read EXCEPT !.globals = file.globals, !.strBuf = file.strBuf]
        /\ read = Empty /\ p = NoByteCode
    BY <1>5 DEF CopyUnchecked, Inv, Returned
  <2>2. /\ read' = [s \in Sections |-> read'[s]]
        /\ \A s \in Checked : read'[s] = read[s]
        /\ \A s \in {"globals", "strBuf"} : read'[s] = file[s]
    BY <1>1, <2>1 DEF Sections
  <2>3. \A s \in Checked : Begins(s)'
    BY <1>1, <2>1, <2>2, BeginsStays DEF Sections
  <2>4. ASSUME NEW s \in {"globals", "strBuf"} PROVE Begins(s)'
    <3>1. file[s] \in Seq(EntryOf[s]) /\ Len(file[s]) \in Nat
      BY <1>1, FileFacts DEF Sections
    <3>2. read'[s] = file[s] /\ file' = file /\ s \notin Checked
      BY <2>1, <2>2
    <3>3. \A i \in 1 .. Len(file[s]) : file[s][i] = file[s][i]
      OBVIOUS
    <3> HIDE DEF Checked
    <3> QED BY <3>1, <3>2, <3>3 DEF Begins
  <2>5. \A s \in Sections : s \in Checked \/ s \in {"globals", "strBuf"}
    BY DEF Sections
  <2>6. Passed' /\ Cause' /\ Returned'
    BY <2>1, <2>2 DEF Passed, Cause, Returned, SectionRead
  <2>7. \A s \in Sections : Begins(s)'
    BY <2>3, <2>4, <2>5
  <2> QED BY <1>1, <2>1, <2>2, <2>6, <2>7 DEF Inv
<1>6. CASE ReadNext
  <2>1. stage \in Checked /\ p = NoByteCode
    BY <1>1, <1>6 DEF ReadNext, AfterSection, Returned
  <2>2. CASE /\ SectionRead(stage) /\ stage' = AfterSection[stage]
             /\ UNCHANGED <<file, allocator, read, p>>
    <3>1. /\ stage = "stmts" => stage' = "defs"
          /\ stage = "defs" => stage' = "fields"
          /\ stage = "fields" => stage' = "fns"
          /\ stage = "fns" => stage' = "allocate"
      BY <2>2 DEF AfterSection
    <3>2. Passed' /\ Cause' /\ Returned'
      BY <1>1, <2>1, <2>2, <3>1 DEF Passed, Cause, Returned, SectionRead
    <3> QED BY <1>2, <2>1, <2>2, <3>1, <3>2
  <2>3. CASE /\ ~SectionRead(stage) /\ Accepted(stage, NextEntry(stage))
             /\ read' = Added(read, stage, NextEntry(stage))
             /\ UNCHANGED <<file, allocator, stage, p>>
    <3>1. /\ read' = [r \in Sections |-> read'[r]]
          /\ \A r \in Sections \ {stage} : read'[r] = read[r]
          /\ Begins(stage)'
      BY <2>1, <2>3, EntryRead
    <3>2. \A s \in Sections : Begins(s)'
      <4>1. \A s \in Sections \ {stage} : Begins(s)'
        BY <1>1, <2>3, <3>1, BeginsStays
      <4>2. Begins(stage)'
        BY <3>1
      <4>3. stage' = stage
        BY <2>3
      <4> QED BY <4>1, <4>2, <4>3 DEF Begins
    <3>3. Passed'
      BY <1>1, <2>1, <2>3, <3>1 DEF Passed, SectionRead, Sections
    <3>4. Cause' /\ Returned'
      BY <2>1, <2>3 DEF Cause, Returned
    <3> QED BY <1>1, <2>1, <2>3, <3>1, <3>2, <3>3, <3>4 DEF Inv
  <2>4. CASE /\ ~SectionRead(stage) /\ ~Accepted(stage, NextEntry(stage)) /\ Refuse
    <3>1. /\ stage' = "refused" /\ UNCHANGED <<file, allocator, read, p>>
      BY <2>4 DEF Refuse
    <3>2. PICK s \in Checked : s = stage
      BY <2>1
    <3>3. Len(read[s]) + 1 \in 1 .. Len(file[s])
      <4>1. Begins(s) /\ Len(file[s]) \in Nat
        BY <1>1, <3>2, FileFacts DEF Sections
      <4>2. Len(read[s]) \in Nat /\ Len(read[s]) <= Len(file[s])
        BY <4>1 DEF Begins
      <4> QED BY <2>4, <3>2, <4>1, <4>2 DEF SectionRead
    <3>4. \E i \in 1 .. Len(file[s]) : ~Accepted(s, file[s][i])
      BY <2>4, <3>2, <3>3 DEF NextEntry
    <3>5. Cause'
      BY <3>1, <3>4 DEF Cause, Accepted, StatementAccepted, DefAccepted, FieldAccepted,
           FnAccepted, Sizes
    <3>6. Passed' /\ Returned'
      BY <2>1, <3>1 DEF Passed, Returned
    <3> QED BY <1>2, <3>1, <3>5, <3>6
  <2> QED BY <1>6, <2>2, <2>3, <2>4 DEF ReadNext
<1>7. CASE AllocationFails
  <2>1. stage = "allocate" /\ stage' = "nomemory" /\ UNCHANGED <<file, allocator, read, p>>
    BY <1>7 DEF AllocationFails
  <2>2. Passed' /\ Cause' /\ Returned'
    BY <1>1, <2>1 DEF Passed, Cause, Returned
  <2> QED BY <1>2, <2>1, <2>2
<1>8. CASE Return
  <2>1. /\ stage = "allocate" /\ stage' = "returned" /\ UNCHANGED <<file, allocator, read>>
        /\ p' = [allocator |-> allocator, bc |-> read]
    BY <1>8 DEF Return
  <2>2. Passed' /\ Cause' /\ Returned'
    BY <1>1, <2>1 DEF Passed, Cause, Returned, SectionRead
  <2> QED BY <1>2, <2>1, <2>2
<1> QED BY <1>3, <1>4, <1>5, <1>6, <1>7, <1>8 DEF Next

LEMMA InvAlways == Spec => []Inv
  BY InvInit, InvNext, PTL DEF Spec

-----------------------------------------------------------------------------
\* What it gives.

LEMMA WholeFile ==
  ASSUME Inv, stage = "returned"
  PROVE  p = [allocator |-> allocator, bc |-> [s \in Sections |-> file[s]]]
<1>1. ASSUME NEW s \in Sections PROVE read[s] = file[s]
  <2>1. SectionRead(s)
    BY DEF Inv, Passed, Sections
  <2>2. /\ read[s] \in Seq(EntryOf[s]) /\ Len(read[s]) = Len(file[s])
        /\ \A i \in 1 .. Len(read[s]) : read[s][i] = file[s][i]
    BY <2>1 DEF Inv, Begins, SectionRead
  <2>3. file[s] \in Seq(EntryOf[s])
    BY FileFacts DEF Inv
  <2> QED BY <2>2, <2>3, SeqEqual
<1>2. read = [s \in Sections |-> file[s]]
  <2>1. read = [s \in Sections |-> read[s]]
    BY DEF Inv
  <2> QED BY <1>1, <2>1
<1> QED BY <1>2 DEF Inv, Returned

LEMMA ReturnsByteCode == Inv => (p = NoByteCode <=> stage # "returned")
<1> SUFFICES ASSUME Inv PROVE p = NoByteCode <=> stage # "returned"
  OBVIOUS
<1>1. CASE stage = "returned"
  BY <1>1, WholeFile DEF Inv
<1> QED BY <1>1 DEF Inv, Returned

\* What the loader has read is never more than the file has, and it returns a
\* bytecode exactly when it comes to its end.
THEOREM LoaderTyped == Spec => []TypeOK
<1>1. Inv => TypeOK
  <2> SUFFICES ASSUME Inv PROVE TypeOK
    OBVIOUS
  <2>1. DOMAIN AfterSection = Checked
    BY DEF AfterSection, Checked
  <2> QED BY <2>1, ReturnsByteCode DEF Inv, TypeOK, Begins
<1> QED BY <1>1, InvAlways, PTL

\* The bytecode qcCreateByteCodeA returns (bytecode.cpp:175-185) is the file, every
\* entry at its index, whatever the file.
THEOREM TheFileIsReturned == Spec => []ReturnedIsTheFile
<1>1. Inv => ReturnedIsTheFile
  <2> SUFFICES ASSUME Inv, p # NoByteCode
               PROVE  p.allocator = allocator /\ \A s \in Sections : p.bc[s] = file[s]
    BY DEF ReturnedIsTheFile
  <2> QED BY WholeFile, ReturnsByteCode
<1> QED BY <1>1, InvAlways, PTL

\* The comparisons of signed and unsigned indexes with a number of bytes
\* (bytecode.cpp:117, 135, 155) keep every name of a bytecode in its strings.
THEOREM NamesStayInside == Spec => []NamesAreInside
<1>1. Inv => NamesAreInside
  <2> SUFFICES ASSUME Inv, p # NoByteCode, NEW s \in {"defs", "fields", "fns"},
                      NEW i \in 1 .. Len(p.bc[s])
               PROVE  Within(p.bc[s][i].nameIdx, "strBuf")
    BY DEF NamesAreInside
  <2>1. p.bc[s] = file[s] /\ p.bc[s] = read[s] /\ s \in Sections /\ file \in Files
    <3>1. s \in Sections /\ stage = "returned" /\ file \in Files
      BY ReturnsByteCode DEF Sections, Inv
    <3> QED BY <3>1, WholeFile DEF Inv, Returned
  <2>2. Accepted(s, read[s][i])
    BY <2>1 DEF Inv, Begins, Checked
  <2>3. file[s][i] \in EntryOf[s]
    BY <2>1, FileFacts
  <2> QED BY <2>1, <2>2, <2>3, AcceptedNames
<1> QED BY <1>1, InvAlways, PTL

\* Whatever the loader refuses is not well-formed: the bytes it counts instead
\* of entries, and the conversions of signed indexes, refuse no good file.
THEOREM RefusalsHaveACause == Spec => []RefusedForCause
<1>1. Inv => RefusedForCause
  <2> SUFFICES ASSUME Inv, stage = "refused", WellFormed PROVE FALSE
    BY DEF RefusedForCause
  <2>1. file.ver = 6
    BY DEF WellFormed
  <2>2. \A s \in Checked : \A i \in 1 .. Len(file[s]) : Accepted(s, file[s][i])
    BY WellFormedAccepted DEF Inv
  <2> QED BY <2>1, <2>2 DEF Inv, Cause
<1> QED BY <1>1, InvAlways, PTL
=============================================================================
