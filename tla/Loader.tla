------------------------------- MODULE Loader -------------------------------
(***************************************************************************)
(* qcCreateByteCodeA (src/src/bytecode.cpp:23-186): a bytecode is made from   *)
(* a file in memory, section by section, each entry checked as it is read,   *)
(* or the file is refused.  A file is complete: its sections are where its   *)
(* header says and as long as that.                                          *)
(***************************************************************************)
EXTENDS ByteCode

CONSTANTS
  Files,         \* the files, each a bytecode with a version
  Allocators,    \* the allocators a caller can pass
  NoByteCode     \* the NULL that is returned for a file that is refused

\* The bytes of a section of QC_Section, and of one entry, as the file has it.
EntrySize ==
  [stmts |-> 16, defs |-> 8, fields |-> 8, fns |-> 36, globals |-> 4, strBuf |-> 1]

\* The indexes of a QC_ByteCodeFunction are signed, and half as wide as a size_t
\* at the most.
Signed == {n \in Int : -SizeMod <= 2 * n}

EntryOf ==
  [stmts   |-> [op : Nat],
   defs    |-> [type : Nat, nameIdx : Nat, globalIdx : Nat],
   fields  |-> [type : Nat, nameIdx : Nat, offset : Nat],
   fns     |-> [nameIdx : Signed, entryPoint : Signed, fileIdx : Signed, numArgs : Int],
   globals |-> Int,
   strBuf  |-> Char]

ASSUME LoaderAssumption ==
  /\ \A f \in Files, s \in Sections :
       /\ f[s] \in Seq(EntryOf[s])
       /\ 2 * Len(f[s]) * EntrySize[s] <= SizeMod
  /\ \A f \in Files, a \in Allocators :
       NoByteCode # [allocator |-> a, bc |-> [s \in Sections |-> f[s]]]

VARIABLES
  file,        \* the file
  allocator,   \* the allocator passed
  stage,       \* what is done next, or "refused" or "returned"
  read,        \* the sections read so far
  p            \* what the call returned

vars == <<file, allocator, stage, read, p>>

Sizes(s) == Len(file[s]) * EntrySize[s]

-----------------------------------------------------------------------------
(* The checks of the entries.  Sections are measured in bytes.               *)
StatementAccepted(stmt) == stmt.op < OpCount

DefAccepted(def) ==
  /\ def.nameIdx < Sizes("strBuf")
  /\ def.globalIdx < Sizes("globals")

FieldAccepted(field) ==
  /\ field.nameIdx < Sizes("strBuf")
  /\ field.type < TypeCount
  /\ field.offset < Sizes("globals")

\* Mutant: the check of qcBuilderAddFunction.
FnAcceptedUnsigned(fn) ==
  /\ AsSize(fn.nameIdx) < Sizes("strBuf")
  /\ AsSize(fn.entryPoint) < Sizes("stmts")
  /\ AsSize(fn.fileIdx) < Sizes("strBuf")

FnAccepted(fn) ==
  /\ AsSize(fn.nameIdx) < Sizes("strBuf")
  /\ fn.entryPoint > 0 => AsSize(fn.entryPoint) < Sizes("stmts")
  /\ AsSize(fn.fileIdx) < Sizes("strBuf")

Accepted(s, e) ==
  \/ s = "stmts" /\ StatementAccepted(e)
  \/ s = "defs" /\ DefAccepted(e)
  \/ s = "fields" /\ FieldAccepted(e)
  \/ s = "fns" /\ FnAccepted(e)

-----------------------------------------------------------------------------
Init ==
  /\ file \in Files
  /\ allocator \in Allocators
  /\ stage = "header"
  /\ read = Empty
  /\ p = NoByteCode

\* Mutant.
RefuseAfterAll ==
  /\ stage' = "refused"
  /\ p' = [allocator |-> allocator, bc |-> read]
  /\ UNCHANGED <<file, allocator, read>>

Refuse == stage' = "refused" /\ UNCHANGED <<file, allocator, read, p>>

\* A whole header of version 6; a wrong value of skip is only logged.
CheckVersion ==
  /\ stage = "header"
  /\ IF file.ver = 6
     THEN stage' = "copy" /\ UNCHANGED <<file, allocator, read, p>>
     ELSE Refuse

CopyUnchecked ==
  /\ stage = "copy"
  /\ read' = [read EXCEPT !.globals = file.globals, !.strBuf = file.strBuf]
  /\ stage' = "stmts"
  /\ UNCHANGED <<file, allocator, p>>

AfterSection ==
  [stmts |-> "defs", defs |-> "fields", fields |-> "fns", fns |-> "allocate"]

\* Mutant.
SectionReadButOne(s) == Len(read[s]) + 1 >= Len(file[s])

SectionRead(s) == Len(read[s]) = Len(file[s])
NextEntry(s) == file[s][Len(read[s]) + 1]

\* One iteration of the loop over a section, or its end.
ReadNext ==
  /\ stage \in DOMAIN AfterSection
  /\ \/ /\ SectionRead(stage)
        /\ stage' = AfterSection[stage]
        /\ UNCHANGED <<file, allocator, read, p>>
     \/ /\ ~SectionRead(stage) /\ Accepted(stage, NextEntry(stage))
        /\ read' = Added(read, stage, NextEntry(stage))
        /\ UNCHANGED <<file, allocator, stage, p>>
     \/ /\ ~SectionRead(stage) /\ ~Accepted(stage, NextEntry(stage))
        /\ Refuse

AllocationFails ==
  /\ stage = "allocate"
  /\ stage' = "nomemory"
  /\ UNCHANGED <<file, allocator, read, p>>

Return ==
  /\ stage = "allocate"
  /\ p' = [allocator |-> allocator, bc |-> read]
  /\ stage' = "returned"
  /\ UNCHANGED <<file, allocator, read>>

Next == CheckVersion \/ CopyUnchecked \/ ReadNext \/ AllocationFails \/ Return

Spec == Init /\ [][Next]_vars

-----------------------------------------------------------------------------
TypeOK ==
  /\ file \in Files /\ allocator \in Allocators
  /\ stage \in {"header", "copy", "allocate", "refused", "nomemory", "returned"}
               \cup DOMAIN AfterSection
  /\ \A s \in Sections : Len(read[s]) <= Len(file[s])
  /\ p = NoByteCode <=> stage # "returned"

\* What is returned is the file, no entry lost and none out of its order, with
\* the allocator it is freed with.
ReturnedIsTheFile ==
  p # NoByteCode =>
    /\ p.allocator = allocator
    /\ \A s \in Sections : p.bc[s] = file[s]

Within(n, s) == n \in 0 .. Len(file[s]) - 1

\* The names of what is returned are inside its strings, whatever the sign of an
\* index in the file.
NamesAreInside ==
  p # NoByteCode =>
    \A s \in {"defs", "fields", "fns"} : \A i \in 1 .. Len(p.bc[s]) :
      Within(p.bc[s][i].nameIdx, "strBuf")

\* What makes a file well-formed: the version, known operations and types, indexes
\* that are of an entry.  The entry point of a builtin is negative (BYTECODE.md:76)
\* and the type of a definition has a bit for globals (BYTECODE.md:49).
WellFormed ==
  /\ file.ver = 6
  /\ \A i \in 1 .. Len(file.stmts) : file.stmts[i].op < OpCount
  /\ \A i \in 1 .. Len(file.defs) : /\ Within(file.defs[i].nameIdx, "strBuf")
                                   /\ Within(file.defs[i].globalIdx, "globals")
  /\ \A i \in 1 .. Len(file.fields) : /\ Within(file.fields[i].nameIdx, "strBuf")
                                     /\ Within(file.fields[i].offset, "globals")
                                     /\ file.fields[i].type < TypeCount
  /\ \A i \in 1 .. Len(file.fns) : /\ Within(file.fns[i].nameIdx, "strBuf")
                                  /\ Within(file.fns[i].fileIdx, "strBuf")
                                  /\ file.fns[i].entryPoint < Len(file.stmts)

\* A file is refused only for a cause: every well-formed file is returned, or finds
\* no memory.
RefusedForCause == stage = "refused" => ~WellFormed

\* bytecode.cpp:122, 160: "Invalid global index", "invalid entry point": what is
\* returned has none.  The code makes an exception of the entry point 0.
IndexesResolve ==
  p # NoByteCode =>
    /\ \A i \in 1 .. Len(p.bc.defs) : Within(p.bc.defs[i].globalIdx, "globals")
    /\ \A i \in 1 .. Len(p.bc.fns) :
         p.bc.fns[i].entryPoint > 0 => p.bc.fns[i].entryPoint < Len(p.bc.stmts)
=============================================================================
