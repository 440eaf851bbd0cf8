------------------------------- MODULE Builder -------------------------------
(***************************************************************************)
(* A QC_ByteCodeBuilder shared by threads that add to it, and the call that  *)
(* emits its state.  An add checks and appends under the mutex: it begins by *)
(* locking it and ends by unlocking it, and what it checked in between is    *)
(* what it relies on.  qcBuilderEmit takes no lock: it copies the members of *)
(* the QC_ByteCode one after the other, and nothing orders the adds of other *)
(* threads before its reads, those that have ended no more than the others.  *)
(*                                                                          *)
(* A call that is refused changes nothing and returns UINT32_MAX; it is the  *)
(* step that is not enabled here.  (It may take the mutex, which orders what *)
(* was added before what its thread does next: emits that are ordered after  *)
(* more are left out with it, as are other ways callers have to synchronise.) *)
(***************************************************************************)
EXTENDS ByteCode, FiniteSets

CONSTANTS
  Thread,     \* the threads that add to the builder and emit it
  Entries,    \* for each section, the entries callers pass
  MaxLen,     \* bounds: the entries, or chars, of each section
  Quiesced,   \* whether callers emit only while no add is going on, and
              \* order every add before the emits that follow it
  Free,       \* no thread: the mutex is free
  NoAdd,      \* the thread is in no add
  NoEmit,     \* no emit is going on
  Torn,       \* a vector copied while another thread changed it
  NotEmitted, \* nothing was emitted yet
  Allocator,  \* an allocator that a bytecode can be freed with
  Wild        \* the value of a pointer that was never set

\* The arguments are ints and unsigneds of half the width of a size_t or less.
IsRef(n) == n \in Int /\ 2 * n < SizeMod /\ - (2 * n) <= SizeMod

ASSUME EntryAssumption ==
  /\ \A e \in Entries["stmts"] : e.op \in Nat
  /\ \A e \in Entries["defs"] :
       e.nameIdx \in Nat /\ e.type \in Nat /\ e.globalIdx \in Nat
  /\ \A e \in Entries["fields"] : e.nameIdx \in Nat /\ e.type \in Nat
  /\ \A e \in Entries["fns"] :
       IsRef(e.nameIdx) /\ IsRef(e.entryPoint) /\ e.numArgs \in Int
  /\ Entries["strBuf"] \subseteq Seq(Char)

\* An add that holds the mutex: what is added, where, and the index read.
Adding == UNION {[sec : {s}, entry : Entries[s], idx : 0 .. MaxLen[s]] : s \in Sections}

\* What the vector of a section holds.
Contents(s) == IF s = "strBuf" THEN Char ELSE Entries[s]

ASSUME BuilderAssumption ==
  /\ DOMAIN Entries = Sections
  /\ MaxLen \in [Sections -> Nat]
  /\ \A s \in Sections : 2 * MaxLen[s] <= SizeMod
  /\ Quiesced \in BOOLEAN
  /\ Free \notin Thread
  /\ Allocator # Wild
  /\ NoAdd \notin Adding
  /\ \A s \in Sections : Torn \notin Seq(Contents(s))

VARIABLES
  alive,      \* whether there is a builder
  allocator,  \* builder->bc.allocator
  bc,         \* the sections of builder->bc
  lock,       \* the thread that holds builder->mut, or Free
  pending,    \* for each thread, the add it holds the mutex for, or NoAdd
  emission,   \* the emit that is going on, or NoEmit
  emitted,    \* the bytecode that was emitted, or NotEmitted
  given,      \* history: the indexes returned, with what was added there
  unordered   \* history: for each thread, the states of the builder from the
              \* latest that happens before the thread's next step on

vars ==
  <<alive, allocator, bc, lock, pending, emission, emitted, given, unordered>>

\* A pointer member that no constructor sets: whatever the memory held.
Uninitialized == {Allocator, Wild}

Init ==
  /\ alive = TRUE
  /\ allocator \in Uninitialized
  /\ bc = Empty
  /\ lock = Free
  /\ pending = [t \in Thread |-> NoAdd]
  /\ emission = NoEmit
  /\ emitted = NotEmitted
  /\ given = {}
  /\ unordered = [t \in Thread |-> {Empty}]

-----------------------------------------------------------------------------
\* Mutants.
DefAcceptedOnePast(def) ==
  /\ def.nameIdx <= Len(bc.strBuf)
  /\ def.type < TypeCount
  /\ def.globalIdx <= Len(bc.globals)

MutexIgnored == TRUE

-----------------------------------------------------------------------------
\* The checks of the adds.  A type code with the bit of a global definition
\* set is no type code here, and a negative entry point, name or file index
\* becomes a size_t beyond every section.

StatementAccepted(stmt) == stmt.op < OpCount

DefAccepted(def) ==
  /\ def.nameIdx < Len(bc.strBuf)
  /\ def.type < TypeCount
  /\ def.globalIdx < Len(bc.globals)

FieldAccepted(field) ==
  /\ field.nameIdx < Len(bc.strBuf)
  /\ field.type < TypeCount

FnAccepted(fn) ==
  /\ AsSize(fn.nameIdx) < Len(bc.strBuf)
  /\ AsSize(fn.entryPoint) < Len(bc.stmts)
  /\ fn.numArgs <= MaxArgs

StringAccepted(str) == str # <<>> /\ str[Len(str)] = NUL

MutexFree == lock = Free

\* A thread is in an emit.
Emits(t) == emission # NoEmit /\ emission.by = t

\* The mutex is taken, which orders all that was appended before what the
\* thread does next; the checks have passed, the index is read.
Lock(t, s, e) ==
  /\ alive /\ MutexFree /\ pending[t] = NoAdd /\ ~ Emits(t)
  /\ Quiesced => emission = NoEmit
  /\ Len(Added(bc, s, e)[s]) <= MaxLen[s]
  /\ lock' = t
  /\ pending' = [pending EXCEPT ![t] = [sec |-> s, entry |-> e,
                                          idx |-> NextIndex(bc, s)]]
  /\ unordered' = [unordered EXCEPT ![t] = {bc}]
  /\ UNCHANGED <<alive, allocator, bc, emission, emitted, given>>

qcBuilderAddStatement(t) ==
  \E e \in Entries["stmts"] : StatementAccepted(e) /\ Lock(t, "stmts", e)

qcBuilderAddDef(t) ==
  \E e \in Entries["defs"] : DefAccepted(e) /\ Lock(t, "defs", e)

qcBuilderAddField(t) ==
  \E e \in Entries["fields"] : FieldAccepted(e) /\ Lock(t, "fields", e)

qcBuilderAddFunction(t) ==
  \E e \in Entries["fns"] : FnAccepted(e) /\ Lock(t, "fns", e)

qcBuilderAddGlobal(t) ==
  \E e \in Entries["globals"] : Lock(t, "globals", e)

qcBuilderAddString(t) ==
  \E e \in Entries["strBuf"] : StringAccepted(e) /\ Lock(t, "strBuf", e)

\* The entry is appended, the mutex released, the index returned.
Finish(t) ==
  /\ pending[t] # NoAdd
  /\ LET s == pending[t].sec
         e == pending[t].entry
     IN  /\ bc' = Added(bc, s, e)
         /\ given' = given \cup {pending[t]}
  /\ lock' = Free
  /\ pending' = [pending EXCEPT ![t] = NoAdd]
  /\ unordered' = [u \in Thread |-> IF u = t \/ Quiesced THEN {bc'}
                                   ELSE unordered[u] \cup {bc'}]
  /\ UNCHANGED <<alive, allocator, emission, emitted>>

-----------------------------------------------------------------------------
\* Emitting: a new QC_ByteCode is assigned the builder's, member by member.
EmitBegin(t) ==
  /\ alive /\ emission = NoEmit /\ emitted = NotEmitted /\ pending[t] = NoAdd
  /\ Quiesced => lock = Free
  /\ emission' = [by |-> t, out |-> Empty, copied |-> 0]
  /\ UNCHANGED <<alive, allocator, bc, lock, pending, emitted, given, unordered>>

\* The states of the builder that a thread without the mutex can observe: the
\* latest that happens before what it does, those since, and the next one
\* while an add is going on.
Observable(t) ==
  unordered[t] \cup {Added(bc, pending[u].sec, pending[u].entry) :
                       u \in {w \in Thread : pending[w] # NoAdd}}

\* A vector with an append that is not ordered before the copy is raced for:
\* it is copied as it was in any of these states, or torn.
Copies(t, s) ==
  LET versions == {b[s] : b \in Observable(t)}
  IN  IF versions = {bc[s]} THEN versions ELSE versions \cup {Torn}

EmitCopy ==
  /\ emission # NoEmit /\ emission.copied < Len(CopyOrder)
  /\ LET s == CopyOrder[emission.copied + 1]
     IN  \E contents \in Copies(emission.by, s) :
           emission' = [by     |-> emission.by,
                        out    |-> [emission.out EXCEPT ![s] = contents],
                        copied |-> emission.copied + 1]
  /\ UNCHANGED <<alive, allocator, bc, lock, pending, emitted, given, unordered>>

EmitEnd ==
  /\ emission # NoEmit /\ emission.copied = Len(CopyOrder)
  /\ emitted' = [sections  |-> emission.out,
                 allocator |-> allocator,
                 snapshot  |-> emission.out \in Observable(emission.by)]
  /\ emission' = NoEmit
  /\ UNCHANGED <<alive, allocator, bc, lock, pending, given, unordered>>

\* The caller destroys the bytecode; this follows the executions that return
\* from it, for it frees the bytecode with an allocator that was never set.
qcDestroyByteCode ==
  /\ emitted # NotEmitted
  /\ emitted' = NotEmitted
  /\ UNCHANGED <<alive, allocator, bc, lock, pending, emission, given, unordered>>

-----------------------------------------------------------------------------
\* A builder is destroyed when no call uses it, and another one created; its
\* creation is ordered before every use.
Idle == lock = Free /\ emission = NoEmit

qcDestroyBuilder ==
  /\ alive /\ Idle
  /\ alive' = FALSE
  /\ bc' = Empty
  /\ given' = {}
  /\ unordered' = [t \in Thread |-> {Empty}]
  /\ UNCHANGED <<allocator, lock, pending, emission, emitted>>

qcCreateBuilder ==
  /\ ~ alive
  /\ alive' = TRUE
  /\ allocator' \in Uninitialized
  /\ UNCHANGED <<bc, lock, pending, emission, emitted, given, unordered>>

Add(t) ==
  \/ qcBuilderAddStatement(t)
  \/ qcBuilderAddDef(t)
  \/ qcBuilderAddField(t)
  \/ qcBuilderAddFunction(t)
  \/ qcBuilderAddGlobal(t)
  \/ qcBuilderAddString(t)

Next ==
  \/ \E t \in Thread : Add(t) \/ Finish(t) \/ EmitBegin(t)
  \/ EmitCopy \/ EmitEnd \/ qcDestroyByteCode
  \/ qcDestroyBuilder \/ qcCreateBuilder

Spec == Init /\ [][Next]_vars

-----------------------------------------------------------------------------
(***************************************************************************)
(* Properties.                                                              *)
(***************************************************************************)

IsByteCode(b) ==
  /\ b = [s \in Sections |-> b[s]]
  /\ \A s \in Sections : b[s] \in Seq(Contents(s))

TypeOK ==
  /\ alive \in BOOLEAN
  /\ allocator \in {Allocator, Wild}
  /\ IsByteCode(bc)
  /\ lock \in Thread \cup {Free}
  /\ pending \in [Thread -> Adding \cup {NoAdd}]
  /\ given \subseteq Adding
  /\ \A t \in Thread : bc \in unordered[t] /\ \A b \in unordered[t] : IsByteCode(b)
  /\ emission # NoEmit =>
       /\ emission.by \in Thread
       /\ emission.copied \in 0 .. Len(CopyOrder)
       /\ \A s \in Sections :
            emission.out[s] \in Seq(Contents(s)) \cup {Torn}

\* Unlike a file's, a function that is added has an entry point that exists:
\* a negative one is refused.
EntryPointsExist ==
  \A i \in 1 .. Len(bc.fns) : bc.fns[i].entryPoint \in 0 .. Len(bc.stmts) - 1

\* Every name, global and entry point in the builder resolves, whatever the
\* threads add and in whatever order (bytecode.cpp:284, 310, 333: the checks
\* are made against sections that other threads append to).
BuilderClosed == Closed(bc) /\ EntryPointsExist

\* "The index of the newly created" entry (bytecode.h:194-234): what a call
\* returned designates what it added for as long as the builder lives, and no
\* two calls got the same place.
Designates(g) ==
  IF g.sec = "strBuf"
  THEN \A k \in 1 .. Len(g.entry) :
         g.idx + k <= Len(bc.strBuf) /\ bc.strBuf[g.idx + k] = g.entry[k]
  ELSE g.idx < Len(bc[g.sec]) /\ bc[g.sec][g.idx + 1] = g.entry

IndexesStand == \A g \in given : Designates(g)

\* The emitted bytecode is closed under its references.
Whole(out) == \A s \in Sections : out[s] # Torn

EmittedClosed ==
  emitted # NotEmitted => Whole(emitted.sections) /\ Closed(emitted.sections)

\* "Emit the current state of the builder as bytecode" (bytecode.h:183): what
\* is emitted was the builder's state at some time that is not before the adds
\* the call is ordered after, nor after the call.
EmitIsSnapshot == emitted # NotEmitted => emitted.snapshot

\* The same of a bytecode no vector of which was torn.
WholeEmitIsSnapshot ==
  emitted # NotEmitted /\ Whole(emitted.sections) => emitted.snapshot

\* The builder implements the log of sections it promises: an add takes effect
\* when it appends, an emit when it returns.
Log == INSTANCE SectionLog WITH
  log <- bc,
  released <- IF emitted = NotEmitted THEN NotEmitted ELSE emitted.sections

ImplementsLog == Log!LogSpec
=============================================================================
