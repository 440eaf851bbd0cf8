# qcvm in TLA+

qcvm is a C++20 library, with a C interface, for QuakeC: a string buffer, a
builder and a loader for bytecode, a virtual machine with builtin functions, a
lexer, and the beginnings of a compiler.  This directory holds TLA+ models of its
stateful parts, TLC configurations that check them, and proofs checked by TLAPS.
Line numbers refer to the repository; `string.cpp` is `src/src/string.cpp`, and so
on, and headers are in `src/include/qcvm/`.

## Inventory

| Part | State | Operations | Interacts with |
|------|-------|-----------|----------------|
| String buffer (`string.cpp`) | pages of `qcPageSize()` bytes, a registry `taken` from handles to lengths, a mutex | create, destroy, emplace, erase, view | VM and AST hold one each and keep handles and views |
| Bytecode builder (`bytecode.cpp:221-402`) | six vectors in a `QC_ByteCode`, a mutex | six adds, emit, create, destroy | threads share it; emits a `QC_ByteCode` |
| Bytecode loader (`bytecode.cpp:23-186`) | none: it makes a `QC_ByteCode` from bytes | create | its result is loaded by the VM |
| Virtual machine (`vm.cpp`) | `builtins` by index, `fns` by name, `globals` by name, `loadedBc`, a string buffer | create, destroy, reset, set and get builtins, find, execute, load | string buffer (names, `ftos`, `vtos`); points into loaded bytecodes |
| Builtin tables (`builtins.cpp`) | constant | - | default table read by the VM; the Quake table by nothing |
| Lexer (`lex.cpp`) | a location in the caller's hands, one static location | `qcLex` | logs warnings and errors |
| AST (`ast.cpp`, `ast.h`) | nodes, a string buffer, a type set it may own | create, destroy, bindings and literals | string buffer, type set, allocator |
| Type set (`types.cpp`) | three maps of derived types | create, destroy, derive a pointer, array or vector | AST |
| Common (`common.cpp`, `common.h`) | log handler, its user and their mutex; default allocator | log, set and get the handler, compare strings | every part logs, often with its own mutex held |
| C++ wrappers (`vm.hpp`, `bytecode.hpp`, `types.hpp`) | an atomic handle of a VM | construct, move, assign, use, destroy, forward | VM |
| Parser, compiler (`parse.cpp`, `quakec.cpp`) | a parser object | create, destroy; the parse functions do nothing yet | AST |
| Hashing, numbers, networking | none | compile-time hash; wrappers of GMP and MPFR; declarations | - |

What is hard in this code, and what would make each part correct:

* **String buffer.** Emplaced strings are found again by searching the page, so
  that a string may be registered in the middle of another one, and lengths stay
  registered while the bytes change.  Correct: an extent never leaves its page, the
  handle an emplace returns reads as its text, emplacing again is stable, erasing
  clears what it says.  Views outlive the mutex.
* **Builder.** Entries refer to other sections that other threads append to, an
  index must stay what was returned, and `qcBuilderEmit` reads without the mutex.
  Correct: everything in the builder resolves, what is emitted is a state it had, and
  the builder is an append-only log.  Signed values are compared with a `size_t`.
* **VM.** A reset and a load go row by row and can stop half way; names are read
  back through the string buffer; tables are overridden by flags; copies of builtins, with
  the handles of their names, outlive the VM.  Correct: what
  was loaded can be found, a failing load leaves exactly what it got to, tables agree.
* **Loader.** Indexes are compared with byte counts of sections, and some are signed.
  Correct: what is returned is the file, its references resolve, and a file is refused only
  for a cause.
* **Lexer.** The next location is counted in every branch, and written before an error
  is known.  Correct: tokens are the longest and tile the source, locations are right, every
  call moves on.  `lex.h:44` also promises that an error leaves the location as it was, which the
  code does not do.
* **AST and type set.** Allocation can fail in the middle and so can a free, ownership of
  the type set is conditional, literals are views into a buffer that is overwritten, names of
  bindings are views of callers' texts, types are compared by address.  Correct: every object
  has one owner whatever failed, nothing that can be reached is dead unless it was a caller who
  freed it, and two types are one address exactly when they are one type.
* **Logging.** The handler and its user are two variables.  The handler runs under a mutex
  that is not recursive, and other parts log with their own mutex held.  Correct: a handler runs
  alone, with the user it was installed with, and not after it was replaced; a circle of
  waits is nothing the library can make by itself.
* **C++ handle of a VM.** A move exchanges one atomic pointer and then another.  Correct: a VM
  is in one place from its creation to its destruction, and destroyed once.

`PROJECT.json` lists these hazards at their lines, with the properties that cover them, and
says of those that no property covers why that is.

## Modules

| Module | Is |
|--------|----|
| `StringPages` | The pages and the registry of a string buffer and every function of `string.cpp`, as operators on a record; no variables. Used by `StringBuffer`, `VM` and `Ast`. |
| `StringBuffer` | A string buffer shared by callers, with the views in their hands. |
| `StringPagesProofs` | Lemmas about the operators of `StringPages`, and about least numbers. Used by the proofs of all three. |
| `StringBufferProofs` | Theorems about `StringBuffer`. |
| `TypeSet` | The basic types and the maps of derived types of `types.cpp`, as operators; no variables. Used by `Ast`. |
| `Ast` | ASTs, type sets and string buffers in a heap, with an allocator that fails; on top of `StringPages` and `TypeSet`. |
| `AstProofs` | Theorems about `Ast` and its types. |
| `Logging` | The log handler, its mutex, and threads in stacks of calls. |
| `LoggingProofs` | Theorems about `Logging`. |
| `VMHandle` | The handles of `vm.hpp` and the threads that move them. |
| `ByteCode` | The sections of a `QC_ByteCode`, when they are closed under their references, conversions. |
| `SectionLog` | Abstract specification: what `bytecode.h:182-237` promises of a builder. |
| `Builder` | The builder, its mutex, the adds in two steps, the emit in one step per member. |
| `BuilderProofs` | Theorems about `Builder`, among them that it implements `SectionLog`. |
| `VM` | A virtual machine with its string buffer. |
| `VMProofs` | Theorems about `VM`, and about `VMHandle`. |
| `Loader` | `qcCreateByteCodeA`: a file read section by section into a bytecode. |
| `LoaderProofs` | Theorems about `Loader`. |
| `Lexer` | `qcLex` in the loop of a caller that lexes a source. |
| `LexerProofs` | Theorems about `Lexer`. |
| `MCStringBuffer`, `MCBuilder`, `MCVM`, `MCLoader`, `MCLexer`, `MCLogging`, `MCAst`, `MCVMHandle` | Values of the constants for TLC. |

### String buffer

`sb.bufs` are the pages and `sb.taken` is the registry.  A handle is a pair of a page
and an offset, which the code packs into 32 bits; `NoString` is `UINT32_MAX`.
`Emplace`, `Erase` and `String` are the three entry points; each is atomic because each
holds the mutex from its first access of the buffer to its last.  `views` are the
`QC_StrView`s that callers still read, after the unlock.  `latest` is a history for
properties.  The search for the last taken string (`string.cpp:69-81`)
is modelled as the code does it: a reverse iterator's `base()` is the entry AFTER the
one found, so in the last page there is none and the new string goes to offset 1.

### Builder

`bc` is `builder->bc`, `lock` the mutex, `pending[t]` an add whose checks have passed
and whose index has been read, with the mutex held.  An add is `qcBuilderAdd*` (lock,
check, read the index) followed by `Finish` (append, unlock, return); an add that is
refused changes nothing and is a step that is not enabled.  An emit is `EmitBegin`,
one `EmitCopy` for each member in the order of `QC_ByteCode` (`bytecode.cpp:13-21`)
and `EmitEnd`: `*p = builder->bc` is the copy assignment of the struct.  The emit takes no
lock, so that an add of another thread is not ordered before its reads, even when it has
ended.  `unordered[t]` are the states of the builder from the latest one that happens before
thread `t`'s next step; locking the mutex, which only adds do, makes that the present one.
With the states that adds in progress lead to, they are what an emit of `t` may observe
(`Observable`).  A vector that is the same in all of them is copied; any other is a
data race, and its copy is that of any of them, whatever was copied before it, or `Torn`.
With `Quiesced = TRUE` callers emit only while no add is going on, and order every add
before the emits that follow; nothing in the code makes them.  `allocator` is never set by the
code and is either of two values.  `unordered`, `emitted.snapshot` and `given` are histories.

### VM

`builtins`, `fns`, `globals`, `loaded` are the tables of `struct QC_VM` and `sb` is its
string buffer, or `NoStore` when it could not be allocated (`vm.cpp:132` does not check).
`qcVMResetDefaultBuiltins` and `qcVMLoadByteCode` begin a call, and `ResetRow`, `LoadFn`
and `LoadDef` make its rows, so that what a failing load leaves is a state.  The VM has
no mutex and is used by one thread: no other call is made in between.  `LoadFails` is a
missing builtin or a wrong count, `LoadStops` the wrong argument size, whose `return
UINT32_MAX` is `true`.  A function of a bytecode is a name, an entry and its argument
sizes; a size of -1 equals `UINT32_MAX`, the size of a type that has none.  Of the
builtins' code only `ftos` and `vtos` change the VM, by emplacing what they write.
`vtos` (`vm.cpp:148-164`) emplaces three numbers, keeps their views, and then puts what
the views read NOW into one string that it emplaces too, so that later numbers show in place
of earlier ones.  `held` is the copy of a builtin that `qcVMGetBuiltin` gave to a caller, who
may set it again.  It is the caller's struct, and `qcDestroyVM` does not touch it
(`vm.cpp:190-205`): after a get, a destruction and a creation, the next VM can be given a name
that is a handle of the former's string buffer.  `strange` is a history of that name, and
`NamesAreTaken` says that it is the only one a VM can have which its own buffer never gave.

### Loader

`stage` is where the function is, `read` the vectors it fills, `p` what it returns.
`CopyUnchecked` copies strings and globals; `ReadNext` is one iteration of the loop of a
section, which checks an entry and appends it or refuses the file, or the end of that
loop (`SectionRead`).  Sections are measured in bytes in the checks, as the code does, with the sizes of
the packed structs.  A file is a record of its sections and its version, so files whose
header does not describe them are not modelled.  `AllocationFails` is `bytecode.cpp:169`.

### Lexer

`src` is the source and `rem` the index of the first character of the rest, so that a view
is an index and `qcvmLexResult` sets it.  Each kind of token is an action, enabled by the
first character; the classes are disjoint (`LexerAssumption`), so that the order of the
tests in `qcLexInner` does not matter.  A loop over a class of characters is `RunEnd`, in
one step; the loop of `qcLexStr`, with its escape flag and its lines, is made one character
at a time (`StrChar`), with its local variables in `str`.  `nextLoc` is written in place: an
error leaves it where the code had got to, which `LocationsAgree` gives exactly (`StopsAt`).  The properties compare this with a reference
of their own: `IsA` says which texts are tokens of a kind, `LocationOf` counts newlines from
the start of the source.

### Logging

`stack[t]` are the calls thread `t` is in, the innermost first, and `owner` says who has each
mutex: that of `common.cpp:84` and one for each string buffer or builder (`Part`).  A
call is at `"lock"` until it has its mutex (`Lock`); `Invoke` is the call of the handler in
`qcLogV` with the mutex held.  `SetFn` and `SetUser` are the two assignments of
`qcSetLogHandler`, `GetUser` and `GetFn` the two reads of `qcGetLogHandler`, in the order of
the code.  `PartLogs` is an error or a warning of a part that holds its own mutex.  What a handler
calls back is the constant `Calls`: the code of a handler is the caller's.

### AST and type set

`heap[a]` is the block at address `a`: unallocated, an object, or a block whose object is
destroyed but which the allocator did not take back.  `qcCreateAstA` chooses, for each of its
allocations, an address or a failure; `qcDestroyAst` is three actions for the three ways
it ends (`ast.cpp:53-82`).  The AST's own record of what it owns (`ownsTypes`) decides what is
destroyed.  A node has the kind, the type, the view of a string literal, and the name and the value of a
binding.  The name is the text of a caller, kept as the `QC_StrView` it was passed as
(`ast.cpp:112`): `texts` are those that callers have not freed, `FreeText` frees one whether or
not a binding has it, and `dangling` is a history of those that were freed while one had.  A basic type is the record of what it is, because each is one static object; a
derived type is the address of its set and the place of its entry, and entries never
move.  `numBits` is modulo `SizeMod`, as the product of two `size_t` is.  `TypeOK` says of
every block what it is (`IsBlock`), down to the entries, the nodes and the pages of strings.

### C++ handles

`m_vm[s]` is the pointer of the handle at place `s`, `Raw` where there is none.  A move
construction is two steps, a move assignment three (take, exchange, destroy), and a
destruction two, so that those of several threads interleave between the exchanges.  What
callers do is written in the module's head: constructing and destroying a handle does not race
with other uses of it, as for any object, and a VM that is in use is not moved away.
Addresses are used again, so that a stale pointer can name a new VM.

## Runs

| Run | Shows | Bounds and why |
|-----|-------|----------------|
| `StringBuffer` | All string buffer properties hold | Pages of 6 bytes, two characters, strings of 0 to 5 characters that overlap and prefix one another, 2 pages, one view. Every admissible length occurs, one beyond it, and two pages would suffice to show growth if there were any. |
| `Builder` | Closedness, indexes, snapshots, refinement of the log | 2 threads, every check passed and failed, entries that refer one beyond what the first adds provide, up to 2 functions and 4 characters. `SizeMod` is 16: small negatives still wrap beyond every section. |
| `BuilderSnapshot` | **Violated**: a racing emit mixes states | `Quiesced` is `FALSE`, two threads, at most one entry in each section: two sections are enough for a mixture. |
| `VM` | The tables agree and keep what was loaded | 2 default builtins, which run `ftos` and `vtos`, 2 natives of a caller (one of too many parameters), 4 bytecodes (a builtin linked, a name twice, a wrong size, a wrong count or a missing builtin), 2 loads, every combination of flags. Callers set index 2 only, so that one default stays and one is overridden. Pages of 7 bytes hold three numbers with their spaces. A VM is destroyed and created again while a caller holds a copy of a builtin. 1.9 million states. |
| `VMNames` | **Violated**: a reset can leave a default builtin without its name | as `VM` |
| `Loader` | What is returned is the file, names are inside, nothing is refused without a cause | Up to one entry of each section and two functions, every check passed and failed, indexes at and one past the entries and the bytes of a section. `SizeMod` is 256, twice every size. |
| `LoaderIndexes` | **Violated**: a global index that is not that of a global is accepted | as `Loader` |
| `Lexer` | Longest tokens, locations, exact errors, progress and termination | All sources of up to 4 of 15 characters, two of every class that matters, and up to 6 of what strings are made of. Every loop, and every change from one loop to another (`0x`, the point), runs zero, one and two times; 6 characters have an escaped newline and an escaped quote in one string. |
| `LexerErrors` | **Violated**: a call that fails has moved the location | Sources of up to 3 characters: a number with two points, or a string that does not end. |
| `Logging` | A running handler is current and alone, only callbacks make a circle of waits, calls return | 3 threads, 2 parts, a default handler and two more, one of which calls back everything; a thread makes 2 calls and a part logs once in each. Three threads and two parts are enough for a circle of two, and for one more thread that exchanges the handler meanwhile. |
| `Ast` | One owner, nothing reachable is dead but names that callers freed, types are interned | 4 addresses (an AST with a string buffer and a type set, and one object more), 2 derived types, 2 nodes, lengths 3 and 5, pages of 5 bytes, one text for names: nothing compares or relates names, and it is freed before, while and after bindings have it. `SizeMod` is 64, so that an array of arrays wraps. |
| `VMHandle` | A VM is in one place and used only alive | 3 threads, 4 places, 3 VMs, with symmetry: two crossing moves, and a third thread that uses or destroys. |

`Lexer` assumes weak fairness of `Next`: a call of `qcLex` is sequential code that comes
back, and the caller's loop goes on while there is a rest.  That is all `Terminates` needs,
because a step that is taken again and again must move on.  `Logging` assumes weak fairness
of `Step(t)`, for each thread in a call: the library waits for nothing but mutexes, and a
handler that calls nothing comes back.  A `std::mutex` promises no more, and a thread that wants one
could be overtaken for ever; `CallsReturn` holds because the calls of a run are finitely
many (`MaxCalls`, `MaxLogs`), and in the behaviours where no handler that calls back is
ever installed.  The other specifications have no fairness:
those parts have no loop that waits, and the one lock is held for a few
statements.  Deadlock is checked in the runs of the string buffer, the builder, the VM and
its handles, where the callers never stop.  A lexed source and a loaded file are the end of
theirs.  It is off for `Logging`, where a handler that calls back locks a mutex its
thread owns and stays there, and for `Ast`, where the heap can fill with blocks the
allocator did not take back.

Two properties say that the code is more limited than its structure suggests.
`OnePage` holds: since every new string goes to offset 1 of the last page, the code for
further pages never runs, and `NeverFull` follows.  `LengthLatched` holds: a handle keeps
the length of the first string registered at its offset.  Together they are why
`DefaultsAreNamed` fails.  The default table of the code shows
it too: "normalize" is registered at offset 1 with 9 characters, and every later
name that is no part of what the page holds goes to offset 1 and is read back with
the length 9, and so under another name.

Other disagreements between the code and what is written of it were met while modelling
and have no run of their own:

* `qcBuilderAddDef` refuses a type code with the bit of a global definition
  (`bytecode.cpp:288`, `BYTECODE.md:49`), and `qcBuilderAddFunction` a negative entry point,
  which `BYTECODE.md:76` says a builtin has (`bytecode.cpp:337`).  The loader accepts both.
* The loader refuses a file for a name index of a source file that the builder only warns
  of (`bytecode.cpp:163`, `bytecode.cpp:352`).
* `qcVMExec` executes no function of a bytecode (`vm.cpp:434`, `README.md:3` of the
  repository).
* `qcStringBufferErase` with `clear` clears the registered length, which is that of the first
  string at the offset: the tail of a longer one stays (`string.cpp:222`, `:232`, `:95`).
* `qcBuilderEmit` sets no allocator (`bytecode.cpp:233`, `:254`), and `qcDestroyByteCode`, the
  way to free what was emitted (`bytecode.h:184`), frees with it (`bytecode.cpp:191`).
* A load that stops at a wrong argument size returns `UINT32_MAX`, which is `true`
  (`vm.cpp:494-498`), so that a load which is half done reports success.  What it leaves is in
  `LoadLeaves`; what it returns is not, for nothing says what the function returns.
* A builtin that is set with a copy from a VM that was destroyed brings the handle of its name
  (`vm.cpp:349`, `:285`), which in the new string buffer is free, or another name.
* The name of a binding dangles when the caller frees its text (`ast.cpp:112`); `ast.h` does not
  say who keeps it.
* `vtos` writes what the views of the earlier numbers read after the later ones were emplaced,
  in most cases the last number three times.
* The AST: no integer or float of a literal is ever cleared (`ast.h:81`, `:86`), string literals
  overwrite one another (`ast.h:98`), an empty one is refused, and a `qcDestroyAst` that
  returned false after its string buffer would destroy the buffer twice if it were retried.
* The kind of a `QC_Type` is never set, so that `as<T>` (`types.hpp:87`) fails; vector literals
  and function types are refused, and `qcParse` flows off its end.
* `qcInitAfloatStr` ignores its base (`amath.h:68`).
* Two crossing moves between C++ handles can end in an exchange that no order of the two
  gives.  `setBuiltin` (`vm.hpp:70`) cannot be instantiated.
* `qcStrCmp` compares `char`s, which may be negative, with a difference of two of them.
* `qcLexIntHex`, "called after the '0x'" (`lex.cpp:64`), is called after any digit and an x.

## Proofs

`tlapm` checks every theorem, for every value of the constants that meets the named
assumptions (`PageAssumption`, `NoStringAssumption`, `TextsAssumption`,
`ByteCodeAssumption`, `EntryAssumption`, `BuilderAssumption`, `LexerAssumption`,
`LoaderAssumption`, `LoggingAssumption`, `VMHandleAssumption`, `VMAssumption`,
`NoStoreAssumption`, `TypeSetAssumption`, `AstAssumption`).  The assumptions are of
types, of sentinels that are not data, and of widths (`SizeMod` at least twice every
length and argument, as a `size_t` has, and more than the bits of a pointer); of character
classes, that they are what `isalpha`, `isdigit`, `isblank` and `isxdigit` are of the
characters the lexer names; and of the default builtins, that each takes no more parameters
than a call passes.  TLC evaluates them in the runs.

**`StringPagesProofs`.** What every emplacement does to pages and registry, for any store
that is as the operations leave one (`StoreInv`): it is so again (`StoreEmplace`), nothing
that was registered is unregistered (`EmplaceGrows`), and, when nothing was ever erased, no
registered string has a NUL inside (`NulFreeEmplace`).  They are stated of a store and not of
a variable, so that `StringBufferProofs`, `VMProofs` and `AstProofs` use them for theirs.

**`StringBufferProofs`.** `StringBufferTyped`, `ExtentsStayInside`, `PagesStayTerminated`,
`NoSecondPage` and `LatestStaysStored` are the invariants of the run, from one inductive
invariant.  `NeverRefused`: an admissible
string is never refused.  `EmplaceIdempotent` and `LengthsAreLatched`.  The inductive
invariant says of the one page that its first and last byte are `'\0'` and that each
registered extent ends before its last byte.  With one page `AfterLastTaken` is
empty, hence `NextIdx = 1`, hence an admissible string fits and no page is added; a
match of a string without `'\0'` cannot contain the first or the last byte, hence ends
before the last one, and `qcvm_tryTakeStr` never returns an unregistered offset.
`ExtentsInBounds` alone is not inductive: without the terminators a match could
end at the end of the page.

**`BuilderProofs`.** `BuilderTyped`, `BuilderIsClosed`, `IndexesStay` hold without any
assumption on callers.  The invariant `Inv` adds to the stated properties that a pending
add belongs to the holder of the mutex and that its index is the length of the
section (`LockInv`), that what it refers to resolves already, that every name ends (the
strings are empty or end in `'\0'`, `NamesEnd`) and that sections are short enough for
`AsSize` to be exact (`Short`).  Each add preserves `Closed` because sections only grow,
so that what resolved keeps resolving.  `EmitsASnapshot`, `EmitsClosed` and
`BuilderImplementsLog` assume `Quiesced`: while an emit is going on the sections do
not change, and their present state is the only one that is not ordered before it, so that the
members copied are those of one state.  Of an emit that adds are not ordered before nothing is
proved, and nothing of the kind holds: its sections are of any states, in any order.  The refinement maps
`log` to `bc` and `released` to the emitted sections; `Finish` is the log's add, `EmitEnd`
its emit, and every other step a stutter, a discard or a renewal.

**`VMProofs`.** `VMTyped`, `NamesStayTaken`, `BuiltinsStayBacked`, `LoadsLeave`,
`LoadedStayFindable` and `NothingIsTaken` (the action property), for any bytecodes, builtins,
natives and numbers, and for pages of any size.  The invariant `Inv` has one part for each table,
stated over the table and the store its names are handles of: every name is one that
was refused or never given, one that a copy brought from an earlier VM, or a handle that is taken
(`IsName`); the copy survives in the freed state (`DeadOK`); a builtin is
callable and stands under its index; a function that stands for a builtin names one that is in
the table.  A store only grows under the VM, because nothing in `vm.cpp` erases, so that
names stay names (`KeptTables`).  What makes `LoadLeaves` and `LoadedAreFindable` inductive is
`CallOK`: at every row, what a load has done so far is what it leaves if it ends here, so
that a load which ends, fails or stops half way is one case.
`HandlesTyped`, `HoldersAreUnique` and `UsedVMsAreAlive` are about `VMHandle`, for any number of
threads, places and VMs.  `HandleInv` says that what a thread has in its hand is in no
handle and in no other hand, and that the places of constructions and destructions are not those of
any other operation; that is needed because the last step of a destruction makes its
place raw, and would otherwise drop what another thread put there.

**`AstProofs`.** `AstTyped`, `OwnersAreUnique`, `ReachableStaysAlive` and `TypesStayInterned`, for
any number of addresses, types, lengths and nodes.  `OneOwner` alone is not inductive: that a
destruction leaves nothing behind needs to know that what an AST owns is alive, or is where its
destruction stopped (`OwnedOK`), that callers hold none of it, that no two ASTs own one object
(`UniqueOK`), that nothing alive is without an owner (`KeptOK`), and that borrowed types are in
the hands of callers (`BorrowedOK`).  No AST that callers hold was destroyed half way, from
which `ReachableIsAlive` follows, but for the names of bindings: these are texts that callers
keep, or that they freed while an AST had them (`NodesOK`, `InvFreeText`).  Every one of these parts is stated of a heap, so
that a lemma about a step is about the heap before and the heap after it, and one lemma does
for all that change blocks in place (`InPlaceGood`).  `TypesAreInterned` comes from what is
true of each entry by itself (`EntriesOK`): its element is a basic type or an entry before it, no
two entries are one key, and its size is the product, modulo `SizeMod`, of its element's.  That
no two entries have one shape, and that every size is the exact one modulo `SizeMod`, is by
the least entry of which it were false (`ShapesDiffer`, `SizesAreExact`, `ProductOf`).

**`LexerProofs`.** `LexerTyped`, `LocationsStayRight`, `TokensStayLongest`, `ErrorsStayExact`
and `LexerAdvances`, for sources of any length and any classification of the characters that
meets `LexerAssumption`.  Together
`TypeOK` and `LocationsAgree` are inductive.  What makes them so is that a loop over a
class moves the location to the right by as many characters as it steps over, none of which
is a newline (`RightOf`, `NoNewlines`), that a newline moves it down (`DownOf`), and that
every lexing function returns a token of at least one character with the location after it,
or fails (`Returns`); `ReturnKeeps` then needs only that of a call.  That a string is stepped
through one character at a time makes its locations an invariant where a function over
the string would need induction.  For the tokens and the errors, `LexedInv` says that the
latest token is of its kind and the longest that begins there, that after an error no token
begins there, and that a string which is being stepped through has not ended yet, with the
escape flag of the code equal to the reference's parity of backslashes (`Open`).  Each lexing
function then gives a longest token because `RunEnd` is the end of a longest run, and because
no text of another kind begins with the characters of this one.

**`LoggingProofs`.** `LoggingTyped`, `HandlersAreCurrent` and `OnlyCallbacksWait`, for any
threads, parts and handlers, whatever the handlers call back.  The invariant `Inv` says of
each call by itself what its place in the code has established (`Frames`); that a call
which made another is a handler that runs or a part that logs, and that a part is called
only from a handler or from outside (`Nested`); that a mutex is owned by the thread in whose stack
exactly one call is past its lock (`Owned`); and that the function and the user are a pair but
between the two assignments (`Together`).  A handler that runs has the log mutex, so no
other call that reads or assigns the handler is past its own lock: that is
`HandlersAreCurrent`.  For `OnlyCallbacksWait`: if no thread of the circle is in a handler, the
only mutex a waiting thread has is that of a part which logs, so that it waits for the log
mutex; the owner of that would have to be in the circle, and then would wait with the
mutex of a part only.

**`LoaderProofs`.** `LoaderTyped`, `TheFileIsReturned`, `NamesStayInside` and
`RefusalsHaveACause`, for any files.  The invariant: what was read of a section is how the
section of the file begins, and was accepted; the sections before the one that is being
read were read whole; a refusal has an entry that was not accepted, or a wrong version.  The
rest is arithmetic on one entry: a negative index, converted, is larger than every section
because `SizeMod` is at least twice every number of bytes, and the number of bytes is at
least the number of entries.

Induction is by the least number of a set (`LeastOfNats`), which follows from the
well-founded order of the natural numbers; it also gives that the recursive functions
`Shape` and `ExactBits` are what their definitions say (`Recursion`).

Only model-checked: liveness, `Terminates` and `CallsReturn`, which is beyond the prover as
`ENABLED` is; and that the four violations happen, which are TLC's counterexamples.  All
invariants and action properties of the other runs are theorems.  No module has a RECURSIVE
operator.

## Not modelled, and the plan

Modelled first were the string buffer, because the VM and the AST rest on it, and the
builder, the one part that is made for threads; then the VM on top of `StringPages`, the
loader and the lexer; then the log handler, the AST with its types, and the C++ handles.
The proofs followed in the same order.  What is left:

1. **The other direction of the violated properties**: under which use of the library
   `DefaultsAreNamed`, `EmitIsSnapshot` and the loader's indexes do hold.  `EmitsASnapshot` is one
   such theorem; others would bound the names of the default builtins, and the indexes
   of a file.
2. **What `vtos` writes**, as a theorem on the operators of `StringPages`: three numbers in
   their places exactly when none of them overwrites another.
3. **A bytecode from builder to VM**: what a `Builder` emits, loaded by `VM` while the builder
   goes on.  Nothing in this commit writes a bytecode to a file, so that `Loader` has no
   counterpart to be composed with.

Left out for good: destroying a string buffer by itself and `NULL` arguments (no state is read
afterwards), hashing (a compile-time function), the wrappers of GMP and MPFR with the values
of numeric literals, the networking header (declarations only), the parser and the
compiler (they do nothing in this commit but to create and free an object), `qcMakeNativeFn` and
`qcStrCmp` (functions of their arguments without state), the arithmetic of the
builtins, the wrappers that only forward, and logging text.
