-------------------------------- MODULE Ast --------------------------------
(***************************************************************************)
(* The QC_Ast objects of ast.cpp, the type sets and string buffers they own  *)
(* or borrow, and the allocator all of them come from, which may fail to     *)
(* allocate and may refuse to free.  heap[a] is the block at address a: not  *)
(* allocated, an object, or a block whose object is destroyed but which the  *)
(* allocator did not take back ("OBJECT DESTROYED!").                       *)
(*                                                                          *)
(* What callers do: a type set is destroyed when no AST in their hands was   *)
(* made with it, derived types and nodes are made of the types and nodes of  *)
(* the same type set and AST, a binding is named with a text the caller has  *)
(* at that moment, and a handle is not used again once it was passed to its  *)
(* destroy function, whatever that returned.  Nothing says how long the text *)
(* of a name has to be kept, and callers free it whenever they like.        *)
(***************************************************************************)
EXTENDS StringPages, TypeSet, FiniteSetsExt

CONSTANTS
  Address,    \* where objects can be allocated
  Null,       \* no address, and no node
  Texts,      \* the strings of literals
  Names,      \* the texts of callers that bindings are named with
  BasicTypes, \* the basic types callers use
  Lengths,    \* the lengths of the arrays and vectors callers derive
  MaxTypes,   \* bound: the derived types of all type sets together
  MaxNodes    \* bound: the nodes of all ASTs together

ASSUME AstAssumption ==
  /\ Null \notin Address \cup Names
  /\ Texts \subseteq Seq(Byte \ {NUL})
  /\ BasicTypes \subseteq BasicType
  /\ Lengths \subseteq Nat
  /\ MaxTypes \in Nat /\ MaxNodes \in Nat

VARIABLES
  heap,       \* the block at each address
  held,       \* the ASTs and type sets in the hands of callers
  dropped,    \* history: ASTs that qcDestroyAst returned false for half way
  texts,      \* the texts of names that callers have not freed
  dangling    \* history: texts freed while an AST in callers' hands had them

vars == <<heap, held, dropped, texts, dangling>>
nameVars == <<texts, dangling>>

Unallocated == [is |-> "unallocated"]
Destroyed == [is |-> "destroyed"]
Strings(sb) == [is |-> "strings", sb |-> sb]
Types(entries) == [is |-> "types", entries |-> entries]
AstObject(strBuf, ts, ownsTypes, nodes) ==
  [is |-> "ast", strBuf |-> strBuf, ts |-> ts, ownsTypes |-> ownsTypes,
   nodes |-> nodes]

NoView == [buf |-> 0, off |-> 0, len |-> 0]
Node(kind, type, name, view, value) ==
  [kind |-> kind, type |-> type, name |-> name, view |-> view, value |-> value]

At(is) == {a \in Address : heap[a].is = is}
Unused == At("unallocated")
Asts == held \cap At("ast")
TypeSets == held \cap At("types")

AllTypes == MapThenSumSet(LAMBDA a : Len(heap[a].entries), At("types"))
AllNodes == MapThenSumSet(LAMBDA a : Len(heap[a].nodes), At("ast"))

\* A pointer to a type: a basic one, or an entry of a type set.
TypeRef == BasicTypes \cup [set : Address, place : Nat \ {0}]
NodeType == TypeRef \cup {NoType, qcTypeString("QC_STRING_UTF8")}

Entries ==
  [kind : {"ptr", "array", "vector"}, elem : TypeRef, n : Nat,
   numBits : 0 .. SizeMod - 1]
Nodes ==
  [kind : {"binding", "type", "number", "str"}, type : NodeType,
   name : Names \cup {Null}, view : [buf : Nat, off : Nat, len : Nat],
   value : Nat \cup {Null}]

IsBlock(block) ==
  \/ block \in {Unallocated, Destroyed}
  \/ block \in [is : {"types"}, entries : Seq(Entries)]
  \/ block \in [is : {"ast"}, strBuf : Address \cup {Null},
                ts : Address \cup {Null}, ownsTypes : BOOLEAN, nodes : Seq(Nodes)]
  \/ block = Strings(block.sb) /\ IsStringStore(block.sb)

TypeOK ==
  /\ heap = [a \in Address |-> heap[a]]
  /\ \A a \in Address : IsBlock(heap[a])
  /\ held \subseteq Address
  /\ dropped \subseteq Address
  /\ texts \subseteq Names /\ dangling \subseteq Names \ texts

Init ==
  /\ heap = [a \in Address |-> Unallocated]
  /\ held = {}
  /\ dropped = {}
  /\ texts = Names
  /\ dangling = {}

-----------------------------------------------------------------------------
\* Mutants.
OwnsWhatIsPassed(ts) == ts # Null
DestroysAnyTypes(a) == heap[a].ts

-----------------------------------------------------------------------------
\* The allocator: an allocation gets any unused address or fails, and a free
\* gives the block back or does not.

Allocated(but) == (Unused \ but) \cup {Null}

Placed(map, a, object) == IF a = Null THEN map ELSE [map EXCEPT ![a] = object]

Freed(accepted) == IF accepted THEN Unallocated ELSE Destroyed

-----------------------------------------------------------------------------
\* Type sets.

qcCreateTypeSetA ==
  \E p \in Unused :
    /\ heap' = [heap EXCEPT ![p] = Types(<<>>)]
    /\ held' = held \cup {p}
    /\ UNCHANGED <<dropped, nameVars>>

Borrowers(ts) == {a \in Asts : heap[a].ts = ts}

qcDestroyTypeSet(ts, accepted) ==
  /\ ts \in TypeSets /\ Borrowers(ts) = {}
  /\ heap' = [heap EXCEPT ![ts] = Freed(accepted)]
  /\ held' = held \ {ts}
  /\ UNCHANGED <<dropped, nameVars>>

\* The types a caller has got from a type set.
TypesOf(ts) ==
  BasicTypes \cup {DerivedAt(ts, i) : i \in DOMAIN heap[ts].entries}

Derive(ts, res) ==
  /\ AllTypes - Len(heap[ts].entries) + Len(res.entries) <= MaxTypes
  /\ heap' = [heap EXCEPT ![ts].entries = res.entries]
  /\ UNCHANGED <<held, dropped, nameVars>>

DerivePtr(ts, pointed) ==
  Derive(ts, qcTypePtr(heap[ts].entries, pointed))
DeriveArray(ts, elementType, n) ==
  Derive(ts, qcTypeArray(heap[ts].entries, elementType, n))
DeriveVector(ts, elementType, n) ==
  Derive(ts, qcTypeVector(heap[ts].entries, elementType, n))

-----------------------------------------------------------------------------
\* ASTs.

\* ptr->ownsTypes = !ts.
OwnsTypes(ts) == ts = Null

\* The string buffer and the type set may fail to be allocated, and the AST is
\* made without.
qcCreateAstA(ts) ==
  \E ptr \in Unused :
  \E strBuf \in Allocated({ptr}) :
  \E own \in IF ts # Null THEN {ts} ELSE Allocated({ptr, strBuf}) :
    /\ heap' = Placed(Placed(
                 [heap EXCEPT ![ptr] = AstObject(strBuf, own, OwnsTypes(ts), <<>>)],
                 strBuf, Strings(qcCreateStringBuffer)),
                 IF ts = Null THEN own ELSE Null, Types(<<>>))
    /\ held' = held \cup {ptr}
    /\ UNCHANGED <<dropped, nameVars>>

\* What qcDestroyAst destroys before the AST itself.
BufferOf(a) == heap[a].strBuf
OwnedTypes(a) == IF heap[a].ownsTypes THEN heap[a].ts ELSE Null

\* The free of the string buffer is refused: the AST is left pointing to it.
DestroyStopsAtBuffer(a) ==
  /\ BufferOf(a) # Null
  /\ heap' = [heap EXCEPT ![BufferOf(a)] = Destroyed]
  /\ held' = held \ {a}
  /\ dropped' = dropped \cup {a}
  /\ UNCHANGED nameVars

\* The free of the type set is refused, after that of the string buffer.
DestroyStopsAtTypes(a) ==
  /\ OwnedTypes(a) # Null
  /\ heap' = [Placed(heap, BufferOf(a), Unallocated)
                EXCEPT ![OwnedTypes(a)] = Destroyed, ![a].strBuf = Null]
  /\ held' = held \ {a}
  /\ dropped' = dropped \cup {a}
  /\ UNCHANGED nameVars

DestroyToTheEnd(a, accepted) ==
  /\ heap' = [Placed(Placed(heap, BufferOf(a), Unallocated),
                     OwnedTypes(a), Unallocated) EXCEPT ![a] = Freed(accepted)]
  /\ held' = held \ {a}
  /\ UNCHANGED <<dropped, nameVars>>

qcDestroyAst(a) ==
  /\ a \in Asts
  /\ \/ DestroyStopsAtBuffer(a)
     \/ DestroyStopsAtTypes(a)
     \/ \E accepted \in BOOLEAN : DestroyToTheEnd(a, accepted)

\* storedNodes.emplace: nodes never move.
AddNode(map, a, node) == [map EXCEPT ![a].nodes = Append(@, node)]

HasRoom(a) == a \in Asts /\ AllNodes < MaxNodes

\* The types for the nodes of an AST: those of its type set, if it has one.
TypesFor(a) == IF heap[a].ts = Null THEN BasicTypes ELSE TypesOf(heap[a].ts)

\* The name is kept as the view it was passed as: the text stays the caller's.
qcAstCreateBinding(a, type, name, value) ==
  /\ HasRoom(a)
  /\ heap' = AddNode(heap, a, Node("binding", type, name, NoView, value))
  /\ UNCHANGED <<held, dropped, nameVars>>

qcAstCreateLiteralType(a, type) ==
  /\ HasRoom(a)
  /\ heap' = AddNode(heap, a, Node("type", type, Null, NoView, Null))
  /\ UNCHANGED <<held, dropped, nameVars>>

\* qcAstCreateLiteralInt and qcAstCreateLiteralFloat: the type stays NULL.
CreateLiteralNumber(a) ==
  /\ HasRoom(a)
  /\ heap' = AddNode(heap, a, Node("number", NoType, Null, NoView, Null))
  /\ UNCHANGED <<held, dropped, nameVars>>

\* Without a string buffer, or with a string it refuses, there is no node.
qcAstCreateLiteralStr(a, str) ==
  /\ HasRoom(a) /\ heap[a].strBuf # Null
  /\ LET strBuf == heap[a].strBuf
         res    == qcStringBufferEmplace(heap[strBuf].sb, str)
     IN  /\ res.ret # NoString
         /\ heap' = AddNode([heap EXCEPT ![strBuf].sb = res.sb], a,
                            Node("str", qcTypeString("QC_STRING_UTF8"), Null,
                                 qcString(res.sb, res.ret), Null))
  /\ UNCHANGED <<held, dropped, nameVars>>

\* The texts that bindings of the ASTs in the hands of callers are named with.
Named ==
  {text \in Names : \E a \in Asts : \E i \in DOMAIN heap[a].nodes :
     heap[a].nodes[i].kind = "binding" /\ heap[a].nodes[i].name = text}

\* A caller frees a text, whether or not a binding keeps a view of it.
FreeText(text) ==
  /\ texts' = texts \ {text}
  /\ dangling' = dangling \cup ({text} \cap Named)
  /\ UNCHANGED <<heap, held, dropped>>

Next ==
  \/ qcCreateTypeSetA
  \/ \E ts \in TypeSets, accepted \in BOOLEAN : qcDestroyTypeSet(ts, accepted)
  \/ \E ts \in TypeSets :
     \E type \in TypesOf(ts) :
       \/ DerivePtr(ts, type)
       \/ \E n \in Lengths : DeriveArray(ts, type, n) \/ DeriveVector(ts, type, n)
  \/ \E ts \in TypeSets \cup {Null} : qcCreateAstA(ts)
  \/ \E a \in Asts :
       \/ qcDestroyAst(a)
       \/ \E type \in TypesFor(a), name \in texts,
             value \in DOMAIN heap[a].nodes \cup {Null} :
            qcAstCreateBinding(a, type, name, value)
       \/ \E type \in TypesFor(a) : qcAstCreateLiteralType(a, type)
       \/ CreateLiteralNumber(a)
       \/ \E str \in Texts : qcAstCreateLiteralStr(a, str)
  \/ \E text \in texts : FreeText(text)

Spec == Init /\ [][Next]_vars

-----------------------------------------------------------------------------
(***************************************************************************)
(* Properties.                                                              *)
(***************************************************************************)

\* Those who destroy an object: the callers, for what they hold (or held, when
\* qcDestroyAst gave up half way), and an AST for its string buffer and, when it
\* made it itself, its type set.
Objects == At("ast") \cup At("types") \cup At("strings")
Owners(o) ==
  {c \in {"caller"} : o \in held \cup dropped}
    \cup {a \in At("ast") : heap[a].strBuf = o \/ (heap[a].ownsTypes /\ heap[a].ts = o)}

\* Every object has exactly one owner, whichever allocations failed on the way
\* and wherever a destruction stopped: nothing is leaked by a success or by a
\* half made AST, and nothing is destroyed by two.
OneOwner ==
  /\ \A o \in Objects : Cardinality(Owners(o)) = 1
  /\ held \subseteq Objects

\* An object of this kind is at the address, and it is the place it says.
IsType(type) ==
  \/ type = NoType
  \/ type \in BasicTypes \cup {qcTypeString("QC_STRING_UTF8")}
  \/ /\ IsDerived(type)
     /\ heap[type.set].is = "types"
     /\ type.place \in DOMAIN heap[type.set].entries

IsInside(view, sb) ==
  /\ view.buf < Len(sb.bufs)
  /\ view.len > 0 /\ view.off + view.len < PageSize

\* What can be reached through the ASTs in the hands of callers is alive: its
\* string buffer and its types, borrowed or not, the types and values of its
\* nodes, and what each string literal points to, which lies inside a page.  The
\* one exception is the name of a binding (ast.cpp:112): that is the text of a
\* caller, alive as long as the caller keeps it, and dead only when a caller freed
\* it while an AST had it.
ReachableIsAlive ==
  \A a \in Asts :
    /\ heap[a].strBuf # Null => heap[heap[a].strBuf].is = "strings"
    /\ heap[a].ts # Null => heap[heap[a].ts].is = "types"
    /\ \A i \in DOMAIN heap[a].nodes :
         LET node == heap[a].nodes[i]
         IN  /\ IsType(node.type)
             /\ node.value # Null => node.value < i
             /\ node.kind = "binding" => node.name \in texts \cup dangling
             /\ node.kind = "str" =>
                  /\ heap[a].strBuf # Null
                  /\ IsInside(node.view, heap[heap[a].strBuf].sb)

\* Types are compared by address.  Deriving a type in a set gives an entry that is
\* the one asked for, and gives it again; two entries of a set are never the same
\* type all the way down; and the size of each, computed from the size of
\* another modulo 2^64, is the exact size of the whole modulo 2^64.
TypesAreInterned ==
  \A ts \in TypeSets :
    LET entries == heap[ts].entries
    IN  /\ \A i, j \in DOMAIN entries :
             /\ Shape(entries)[i] = Shape(entries)[j] => i = j
             /\ entries[i].numBits = ExactBits(entries)[i] % SizeMod
        /\ \A elem \in TypesOf(ts), n \in Lengths :
             LET res   == qcTypeArray(entries, elem, n)
                 entry == res.entries[res.place]
             IN  /\ entry.kind = "array" /\ entry.elem = elem /\ entry.n = n
                 /\ qcTypeArray(res.entries, elem, n) = res
=============================================================================
