----------------------------- MODULE AstProofs -----------------------------
(***************************************************************************)
(* Theorems about Ast, for any number of addresses, types, texts and nodes,  *)
(* and whatever the allocator refuses.                                      *)
(*                                                                          *)
(* OneOwner alone is not inductive: that a destruction leaves nothing behind *)
(* needs to know what the pointers of an AST point to, also those of an AST   *)
(* whose destruction stopped half way, and that nobody points to an address   *)
(* that is not allocated.  What a step does to the heap is stated of the heap *)
(* before and the heap after it, h and k, and N is the texts that the names  *)
(* of bindings may be views of.                                             *)
(*                                                                          *)
(* That types are interned is about the entries of one type set, and comes    *)
(* from what is true of each by itself; a statement about all of them is      *)
(* proved by the least entry of which it were false.                        *)
(***************************************************************************)
EXTENDS Ast, StringPagesProofs, FiniteSetTheorems

IsAst(h, a) == h[a].is = "ast"
Owns(h, a, o) == h[a].strBuf = o \/ (h[a].ownsTypes /\ h[a].ts = o)

\* The entries of the type set at ts are made of basic types and of entries
\* before them, no two are one key, and each has the size of its element.
EntriesOK(ts, entries) ==
  /\ \A i \in DOMAIN entries :
       /\ \/ entries[i].elem \in BasicTypes
          \/ \E p \in DOMAIN entries : p < i /\ entries[i].elem = DerivedAt(ts, p)
       /\ entries[i].numBits =
            IF entries[i].kind = "ptr" THEN PtrBits
            ELSE (NumBits(entries, entries[i].elem) * entries[i].n) % SizeMod
  /\ \A i, j \in DOMAIN entries :
       /\ entries[i].kind = entries[j].kind
       /\ entries[i].elem = entries[j].elem
       /\ entries[i].n = entries[j].n
       => i = j

\* The block at address a.
BlockOK(a, block) ==
  /\ IsBlock(block)
  /\ block.is = "strings" => StoreInv(block.sb)
  /\ block.is = "types" => EntriesOK(a, block.entries)

IsHeap(h) ==
  /\ h = [a \in Address |-> h[a]]
  /\ \A a \in Address : BlockOK(a, h[a])

\* Callers hold ASTs and type sets, and every AST is in their hands or was.
HandsOK(h, c, d) ==
  /\ c \subseteq Address /\ d \subseteq Address /\ c \cap d = {}
  /\ \A a \in c : h[a].is \in {"ast", "types"}
  /\ \A a \in d : IsAst(h, a)
  /\ \A a \in Address : IsAst(h, a) => a \in c \cup d

\* What an AST owns is alive, or the AST is one whose destruction stopped there.
OwnedOK(h, c, d) ==
  \A a, o \in Address :
    IsAst(h, a) /\ Owns(h, a, o) =>
      /\ o \notin c
      /\ h[a].strBuf = o => h[o].is = "strings" \/ (a \in d /\ h[o].is = "destroyed")
      /\ h[a].ownsTypes /\ h[a].ts = o =>
           h[o].is = "types" \/ (a \in d /\ h[o].is = "destroyed")

\* Nothing is owned by two ASTs.
UniqueOK(h) ==
  \A a, b, o \in Address :
    IsAst(h, a) /\ Owns(h, a, o) /\ IsAst(h, b) /\ Owns(h, b, o) => a = b

\* Nothing that is alive is left without an owner.
KeptOK(h, c) ==
  \A o \in Address :
    h[o].is \in {"strings", "types"} /\ o \notin c =>
      \E a \in Address : IsAst(h, a) /\ Owns(h, a, o)

\* The types an AST borrows are those of a type set that callers hold.
BorrowedOK(h, c) ==
  \A a \in c :
    IsAst(h, a) /\ ~ h[a].ownsTypes =>
      h[a].ts \in c /\ h[h[a].ts].is = "types"

\* The type of a node, in an AST with this type set.
TypeAt(h, ts, type) ==
  \/ type = NoType
  \/ type \in BasicTypes \cup {qcTypeString("QC_STRING_UTF8")}
  \/ /\ IsDerived(type)
     /\ ts \in Address /\ h[ts].is = "types"
     /\ type.set = ts /\ type.place \in DOMAIN h[ts].entries

\* A node at place i, in an AST whose names may be any of N.
NodeOK(h, a, node, i, N) ==
  /\ TypeAt(h, h[a].ts, node.type)
  /\ node.value # Null => node.value < i
  /\ node.kind = "binding" => node.name \in N
  /\ node.kind = "str" =>
       /\ h[a].strBuf # Null
       /\ node.view.buf = 0
       /\ node.view.len > 0 /\ node.view.off + node.view.len < PageSize

NodesOK(h, c, N) ==
  \A a \in c : IsAst(h, a) =>
    \A i \in DOMAIN h[a].nodes : NodeOK(h, a, h[a].nodes[i], i, N)

Good(h, c, d, N) ==
  /\ IsHeap(h)
  /\ HandsOK(h, c, d)
  /\ OwnedOK(h, c, d)
  /\ UniqueOK(h)
  /\ KeptOK(h, c)
  /\ BorrowedOK(h, c)
  /\ NodesOK(h, c, N)

\* The texts a name may be a view of: those that callers keep, and those that
\* they freed while it had them.
Viewable == texts \cup dangling
TextsOK == texts \subseteq Names /\ dangling \subseteq Names \ texts

Inv == Good(heap, held, dropped, Viewable) /\ TextsOK

\* Nothing but these addresses changes.
But(h, k, S) ==
  /\ k = [a \in Address |-> k[a]]
  /\ \A a \in Address \ S : k[a] = h[a]

-----------------------------------------------------------------------------
\* Blocks.

LEMMA BlockFacts ==
  ASSUME NEW b, IsBlock(b)
  PROVE  /\ b.is \in {"unallocated", "destroyed", "types", "ast", "strings"}
         /\ b.is = "types" => b = Types(b.entries) /\ b.entries \in Seq(Entries)
         /\ b.is = "ast" =>
              /\ b = AstObject(b.strBuf, b.ts, b.ownsTypes, b.nodes)
              /\ b.strBuf \in Address \cup {Null} /\ b.ts \in Address \cup {Null}
              /\ b.ownsTypes \in BOOLEAN /\ b.nodes \in Seq(Nodes)
         /\ b.is = "strings" => b = Strings(b.sb)
<1>1. CASE b \in {Unallocated, Destroyed}
  BY <1>1 DEF Unallocated, Destroyed
<1>2. CASE b \in [is : {"types"}, entries : Seq(Entries)]
  BY <1>2 DEF Types
<1>3. CASE b \in [is : {"ast"}, strBuf : Address \cup {Null},
                  ts : Address \cup {Null}, ownsTypes : BOOLEAN, nodes : Seq(Nodes)]
  BY <1>3 DEF AstObject
<1>4. CASE b = Strings(b.sb) /\ IsStringStore(b.sb)
  <2>1. b.is = "strings"
    BY <1>4 DEF Strings
  <2> QED BY <1>4, <2>1
<1> QED BY <1>1, <1>2, <1>3, <1>4 DEF IsBlock

LEMMA GoneFacts ==
  ASSUME NEW a, NEW b \in {Unallocated, Destroyed}
  PROVE  BlockOK(a, b) /\ b.is \in {"unallocated", "destroyed"}
  BY DEF BlockOK, IsBlock, Unallocated, Destroyed

LEMMA TypesFacts ==
  ASSUME NEW a, NEW entries \in Seq(Entries), EntriesOK(a, entries)
  PROVE  /\ BlockOK(a, Types(entries)) /\ Types(entries).is = "types"
         /\ Types(entries).entries = entries
  BY DEF BlockOK, IsBlock, Types

LEMMA NoTypesFacts ==
  ASSUME NEW a
  PROVE  BlockOK(a, Types(<<>>)) /\ Types(<<>>).is = "types"
<1>1. <<>> \in Seq(Entries) /\ EntriesOK(a, <<>>)
  BY DEF EntriesOK
<1> QED BY <1>1, TypesFacts

LEMMA StringsFacts ==
  ASSUME NEW a, NEW sb, StoreInv(sb)
  PROVE  /\ BlockOK(a, Strings(sb)) /\ Strings(sb).is = "strings"
         /\ Strings(sb).sb = sb
<1>1. Strings(sb).is = "strings" /\ Strings(sb).sb = sb
  BY DEF Strings
<1> QED BY <1>1 DEF BlockOK, IsBlock, StoreInv

LEMMA AstFacts ==
  ASSUME NEW a, NEW b, b = AstObject(b.strBuf, b.ts, b.ownsTypes, b.nodes),
         b.strBuf \in Address \cup {Null}, b.ts \in Address \cup {Null},
         b.ownsTypes \in BOOLEAN, b.nodes \in Seq(Nodes)
  PROVE  BlockOK(a, b) /\ b.is = "ast"
  BY DEF BlockOK, IsBlock, AstObject

-----------------------------------------------------------------------------
\* What pointers point to.

LEMMA PointerFacts ==
  ASSUME NEW h, NEW c, NEW d, NEW N, Good(h, c, d, N), NEW a \in Address, IsAst(h, a)
  PROVE  /\ h[a] = AstObject(h[a].strBuf, h[a].ts, h[a].ownsTypes, h[a].nodes)
         /\ h[a].strBuf \in Address \cup {Null} /\ h[a].ts \in Address \cup {Null}
         /\ h[a].ownsTypes \in BOOLEAN /\ h[a].nodes \in Seq(Nodes)
         /\ a \in c \cup d
         /\ \A o \in Address : Owns(h, a, o) =>
              /\ o \notin c \cup d
              /\ h[o].is \in {"strings", "types", "destroyed"}
<1>1. BlockOK(a, h[a]) /\ h[a].is = "ast"
  BY DEF Good, IsHeap, IsAst
<1>2. /\ h[a] = AstObject(h[a].strBuf, h[a].ts, h[a].ownsTypes, h[a].nodes)
      /\ h[a].strBuf \in Address \cup {Null} /\ h[a].ts \in Address \cup {Null}
      /\ h[a].ownsTypes \in BOOLEAN /\ h[a].nodes \in Seq(Nodes)
  BY <1>1, BlockFacts DEF BlockOK
<1>3. a \in c \cup d
  BY DEF Good, HandsOK
<1>4. ASSUME NEW o \in Address, Owns(h, a, o)
      PROVE  o \notin c \cup d /\ h[o].is \in {"strings", "types", "destroyed"}
  <2>1. o \notin c /\ h[o].is \in {"strings", "types", "destroyed"}
    BY <1>4 DEF Good, OwnedOK, Owns
  <2>2. \A b \in d : h[b].is = "ast"
    BY DEF Good, HandsOK, IsAst
  <2> QED BY <2>1, <2>2
<1> QED BY <1>2, <1>3, <1>4

\* In the hands of callers, what an AST owns is there.
LEMMA HeldFacts ==
  ASSUME NEW h, NEW c, NEW d, NEW N, Good(h, c, d, N), NEW a \in c, IsAst(h, a)
  PROVE  /\ a \in Address /\ a \notin d
         /\ h[a].strBuf # Null => h[a].strBuf \in Address /\ h[h[a].strBuf].is = "strings"
         /\ h[a].ts # Null => h[a].ts \in Address /\ h[h[a].ts].is = "types"
         /\ h[a].ownsTypes => h[a].ts \notin c
         /\ ~ h[a].ownsTypes => h[a].ts \in c
<1>1. a \in Address /\ a \notin d /\ c \subseteq Address
  BY DEF Good, HandsOK
<1>2. h[a].strBuf \in Address \cup {Null} /\ h[a].ts \in Address \cup {Null}
  BY <1>1, PointerFacts
<1>3. h[a].strBuf # Null => h[a].strBuf \in Address /\ h[h[a].strBuf].is = "strings"
  BY <1>1, <1>2 DEF Good, OwnedOK, Owns
<1>4. CASE h[a].ownsTypes = TRUE
  <2>1. h[a].ts # Null => h[a].ts \in Address /\ h[h[a].ts].is = "types" /\ h[a].ts \notin c
    BY <1>1, <1>2, <1>4 DEF Good, OwnedOK, Owns
  <2>2. Null \notin c
    BY <1>1, AstAssumption
  <2> QED BY <1>1, <1>3, <1>4, <2>1, <2>2
<1>5. CASE h[a].ownsTypes # TRUE
  <2>1. h[a].ts \in c /\ h[h[a].ts].is = "types"
    BY <1>5 DEF Good, BorrowedOK
  <2> QED BY <1>1, <1>3, <1>5, <2>1
<1> QED BY <1>4, <1>5

-----------------------------------------------------------------------------
\* Type sets.

\* Placing something at an unused address does not disturb what was there.
LEMMA NodesStay ==
  ASSUME NEW h, NEW c, NEW d, NEW N, Good(h, c, d, N), NEW k, NEW a \in c, IsAst(h, a),
         k[a] = h[a],
         h[a].ts # Null =>
           /\ k[h[a].ts].is = "types"
           /\ DOMAIN h[h[a].ts].entries \subseteq DOMAIN k[h[a].ts].entries
  PROVE  \A i \in DOMAIN k[a].nodes : NodeOK(k, a, k[a].nodes[i], i, N)
<1> SUFFICES ASSUME NEW i \in DOMAIN h[a].nodes PROVE NodeOK(k, a, h[a].nodes[i], i, N)
  OBVIOUS
<1>1. NodeOK(h, a, h[a].nodes[i], i, N)
  BY DEF Good, NodesOK
<1>2. TypeAt(h, h[a].ts, h[a].nodes[i].type) => TypeAt(k, h[a].ts, h[a].nodes[i].type)
  BY AstAssumption DEF TypeAt
<1> QED BY <1>1, <1>2 DEF NodeOK

LEMMA CreateTypesGood ==
  ASSUME NEW h, NEW c, NEW d, NEW N, Good(h, c, d, N), NEW p \in Address,
         h[p].is = "unallocated",
         NEW k, But(h, k, {p}), k[p] = Types(<<>>)
  PROVE  Good(k, c \cup {p}, d, N)
<1>1. BlockOK(p, Types(<<>>)) /\ Types(<<>>).is = "types"
  BY NoTypesFacts
<1>2. /\ k = [a \in Address |-> k[a]]
      /\ k[p] = Types(<<>>)
      /\ \A a \in Address : a # p => k[a] = h[a]
  BY DEF But
<1>3. \A a \in Address : IsAst(k, a) <=> IsAst(h, a) /\ a # p
  BY <1>1, <1>2 DEF IsAst
<1>4. \A a \in Address : IsAst(h, a) => a # p /\ k[a] = h[a]
  BY <1>2 DEF IsAst
<1>5. \A a, o \in Address : IsAst(h, a) => (Owns(k, a, o) <=> Owns(h, a, o))
  BY <1>4 DEF Owns
<1>6. \A a, o \in Address : IsAst(h, a) /\ Owns(h, a, o) => o # p
  BY PointerFacts
<1>7. IsHeap(k)
  BY <1>1, <1>2 DEF Good, IsHeap
<1>8. HandsOK(k, c \cup {p}, d)
  <2>1. p \notin d /\ p \notin c
    BY DEF Good, HandsOK, IsAst
  <2> QED BY <1>1, <1>2, <1>3, <2>1 DEF Good, HandsOK, IsAst
<1>9. OwnedOK(k, c \cup {p}, d)
  BY <1>2, <1>3, <1>4, <1>5, <1>6 DEF Good, OwnedOK
<1>10. UniqueOK(k)
  BY <1>3, <1>5 DEF Good, UniqueOK
<1>11. KeptOK(k, c \cup {p})
  <2> SUFFICES ASSUME NEW o \in Address, k[o].is \in {"strings", "types"}, o \notin c \cup {p}
               PROVE  \E a \in Address : IsAst(k, a) /\ Owns(k, a, o)
    BY DEF KeptOK
  <2>1. PICK a \in Address : IsAst(h, a) /\ Owns(h, a, o)
    BY <1>2 DEF Good, KeptOK
  <2> QED BY <1>3, <1>4, <1>5, <2>1
<1>12. BorrowedOK(k, c \cup {p})
  <2> SUFFICES ASSUME NEW a \in c \cup {p}, IsAst(k, a), ~ k[a].ownsTypes
               PROVE  k[a].ts \in c \cup {p} /\ k[k[a].ts].is = "types"
    BY DEF BorrowedOK
  <2>1. a \in c /\ IsAst(h, a) /\ k[a] = h[a] /\ c \subseteq Address
    BY <1>3, <1>4 DEF Good, HandsOK
  <2>2. h[a].ts \in c /\ h[h[a].ts].is = "types"
    BY <2>1 DEF Good, BorrowedOK
  <2> QED BY <1>2, <2>1, <2>2
<1>13. NodesOK(k, c \cup {p}, N)
  <2> SUFFICES ASSUME NEW a \in c \cup {p}, IsAst(k, a)
               PROVE  \A i \in DOMAIN k[a].nodes : NodeOK(k, a, k[a].nodes[i], i, N)
    BY DEF NodesOK
  <2>1. a \in c /\ IsAst(h, a) /\ k[a] = h[a]
    BY <1>3, <1>4 DEF Good, HandsOK
  <2>2. h[a].ts # Null => h[a].ts \in Address /\ h[h[a].ts].is = "types"
    BY <2>1, HeldFacts
  <2>3. h[a].ts # Null => k[h[a].ts] = h[h[a].ts]
    BY <1>2, <2>2
  <2> QED BY <2>1, <2>2, <2>3, NodesStay
<1> QED BY <1>7, <1>8, <1>9, <1>10, <1>11, <1>12, <1>13 DEF Good

-----------------------------------------------------------------------------
\* Steps that change no AST: type sets and strings.

\* Who owns what is the same as long as no AST changes.
LEMMA SameAsts ==
  ASSUME NEW h, NEW k, NEW S, But(h, k, S),
         \A a \in Address \cap S : ~ IsAst(h, a) /\ ~ IsAst(k, a)
  PROVE  /\ \A a \in Address : IsAst(k, a) <=> IsAst(h, a)
         /\ \A a \in Address : IsAst(h, a) => k[a] = h[a]
         /\ \A a, o \in Address : IsAst(h, a) => (Owns(k, a, o) <=> Owns(h, a, o))
         /\ UniqueOK(h) => UniqueOK(k)
<1>1. \A a \in Address : a \notin S => k[a] = h[a]
  BY DEF But
<1>2. \A a \in Address : IsAst(k, a) <=> IsAst(h, a)
  BY <1>1 DEF IsAst
<1>3. \A a \in Address : IsAst(h, a) => k[a] = h[a]
  BY <1>1
<1>4. \A a, o \in Address : IsAst(h, a) => (Owns(k, a, o) <=> Owns(h, a, o))
  BY <1>3 DEF Owns
<1> QED BY <1>2, <1>3, <1>4 DEF UniqueOK

LEMMA DestroyTypesGood ==
  ASSUME NEW h, NEW c, NEW d, NEW N, Good(h, c, d, N), NEW ts \in c, h[ts].is = "types",
         \A a \in c : IsAst(h, a) => h[a].ts # ts,
         NEW k, But(h, k, {ts}), k[ts] \in {Unallocated, Destroyed}
  PROVE  Good(k, c \ {ts}, d, N)
<1>1. BlockOK(ts, k[ts]) /\ k[ts].is \in {"unallocated", "destroyed"}
  BY GoneFacts
<1>2. /\ k = [a \in Address |-> k[a]] /\ ts \in Address /\ c \subseteq Address
      /\ \A a \in Address : a # ts => k[a] = h[a]
  BY DEF But, Good, HandsOK
<1>3. /\ \A a \in Address : IsAst(k, a) <=> IsAst(h, a)
      /\ \A a \in Address : IsAst(h, a) => k[a] = h[a] /\ a # ts
      /\ \A a, o \in Address : IsAst(h, a) => (Owns(k, a, o) <=> Owns(h, a, o))
      /\ UniqueOK(k)
  <2>1. \A a \in Address \cap {ts} : ~ IsAst(h, a) /\ ~ IsAst(k, a)
    BY <1>1 DEF IsAst
  <2>2. \A a \in Address : IsAst(h, a) => a # ts
    BY DEF IsAst
  <2> QED BY <2>1, <2>2, SameAsts DEF Good
\* Callers hold it, so that no AST owns it.
<1>4. \A a, o \in Address : IsAst(h, a) /\ Owns(h, a, o) => o # ts
  BY PointerFacts
<1>5. IsHeap(k)
  BY <1>1, <1>2 DEF Good, IsHeap
<1>6. HandsOK(k, c \ {ts}, d)
  BY <1>2, <1>3 DEF Good, HandsOK
<1>7. OwnedOK(k, c \ {ts}, d)
  BY <1>2, <1>3, <1>4 DEF Good, OwnedOK
<1>8. KeptOK(k, c \ {ts})
  <2> SUFFICES ASSUME NEW o \in Address, k[o].is \in {"strings", "types"}, o \notin c \ {ts}
               PROVE  \E a \in Address : IsAst(k, a) /\ Owns(k, a, o)
    BY DEF KeptOK
  <2>1. o # ts
    BY <1>1
  <2>2. PICK a \in Address : IsAst(h, a) /\ Owns(h, a, o)
    BY <1>2, <2>1 DEF Good, KeptOK
  <2> QED BY <1>3, <2>2
<1>9. BorrowedOK(k, c \ {ts})
  <2> SUFFICES ASSUME NEW a \in c \ {ts}, IsAst(k, a), ~ k[a].ownsTypes
               PROVE  k[a].ts \in c \ {ts} /\ k[k[a].ts].is = "types"
    BY DEF BorrowedOK
  <2>1. IsAst(h, a) /\ k[a] = h[a] /\ h[a].ts # ts
    BY <1>2, <1>3
  <2>2. h[a].ts \in c /\ h[h[a].ts].is = "types"
    BY <2>1 DEF Good, BorrowedOK
  <2> QED BY <1>2, <2>1, <2>2
<1>10. NodesOK(k, c \ {ts}, N)
  <2> SUFFICES ASSUME NEW a \in c \ {ts}, IsAst(k, a)
               PROVE  \A i \in DOMAIN k[a].nodes : NodeOK(k, a, k[a].nodes[i], i, N)
    BY DEF NodesOK
  <2>1. a \in c /\ IsAst(h, a) /\ k[a] = h[a] /\ h[a].ts # ts
    BY <1>2, <1>3
  <2>2. h[a].ts # Null => h[a].ts \in Address /\ h[h[a].ts].is = "types"
    BY <2>1, HeldFacts
  <2>3. h[a].ts # Null => k[h[a].ts] = h[h[a].ts]
    BY <1>2, <2>1, <2>2
  <2> QED BY <2>1, <2>2, <2>3, NodesStay
<1> QED BY <1>3, <1>5, <1>6, <1>7, <1>8, <1>9, <1>10 DEF Good

\* What changes in its place: a type set gets entries and keeps those it has, or
\* a string is emplaced into a buffer.
LEMMA InPlaceGood ==
  ASSUME NEW h, NEW c, NEW d, NEW N, Good(h, c, d, N), NEW p \in Address,
         NEW k, But(h, k, {p}), BlockOK(p, k[p]), k[p].is = h[p].is,
         h[p].is \in {"types", "strings"},
         h[p].is = "types" => DOMAIN h[p].entries \subseteq DOMAIN k[p].entries
  PROVE  Good(k, c, d, N)
<1>1. BlockOK(p, k[p]) /\ k[p].is = h[p].is /\ ~ IsAst(h, p)
  BY DEF IsAst
<1>2. /\ k = [a \in Address |-> k[a]] /\ c \subseteq Address
      /\ \A a \in Address : a # p => k[a] = h[a]
      /\ \A a \in Address : k[a].is = h[a].is
  BY <1>1 DEF But, Good, HandsOK
<1>3. /\ \A a \in Address : IsAst(k, a) <=> IsAst(h, a)
      /\ \A a \in Address : IsAst(h, a) => k[a] = h[a]
      /\ \A a, o \in Address : IsAst(h, a) => (Owns(k, a, o) <=> Owns(h, a, o))
      /\ UniqueOK(k)
  <2>1. \A a \in Address \cap {p} : ~ IsAst(h, a) /\ ~ IsAst(k, a)
    BY <1>1 DEF IsAst
  <2> QED BY <2>1, SameAsts DEF Good
<1>4. IsHeap(k)
  BY <1>1, <1>2 DEF Good, IsHeap
<1>5. HandsOK(k, c, d)
  BY <1>2, <1>3 DEF Good, HandsOK
<1>6. OwnedOK(k, c, d)
  BY <1>2, <1>3 DEF Good, OwnedOK
<1>7. KeptOK(k, c)
  BY <1>2, <1>3 DEF Good, KeptOK
<1>8. BorrowedOK(k, c)
  <2> SUFFICES ASSUME NEW a \in c, IsAst(k, a), ~ k[a].ownsTypes
               PROVE  k[a].ts \in c /\ k[k[a].ts].is = "types"
    BY DEF BorrowedOK
  <2>1. IsAst(h, a) /\ k[a] = h[a]
    BY <1>2, <1>3
  <2>2. h[a].ts \in c /\ h[h[a].ts].is = "types"
    BY <2>1 DEF Good, BorrowedOK
  <2> QED BY <1>2, <2>1, <2>2
<1>9. NodesOK(k, c, N)
  <2> SUFFICES ASSUME NEW a \in c, IsAst(k, a)
               PROVE  \A i \in DOMAIN k[a].nodes : NodeOK(k, a, k[a].nodes[i], i, N)
    BY DEF NodesOK
  <2>1. IsAst(h, a) /\ k[a] = h[a]
    BY <1>2, <1>3
  <2>2. h[a].ts # Null => h[a].ts \in Address /\ h[h[a].ts].is = "types"
    BY <2>1, HeldFacts
  <2>3. h[a].ts # Null =>
          /\ k[h[a].ts].is = "types"
          /\ DOMAIN h[h[a].ts].entries \subseteq DOMAIN k[h[a].ts].entries
    BY <1>1, <1>2, <2>2
  <2> QED BY <2>1, <2>3, NodesStay
<1> QED BY <1>3, <1>4, <1>5, <1>6, <1>7, <1>8, <1>9 DEF Good

-----------------------------------------------------------------------------
\* ASTs.

\* A node is added to an AST, whose pointers stay.
LEMMA AddNodeGood ==
  ASSUME NEW h, NEW c, NEW d, NEW N, Good(h, c, d, N), NEW p \in c, IsAst(h, p),
         NEW node \in Nodes, NodeOK(h, p, node, Len(h[p].nodes) + 1, N),
         NEW k, But(h, k, {p}),
         k[p] = AstObject(h[p].strBuf, h[p].ts, h[p].ownsTypes, Append(h[p].nodes, node))
  PROVE  Good(k, c, d, N)
<1>1. /\ p \in Address /\ p \notin d /\ c \subseteq Address
      /\ h[p].strBuf \in Address \cup {Null} /\ h[p].ts \in Address \cup {Null}
      /\ h[p].ownsTypes \in BOOLEAN /\ h[p].nodes \in Seq(Nodes)
  <2>1. p \in Address /\ c \subseteq Address
    BY DEF Good, HandsOK
  <2> QED BY <2>1, HeldFacts, PointerFacts
<1> DEFINE nodes == Append(h[p].nodes, node)
<1>2. /\ nodes \in Seq(Nodes)
      /\ DOMAIN nodes = DOMAIN h[p].nodes \cup {Len(h[p].nodes) + 1}
      /\ \A i \in DOMAIN h[p].nodes : nodes[i] = h[p].nodes[i]
      /\ nodes[Len(h[p].nodes) + 1] = node
  BY <1>1
<1> HIDE DEF nodes
<1>3. /\ BlockOK(p, k[p]) /\ k[p].is = "ast" /\ k[p].strBuf = h[p].strBuf /\ k[p].ts = h[p].ts
      /\ k[p].ownsTypes = h[p].ownsTypes /\ k[p].nodes = nodes
  <2>1. k[p] = AstObject(h[p].strBuf, h[p].ts, h[p].ownsTypes, nodes)
    BY DEF nodes
  <2>2. /\ k[p].strBuf = h[p].strBuf /\ k[p].ts = h[p].ts
        /\ k[p].ownsTypes = h[p].ownsTypes /\ k[p].nodes = nodes
    BY <2>1 DEF AstObject
  <2>3. BlockOK(p, k[p]) /\ k[p].is = "ast"
    BY <1>1, <1>2, <2>1, <2>2, AstFacts
  <2> QED BY <2>2, <2>3
<1>4. /\ k = [a \in Address |-> k[a]]
      /\ \A a \in Address : a # p => k[a] = h[a]
      /\ \A a \in Address : k[a].is = h[a].is
  BY <1>3 DEF But, IsAst
<1>5. /\ \A a \in Address : IsAst(k, a) <=> IsAst(h, a)
      /\ \A a \in Address : IsAst(h, a) =>
           k[a].strBuf = h[a].strBuf /\ k[a].ts = h[a].ts /\ k[a].ownsTypes = h[a].ownsTypes
  BY <1>3, <1>4 DEF IsAst
<1>6. \A a, o \in Address : IsAst(h, a) => (Owns(k, a, o) <=> Owns(h, a, o))
  BY <1>5 DEF Owns
<1>7. IsHeap(k)
  BY <1>3, <1>4 DEF Good, IsHeap
<1>8. HandsOK(k, c, d)
  BY <1>4, <1>5 DEF Good, HandsOK
<1>9. OwnedOK(k, c, d)
  BY <1>4, <1>5, <1>6 DEF Good, OwnedOK
<1>10. UniqueOK(k)
  BY <1>5, <1>6 DEF Good, UniqueOK
<1>11. KeptOK(k, c)
  BY <1>4, <1>5, <1>6 DEF Good, KeptOK
<1>12. BorrowedOK(k, c)
  <2> SUFFICES ASSUME NEW a \in c, IsAst(k, a), ~ k[a].ownsTypes
               PROVE  k[a].ts \in c /\ k[k[a].ts].is = "types"
    BY DEF BorrowedOK
  <2>1. IsAst(h, a) /\ k[a].ts = h[a].ts /\ ~ h[a].ownsTypes
    BY <1>1, <1>5
  <2>2. h[a].ts \in c /\ h[h[a].ts].is = "types"
    BY <2>1 DEF Good, BorrowedOK
  <2> QED BY <1>1, <1>4, <2>1, <2>2
<1>13. NodesOK(k, c, N)
  <2>1. ASSUME NEW a \in c, IsAst(h, a), NEW n, NEW i, NodeOK(h, a, n, i, N)
        PROVE  NodeOK(k, a, n, i, N)
    <3>1. k[a].ts = h[a].ts /\ k[a].strBuf = h[a].strBuf
      BY <1>1, <1>5, <2>1
    <3>2. h[a].ts # Null => h[a].ts \in Address /\ h[h[a].ts].is = "types"
      BY <2>1, HeldFacts
    <3>3. h[a].ts # Null => k[h[a].ts] = h[h[a].ts]
      BY <1>3, <1>4, <3>2 DEF IsAst
    <3>4. TypeAt(h, h[a].ts, n.type) => TypeAt(k, h[a].ts, n.type)
      BY <3>3, AstAssumption DEF TypeAt
    <3> QED BY <2>1, <3>1, <3>4 DEF NodeOK
  <2>2. ASSUME NEW a \in c, IsAst(h, a), NEW i \in DOMAIN k[a].nodes
        PROVE  NodeOK(h, a, k[a].nodes[i], i, N)
    <3>1. CASE a # p \/ i \in DOMAIN h[p].nodes
      <4>1. i \in DOMAIN h[a].nodes /\ k[a].nodes[i] = h[a].nodes[i]
        BY <1>1, <1>2, <1>3, <1>4, <2>2, <3>1
      <4> QED BY <2>2, <4>1 DEF Good, NodesOK
    <3>2. CASE a = p /\ i \notin DOMAIN h[p].nodes
      <4>1. i = Len(h[p].nodes) + 1 /\ k[a].nodes[i] = node
        BY <1>2, <1>3, <2>2, <3>2
      <4> QED BY <3>2, <4>1
    <3> QED BY <3>1, <3>2
  <2>3. \A a \in c : IsAst(k, a) => IsAst(h, a)
    BY <1>1, <1>5
  <2> QED BY <2>1, <2>2, <2>3 DEF NodesOK
<1> QED BY <1>7, <1>8, <1>9, <1>10, <1>11, <1>12, <1>13 DEF Good

\* A new AST, with the string buffer and the type set it was given or got, in
\* places that were not allocated.
LEMMA CreateAstGood ==
  ASSUME NEW h, NEW c, NEW d, NEW N, Good(h, c, d, N),
         NEW p \in Address, h[p].is = "unallocated",
         NEW strBuf \in Address \cup {Null}, NEW ts \in Address \cup {Null},
         NEW owns \in BOOLEAN,
         strBuf # Null => strBuf # p /\ h[strBuf].is = "unallocated",
         owns /\ ts # Null => ts # p /\ ts # strBuf /\ h[ts].is = "unallocated",
         ~ owns => ts \in c /\ h[ts].is = "types",
         NEW k, But(h, k, {p, strBuf} \cup (IF owns THEN {ts} ELSE {})),
         k[p] = AstObject(strBuf, ts, owns, <<>>),
         NEW sb, StoreInv(sb), strBuf # Null => k[strBuf] = Strings(sb),
         owns /\ ts # Null => k[ts] = Types(<<>>)
  PROVE  Good(k, c \cup {p}, d, N)
<1>1. /\ BlockOK(p, k[p]) /\ k[p].is = "ast" /\ k[p].strBuf = strBuf /\ k[p].ts = ts
      /\ k[p].ownsTypes = owns /\ k[p].nodes = <<>>
  <2>1. <<>> \in Seq(Nodes)
    OBVIOUS
  <2>2. /\ k[p].strBuf = strBuf /\ k[p].ts = ts /\ k[p].ownsTypes = owns
        /\ k[p].nodes = <<>>
    BY DEF AstObject
  <2>3. BlockOK(p, k[p]) /\ k[p].is = "ast"
    BY <2>1, <2>2, AstFacts
  <2> QED BY <2>2, <2>3
<1>2. strBuf # Null => BlockOK(strBuf, k[strBuf]) /\ k[strBuf].is = "strings"
  BY StringsFacts
<1>3. owns /\ ts # Null => BlockOK(ts, k[ts]) /\ k[ts].is = "types"
  BY NoTypesFacts
\* What was there stays as it was.
<1>4. /\ k = [a \in Address |-> k[a]] /\ c \subseteq Address
      /\ \A a \in Address : h[a].is # "unallocated" => k[a] = h[a]
      /\ \A a \in Address : a # p /\ a # strBuf /\ ~ (owns /\ a = ts) => k[a] = h[a]
  <2>1. \A a \in Address : a # p /\ a # strBuf /\ ~ (owns /\ a = ts) => k[a] = h[a]
    BY DEF But
  <2>2. \A a \in Address : h[a].is # "unallocated" =>
          a # p /\ a # strBuf /\ ~ (owns /\ a = ts)
    BY AstAssumption
  <2> QED BY <2>1, <2>2 DEF But, Good, HandsOK
<1>5. \A a \in Address : a # p => (IsAst(k, a) <=> IsAst(h, a))
  BY <1>2, <1>3, <1>4, AstAssumption DEF IsAst
<1>6. \A a \in Address : IsAst(h, a) => k[a] = h[a] /\ a # p
  BY <1>4 DEF IsAst
<1>7. \A a, o \in Address : IsAst(h, a) => (Owns(k, a, o) <=> Owns(h, a, o))
  BY <1>6 DEF Owns
<1>8. \A a, o \in Address : IsAst(h, a) /\ Owns(h, a, o) => h[o].is # "unallocated"
  BY PointerFacts
<1>9. \A o \in Address : Owns(k, p, o) =>
        /\ h[o].is = "unallocated" /\ o # p
        /\ o = strBuf \/ (owns /\ o = ts)
  BY <1>1, AstAssumption DEF Owns
<1>10. \A a \in c \cup d : h[a].is # "unallocated" /\ a \in Address /\ a # p
  BY DEF Good, HandsOK, IsAst
<1>11. IsHeap(k)
  BY <1>1, <1>2, <1>3, <1>4, AstAssumption DEF Good, IsHeap
<1>12. HandsOK(k, c \cup {p}, d)
  BY <1>1, <1>4, <1>5, <1>10 DEF Good, HandsOK, IsAst
<1>13. OwnedOK(k, c \cup {p}, d)
  <2> SUFFICES ASSUME NEW a \in Address, NEW o \in Address, IsAst(k, a), Owns(k, a, o)
               PROVE  /\ o \notin c \cup {p}
                      /\ k[a].strBuf = o =>
                           k[o].is = "strings" \/ (a \in d /\ k[o].is = "destroyed")
                      /\ k[a].ownsTypes /\ k[a].ts = o =>
                           k[o].is = "types" \/ (a \in d /\ k[o].is = "destroyed")
    BY DEF OwnedOK
  <2>1. CASE a = p
    <3>1. o \notin c \cup {p}
      BY <1>9, <1>10, <2>1
    <3>2. k[a].strBuf = o => k[o].is = "strings"
      BY <1>1, <1>2, <2>1, AstAssumption
    <3>3. k[a].ownsTypes /\ k[a].ts = o => k[o].is = "types"
      BY <1>1, <1>3, <2>1, AstAssumption
    <3> QED BY <3>1, <3>2, <3>3
  <2>2. CASE a # p
    <3>1. IsAst(h, a) /\ k[a] = h[a] /\ Owns(h, a, o) /\ k[o] = h[o] /\ o # p
      BY <1>4, <1>5, <1>6, <1>7, <1>8, <2>2
    <3> QED BY <3>1 DEF Good, OwnedOK
  <2> QED BY <2>1, <2>2
<1>14. UniqueOK(k)
  <2> SUFFICES ASSUME NEW a \in Address, NEW b \in Address, NEW o \in Address,
                      IsAst(k, a), Owns(k, a, o), IsAst(k, b), Owns(k, b, o)
               PROVE  a = b
    BY DEF UniqueOK
  <2>1. \A x \in Address : IsAst(k, x) /\ x # p /\ Owns(k, x, o) =>
          IsAst(h, x) /\ Owns(h, x, o) /\ h[o].is # "unallocated"
    BY <1>5, <1>7, <1>8
  <2> QED BY <1>9, <2>1 DEF Good, UniqueOK
<1>15. KeptOK(k, c \cup {p})
  <2> SUFFICES ASSUME NEW o \in Address, k[o].is \in {"strings", "types"}, o \notin c \cup {p}
               PROVE  \E a \in Address : IsAst(k, a) /\ Owns(k, a, o)
    BY DEF KeptOK
  <2>1. CASE o = strBuf \/ (owns /\ o = ts)
    BY <1>1, <2>1 DEF IsAst, Owns
  <2>2. CASE ~ (o = strBuf \/ (owns /\ o = ts))
    <3>1. k[o] = h[o]
      BY <1>4, <2>2
    <3>2. PICK a \in Address : IsAst(h, a) /\ Owns(h, a, o)
      BY <3>1 DEF Good, KeptOK
    <3> QED BY <1>5, <1>6, <1>7, <3>2
  <2> QED BY <2>1, <2>2
<1>16. BorrowedOK(k, c \cup {p})
  <2> SUFFICES ASSUME NEW a \in c \cup {p}, IsAst(k, a), ~ k[a].ownsTypes
               PROVE  k[a].ts \in c \cup {p} /\ k[k[a].ts].is = "types"
    BY DEF BorrowedOK
  <2>1. CASE a = p
    <3>1. ts \in c /\ h[ts].is = "types"
      BY <1>1, <2>1
    <3>2. k[ts] = h[ts]
      BY <1>4, <3>1
    <3> QED BY <1>1, <2>1, <3>1, <3>2
  <2>2. CASE a # p
    <3>1. a \in c /\ IsAst(h, a) /\ k[a] = h[a]
      BY <1>4, <1>5, <1>6, <2>2
    <3>2. h[a].ts \in c /\ h[h[a].ts].is = "types"
      BY <3>1 DEF Good, BorrowedOK
    <3>3. k[h[a].ts] = h[h[a].ts]
      BY <1>4, <3>2
    <3> QED BY <3>1, <3>2, <3>3
  <2> QED BY <2>1, <2>2
<1>17. NodesOK(k, c \cup {p}, N)
  <2> SUFFICES ASSUME NEW a \in c \cup {p}, IsAst(k, a)
               PROVE  \A i \in DOMAIN k[a].nodes : NodeOK(k, a, k[a].nodes[i], i, N)
    BY DEF NodesOK
  <2>1. CASE a = p
    <3>1. DOMAIN k[a].nodes = {}
      BY <1>1, <2>1
    <3> QED BY <3>1
  <2>2. CASE a # p
    <3>1. a \in c /\ IsAst(h, a) /\ k[a] = h[a]
      BY <1>4, <1>5, <1>6, <2>2
    <3>2. h[a].ts # Null => h[a].ts \in Address /\ h[h[a].ts].is = "types"
      BY <3>1, HeldFacts
    <3>3. h[a].ts # Null => k[h[a].ts] = h[h[a].ts]
      BY <1>4, <3>2
    <3> QED BY <3>1, <3>2, <3>3, NodesStay
  <2> QED BY <2>1, <2>2
<1> QED BY <1>11, <1>12, <1>13, <1>14, <1>15, <1>16, <1>17 DEF Good

-----------------------------------------------------------------------------
\* Destroying an AST.

\* Giving up an AST that is held leaves alive what it does not own, and leaves
\* nothing that was only reached through it: S is what changes.
LEMMA OthersKeep ==
  ASSUME NEW h, NEW c, NEW d, NEW N, Good(h, c, d, N), NEW p \in c, IsAst(h, p),
         NEW S, NEW k, But(h, k, S),
         \A o \in S \cap Address : o = p \/ Owns(h, p, o)
  PROVE  /\ \A a \in Address : IsAst(h, a) /\ a # p =>
              /\ k[a] = h[a]
              /\ \A o \in Address : Owns(h, a, o) => k[o] = h[o]
         /\ \A a \in c \ {p} : k[a] = h[a]
         /\ BorrowedOK(k, c \ {p})
         /\ NodesOK(k, c \ {p}, N)
<1>1. /\ c \subseteq Address /\ \A a \in Address : a \notin S => k[a] = h[a]
      /\ p \in Address
  BY DEF But, Good, HandsOK
<1>2. \A o \in Address : Owns(h, p, o) => o \notin c \cup d
  BY <1>1, PointerFacts
<1>3. \A a \in Address : IsAst(h, a) => a \in c \cup d
  BY DEF Good, HandsOK
<1>4. \A a \in c \ {p} : k[a] = h[a]
  BY <1>1, <1>2
<1>5. ASSUME NEW a \in Address, IsAst(h, a), a # p
      PROVE  /\ k[a] = h[a]
             /\ \A o \in Address : Owns(h, a, o) => k[o] = h[o]
  <2>1. k[a] = h[a]
    BY <1>1, <1>2, <1>3, <1>5
  <2>2. ASSUME NEW o \in Address, Owns(h, a, o) PROVE k[o] = h[o]
    <3>1. o # p
      BY <1>5, <2>2, PointerFacts
    <3>2. ~ Owns(h, p, o)
      BY <1>1, <1>5, <2>2 DEF Good, UniqueOK
    <3> QED BY <1>1, <3>1, <3>2
  <2> QED BY <2>1, <2>2
<1>6. BorrowedOK(k, c \ {p})
  <2> SUFFICES ASSUME NEW a \in c \ {p}, IsAst(k, a), ~ k[a].ownsTypes
               PROVE  k[a].ts \in c \ {p} /\ k[k[a].ts].is = "types"
    BY DEF BorrowedOK
  <2>1. k[a] = h[a] /\ IsAst(h, a)
    BY <1>4 DEF IsAst
  <2>2. h[a].ts \in c /\ h[h[a].ts].is = "types"
    BY <2>1 DEF Good, BorrowedOK
  <2>3. h[a].ts # p
    BY <2>2 DEF IsAst
  <2> QED BY <1>4, <2>1, <2>2, <2>3
<1>7. NodesOK(k, c \ {p}, N)
  <2> SUFFICES ASSUME NEW a \in c \ {p}, IsAst(k, a)
               PROVE  \A i \in DOMAIN k[a].nodes : NodeOK(k, a, k[a].nodes[i], i, N)
    BY DEF NodesOK
  <2>1. k[a] = h[a] /\ IsAst(h, a) /\ a \in Address
    BY <1>1, <1>4 DEF IsAst
  <2>2. h[a].ts # Null => h[a].ts \in Address /\ h[h[a].ts].is = "types"
    BY <2>1, HeldFacts
  <2>3. h[a].ts # Null => k[h[a].ts] = h[h[a].ts]
    <3>1. CASE h[a].ownsTypes = TRUE
      BY <1>5, <2>1, <2>2, <3>1 DEF Owns
    <3>2. CASE h[a].ownsTypes # TRUE
      <4>1. h[a].ts \in c /\ h[h[a].ts].is = "types"
        BY <2>1, <3>2 DEF Good, BorrowedOK
      <4>2. h[a].ts # p
        BY <4>1 DEF IsAst
      <4> QED BY <1>4, <4>1, <4>2
    <3> QED BY <3>1, <3>2
  <2> QED BY <2>1, <2>2, <2>3, NodesStay
<1> QED BY <1>4, <1>5, <1>6, <1>7

\* The AST stays in its place, without owner in the hands of callers, and points
\* to the object whose destruction was not completed.
LEMMA StopGood ==
  ASSUME NEW h, NEW c, NEW d, NEW N, Good(h, c, d, N), NEW p \in c, IsAst(h, p),
         NEW S, NEW k, But(h, k, S),
         \A o \in S \cap Address : o = p \/ Owns(h, p, o),
         \A o \in S \cap Address : o # p => k[o] \in {Unallocated, Destroyed},
         BlockOK(p, k[p]), IsAst(k, p), k[p].ts = h[p].ts, k[p].ownsTypes = h[p].ownsTypes,
         \/ k[p].strBuf = h[p].strBuf
         \/ k[p].strBuf = Null /\ h[p].strBuf \in S \cup {Null},
         \A o \in S \cap Address : Owns(k, p, o) => k[o].is = "destroyed"
  PROVE  Good(k, c \ {p}, d \cup {p}, N)
<1>1. /\ \A a \in Address : IsAst(h, a) /\ a # p =>
           /\ k[a] = h[a]
           /\ \A o \in Address : Owns(h, a, o) => k[o] = h[o]
      /\ \A a \in c \ {p} : k[a] = h[a]
      /\ BorrowedOK(k, c \ {p}) /\ NodesOK(k, c \ {p}, N)
  BY OthersKeep
<1>2. /\ k = [a \in Address |-> k[a]] /\ c \subseteq Address /\ d \subseteq Address
      /\ p \in Address /\ p \notin d
      /\ \A a \in Address : a \notin S => k[a] = h[a]
  BY HeldFacts DEF But, Good, HandsOK
<1>3. \A o \in Address : o \in S /\ o # p =>
        BlockOK(o, k[o]) /\ k[o].is \in {"unallocated", "destroyed"}
  BY GoneFacts
<1>4. \A a \in Address : IsAst(k, a) <=> IsAst(h, a)
  <2>1. \A a \in Address : a \in S /\ a # p => ~ IsAst(h, a) /\ ~ IsAst(k, a)
    <3>1. \A o \in Address : Owns(h, p, o) => h[o].is \in {"strings", "types", "destroyed"}
      BY <1>2, PointerFacts
    <3> QED BY <1>3, <3>1 DEF IsAst
  <2> QED BY <1>2, <2>1 DEF IsAst
<1>5. \A a, o \in Address : IsAst(h, a) /\ Owns(k, a, o) => Owns(h, a, o)
  BY <1>1, AstAssumption DEF Owns
<1>6. \A a, o \in Address : IsAst(h, a) /\ Owns(h, a, o) /\ o \notin S => Owns(k, a, o)
  BY <1>1, AstAssumption DEF Owns
<1>7. IsHeap(k)
  BY <1>2, <1>3 DEF Good, IsHeap
<1>8. HandsOK(k, c \ {p}, d \cup {p})
  BY <1>1, <1>2, <1>4 DEF Good, HandsOK
<1>9. OwnedOK(k, c \ {p}, d \cup {p})
  <2> SUFFICES ASSUME NEW a \in Address, NEW o \in Address, IsAst(k, a), Owns(k, a, o)
               PROVE  /\ o \notin c \ {p}
                      /\ k[a].strBuf = o =>
                           k[o].is = "strings" \/ (a \in d \cup {p} /\ k[o].is = "destroyed")
                      /\ k[a].ownsTypes /\ k[a].ts = o =>
                           k[o].is = "types" \/ (a \in d \cup {p} /\ k[o].is = "destroyed")
    BY DEF OwnedOK
  <2>1. IsAst(h, a) /\ Owns(h, a, o)
    BY <1>4, <1>5
  <2>2. /\ o \notin c
        /\ h[a].strBuf = o => h[o].is = "strings" \/ (a \in d /\ h[o].is = "destroyed")
        /\ h[a].ownsTypes /\ h[a].ts = o =>
             h[o].is = "types" \/ (a \in d /\ h[o].is = "destroyed")
    BY <2>1 DEF Good, OwnedOK
  <2>3. CASE a # p
    <3>1. k[a] = h[a] /\ k[o] = h[o]
      BY <1>1, <2>1, <2>3
    <3> QED BY <2>2, <3>1
  <2>4. CASE a = p
    <3>1. CASE o \in S
      <4>1. k[o].is = "destroyed"
        BY <2>4, <3>1
      <4> QED BY <2>2, <2>4, <4>1
    <3>2. CASE o \notin S
      <4>1. k[o] = h[o]
        BY <1>2, <3>2
      <4>2. k[a].strBuf = o => h[a].strBuf = o
        BY <2>4, AstAssumption
      <4> QED BY <1>2, <2>2, <2>4, <4>1, <4>2
    <3> QED BY <3>1, <3>2
  <2> QED BY <2>3, <2>4
<1>10. UniqueOK(k)
  BY <1>4, <1>5 DEF Good, UniqueOK
<1>11. KeptOK(k, c \ {p})
  <2> SUFFICES ASSUME NEW o \in Address, k[o].is \in {"strings", "types"}, o \notin c \ {p}
               PROVE  \E a \in Address : IsAst(k, a) /\ Owns(k, a, o)
    BY DEF KeptOK
  <2>1. o # p
    BY DEF IsAst
  <2>2. o \notin S
    BY <1>3, <2>1
  <2>3. k[o] = h[o]
    BY <1>2, <2>2
  <2>4. PICK a \in Address : IsAst(h, a) /\ Owns(h, a, o)
    BY <2>1, <2>3 DEF Good, KeptOK
  <2> QED BY <1>4, <1>6, <2>2, <2>4
<1> QED BY <1>1, <1>7, <1>8, <1>9, <1>10, <1>11 DEF Good

\* The AST is destroyed, with all that it owns.
LEMMA EndGood ==
  ASSUME NEW h, NEW c, NEW d, NEW N, Good(h, c, d, N), NEW p \in c, IsAst(h, p),
         NEW S, NEW k, But(h, k, S),
         \A o \in Address : o \in S <=> o = p \/ Owns(h, p, o),
         \A o \in S \cap Address : k[o] \in {Unallocated, Destroyed}
  PROVE  Good(k, c \ {p}, d, N)
<1>1. /\ \A a \in Address : IsAst(h, a) /\ a # p =>
           /\ k[a] = h[a]
           /\ \A o \in Address : Owns(h, a, o) => k[o] = h[o]
      /\ \A a \in c \ {p} : k[a] = h[a]
      /\ BorrowedOK(k, c \ {p}) /\ NodesOK(k, c \ {p}, N)
  BY OthersKeep
<1>2. /\ k = [a \in Address |-> k[a]] /\ c \subseteq Address /\ d \subseteq Address
      /\ p \in Address /\ p \notin d
      /\ \A a \in Address : a \notin S => k[a] = h[a]
  BY HeldFacts DEF But, Good, HandsOK
<1>3. \A o \in Address : o \in S =>
        BlockOK(o, k[o]) /\ k[o].is \in {"unallocated", "destroyed"}
  BY GoneFacts
<1>4. \A a \in Address : IsAst(k, a) <=> IsAst(h, a) /\ a # p
  <2>1. \A a \in Address : a \in S => ~ IsAst(k, a)
    BY <1>3 DEF IsAst
  <2>2. \A a \in Address : a \in S /\ a # p => ~ IsAst(h, a)
    <3>1. \A o \in Address : Owns(h, p, o) => h[o].is \in {"strings", "types", "destroyed"}
      BY <1>2, PointerFacts
    <3> QED BY <3>1 DEF IsAst
  <2>3. p \in S
    BY <1>2
  <2> QED BY <1>2, <2>1, <2>2, <2>3 DEF IsAst
<1>5. \A a, o \in Address : IsAst(h, a) /\ a # p => (Owns(k, a, o) <=> Owns(h, a, o))
  BY <1>1 DEF Owns
<1>6. IsHeap(k)
  BY <1>2, <1>3 DEF Good, IsHeap
<1>7. HandsOK(k, c \ {p}, d)
  <2>1. \A a \in d : IsAst(h, a)
    BY DEF Good, HandsOK
  <2> QED BY <1>1, <1>2, <1>4, <2>1 DEF Good, HandsOK
<1>8. OwnedOK(k, c \ {p}, d)
  <2> SUFFICES ASSUME NEW a \in Address, NEW o \in Address, IsAst(k, a), Owns(k, a, o)
               PROVE  /\ o \notin c \ {p}
                      /\ k[a].strBuf = o =>
                           k[o].is = "strings" \/ (a \in d /\ k[o].is = "destroyed")
                      /\ k[a].ownsTypes /\ k[a].ts = o =>
                           k[o].is = "types" \/ (a \in d /\ k[o].is = "destroyed")
    BY DEF OwnedOK
  <2>1. IsAst(h, a) /\ a # p /\ Owns(h, a, o)
    BY <1>4, <1>5
  <2>2. k[a] = h[a] /\ k[o] = h[o]
    BY <1>1, <2>1
  <2> QED BY <2>1, <2>2 DEF Good, OwnedOK
<1>9. UniqueOK(k)
  BY <1>4, <1>5 DEF Good, UniqueOK
<1>10. KeptOK(k, c \ {p})
  <2> SUFFICES ASSUME NEW o \in Address, k[o].is \in {"strings", "types"}, o \notin c \ {p}
               PROVE  \E a \in Address : IsAst(k, a) /\ Owns(k, a, o)
    BY DEF KeptOK
  <2>1. o \notin S
    BY <1>3
  <2>2. k[o] = h[o] /\ o # p /\ ~ Owns(h, p, o)
    BY <1>2, <2>1
  <2>3. PICK a \in Address : IsAst(h, a) /\ Owns(h, a, o)
    BY <2>2 DEF Good, KeptOK
  <2> QED BY <1>4, <1>5, <2>2, <2>3
<1> QED BY <1>1, <1>6, <1>7, <1>8, <1>9, <1>10 DEF Good

-----------------------------------------------------------------------------
\* Types.

LEMMA BasicFacts ==
  ASSUME NEW type \in BasicTypes
  PROVE  ~ IsDerived(type) /\ type.numBits \in Nat
<1>1. type \in BasicType
  BY AstAssumption
<1>2. \A kind, format : \A n \in Nat :
        /\ ~ IsDerived(Basic(kind, format, n))
        /\ Basic(kind, format, n).numBits = n
  BY DEF IsDerived, Basic
<1>3. \A f \in IntFormat : \A n \in 1 .. MaxIntBits : qcTypeInt(f, n) = Basic("int", f, n)
  BY DEF qcTypeInt
<1>4. \A n \in {32, 64} : qcTypeFloat("QC_FLOAT_IEEE754", n) =
                            Basic("float", "QC_FLOAT_IEEE754", n)
  BY DEF qcTypeFloat
<1>5. \A e \in Encoding : qcTypeString(e) = Basic("string", e, PtrBits)
  BY DEF qcTypeString
<1>6. \E kind, format : \E n \in Nat : type = Basic(kind, format, n)
  <2>1. CASE type \in {qcTypeMeta, qcTypeVoid, qcTypeBool}
    BY <2>1, TypeSetAssumption DEF qcTypeMeta, qcTypeVoid, qcTypeBool
  <2>2. CASE type \in {qcTypeInt(f, n) : f \in IntFormat, n \in 1 .. MaxIntBits}
    BY <1>3, <2>2, TypeSetAssumption
  <2>3. CASE type \in {qcTypeFloat("QC_FLOAT_IEEE754", n) : n \in {32, 64}}
    BY <1>4, <2>3
  <2>4. CASE type \in {qcTypeString(e) : e \in Encoding}
    BY <1>5, <2>4, TypeSetAssumption
  <2> QED BY <1>1, <2>1, <2>2, <2>3, <2>4 DEF BasicType
<1> QED BY <1>2, <1>6

\* A type that can be an element: a basic one, or one of the type set at ts.
IsElem(ts, entries, type) ==
  type \in BasicTypes \/ \E p \in DOMAIN entries : type = DerivedAt(ts, p)

LEMMA ElemFacts ==
  ASSUME NEW ts \in Address, NEW entries \in Seq(Entries), NEW type,
         IsElem(ts, entries, type)
  PROVE  /\ type \in TypeRef
         /\ NumBits(entries, type) \in Nat
         /\ \/ type \in BasicTypes /\ ~ IsDerived(type)
            \/ /\ IsDerived(type) /\ type = DerivedAt(ts, type.place)
               /\ type.set = ts /\ type.place \in DOMAIN entries
<1>1. CASE type \in BasicTypes
  BY <1>1, BasicFacts DEF TypeRef, NumBits
<1>2. CASE type \notin BasicTypes
  <2>1. PICK i \in DOMAIN entries : type = DerivedAt(ts, i)
    BY <1>2 DEF IsElem
  <2>2. i \in Nat \ {0} /\ entries[i] \in Entries
    OBVIOUS
  <2>3. IsDerived(type) /\ type.set = ts /\ type.place = i
    BY <2>1 DEF IsDerived, DerivedAt
  <2>4. type \in TypeRef
    BY <2>1, <2>2 DEF TypeRef, DerivedAt
  <2>5. entries[i].numBits \in Nat
    BY <2>2, TypeSetAssumption DEF Entries
  <2> QED BY <2>1, <2>3, <2>4, <2>5 DEF NumBits
<1> QED BY <1>1, <1>2

\* Emplacing the type again finds it.
FoundAgain(res, kind, elem, n) ==
  \A bits : TryEmplaceType(res.entries, kind, elem, n, bits) = res

\* Emplacing a type in one of the maps adds at most one entry, and moves none.
LEMMA TryEmplaceTypeFacts ==
  ASSUME NEW ts \in Address, NEW entries \in Seq(Entries), EntriesOK(ts, entries),
         NEW kind \in {"ptr", "array", "vector"}, NEW elem, IsElem(ts, entries, elem),
         NEW n \in Nat, NEW numBits \in 0 .. SizeMod - 1,
         numBits = IF kind = "ptr" THEN PtrBits
                   ELSE (NumBits(entries, elem) * n) % SizeMod,
         NEW res, res = TryEmplaceType(entries, kind, elem, n, numBits)
  PROVE  /\ res.entries \in Seq(Entries) /\ EntriesOK(ts, res.entries)
         /\ DOMAIN entries \subseteq DOMAIN res.entries
         /\ res.place \in DOMAIN res.entries
         /\ res.entries[res.place].kind = kind
         /\ res.entries[res.place].elem = elem
         /\ res.entries[res.place].n = n
         /\ FoundAgain(res, kind, elem, n)
<1>1. elem \in TypeRef
  BY ElemFacts
<1>2. CASE Found(entries, kind, elem, n) # {}
  <2> DEFINE found == Found(entries, kind, elem, n)
  <2>1. res = [entries |-> entries, place |-> CHOOSE i \in found : TRUE]
    BY <1>2 DEF TryEmplaceType
  <2>2. res.entries = entries /\ res.place = CHOOSE i \in found : TRUE
    BY <2>1
  <2>3. (CHOOSE i \in found : TRUE) \in found
    BY <1>2
  <2>4. \A bits : TryEmplaceType(entries, kind, elem, n, bits) = res
    BY <1>2, <2>1 DEF TryEmplaceType
  <2> QED BY <2>2, <2>3, <2>4 DEF Found, FoundAgain
<1>3. CASE Found(entries, kind, elem, n) = {}
  <2> DEFINE entry == Entry(kind, elem, n, numBits)
             all   == Append(entries, entry)
             last  == Len(entries) + 1
  <2>1. entry \in Entries
    BY <1>1 DEF Entry, Entries
  <2>2. entry.kind = kind /\ entry.elem = elem /\ entry.n = n /\ entry.numBits = numBits
    BY DEF Entry
  <2>3. res = [entries |-> all, place |-> last]
    BY <1>3 DEF TryEmplaceType
  <2>4. res.entries = all /\ res.place = last
    BY <2>3
  <2> HIDE DEF entry
  <2>5. /\ all \in Seq(Entries) /\ DOMAIN all = DOMAIN entries \cup {last}
        /\ \A i \in DOMAIN entries : all[i] = entries[i] /\ i < last
        /\ all[last] = entry /\ last \notin DOMAIN entries
        /\ DOMAIN entries \subseteq Nat
    BY <2>1
  <2> HIDE DEF all, last
  <2>6. \A type : IsElem(ts, entries, type) => NumBits(all, type) = NumBits(entries, type)
    BY <2>5, ElemFacts DEF NumBits
  <2>7. Found(all, kind, elem, n) = {last}
    BY <1>3, <2>2, <2>5 DEF Found
  <2>8. \A bits : TryEmplaceType(all, kind, elem, n, bits) = res
    BY <2>3, <2>7 DEF TryEmplaceType
  <2>9. EntriesOK(ts, all)
    <3>1. ASSUME NEW i \in DOMAIN all
          PROVE  /\ \/ all[i].elem \in BasicTypes
                    \/ \E p \in DOMAIN all : p < i /\ all[i].elem = DerivedAt(ts, p)
                 /\ all[i].numBits =
                      IF all[i].kind = "ptr" THEN PtrBits
                      ELSE (NumBits(all, all[i].elem) * all[i].n) % SizeMod
      <4>1. CASE i \in DOMAIN entries
        <5>1. /\ \/ entries[i].elem \in BasicTypes
                 \/ \E p \in DOMAIN entries : p < i /\ entries[i].elem = DerivedAt(ts, p)
              /\ entries[i].numBits =
                   IF entries[i].kind = "ptr" THEN PtrBits
                   ELSE (NumBits(entries, entries[i].elem) * entries[i].n) % SizeMod
          BY <4>1 DEF EntriesOK
        <5>2. IsElem(ts, entries, entries[i].elem)
          BY <5>1 DEF IsElem
        <5>3. all[i] = entries[i]
          BY <2>5, <4>1
        <5>4. NumBits(all, all[i].elem) = NumBits(entries, entries[i].elem)
          BY <2>6, <5>2, <5>3
        <5>5. \/ all[i].elem \in BasicTypes
              \/ \E p \in DOMAIN all : p < i /\ all[i].elem = DerivedAt(ts, p)
          BY <2>5, <5>1, <5>3
        <5> QED BY <5>1, <5>3, <5>4, <5>5
      <4>2. CASE i = last
        <5>1. NumBits(all, elem) = NumBits(entries, elem)
          BY <2>6
        <5>2. all[i] = entry
          BY <2>5, <4>2
        <5>3. elem \in BasicTypes \/ \E p \in DOMAIN all : p < last /\ elem = DerivedAt(ts, p)
          BY <2>5 DEF IsElem
        <5> QED BY <2>2, <4>2, <5>1, <5>2, <5>3
      <4> QED BY <2>5, <4>1, <4>2
    <3>2. ASSUME NEW i \in DOMAIN all, NEW j \in DOMAIN all,
                 all[i].kind = all[j].kind, all[i].elem = all[j].elem, all[i].n = all[j].n
          PROVE  i = j
      <4>1. \A x \in DOMAIN entries :
              ~ (all[x].kind = kind /\ all[x].elem = elem /\ all[x].n = n)
        BY <1>3, <2>5 DEF Found
      <4> QED BY <2>2, <2>5, <3>2, <4>1 DEF EntriesOK
    <3> QED BY <3>1, <3>2 DEF EntriesOK
  <2>10. all[last].kind = kind /\ all[last].elem = elem /\ all[last].n = n
    BY <2>2, <2>5
  <2> QED BY <2>4, <2>5, <2>8, <2>9, <2>10 DEF FoundAgain
<1> QED BY <1>2, <1>3

\* The types callers have are types, and have sizes.
LEMMA TypesOfFacts ==
  ASSUME Inv, NEW ts \in Address, heap[ts].is = "types"
  PROVE  /\ heap[ts].entries \in Seq(Entries) /\ EntriesOK(ts, heap[ts].entries)
         /\ \A type \in TypesOf(ts) :
              /\ IsElem(ts, heap[ts].entries, type)
              /\ type \in TypeRef
              /\ NumBits(heap[ts].entries, type) \in Nat
              /\ TypeAt(heap, ts, type)
<1>1. heap[ts].entries \in Seq(Entries) /\ EntriesOK(ts, heap[ts].entries)
  BY BlockFacts DEF Inv, Good, IsHeap, BlockOK
<1>2. ASSUME NEW type \in TypesOf(ts)
      PROVE  /\ IsElem(ts, heap[ts].entries, type)
             /\ type \in TypeRef
             /\ NumBits(heap[ts].entries, type) \in Nat
             /\ TypeAt(heap, ts, type)
  <2>1. IsElem(ts, heap[ts].entries, type)
    BY DEF TypesOf, IsElem
  <2> QED BY <1>1, <2>1, ElemFacts DEF TypeAt
<1> QED BY <1>1, <1>2

LEMMA ArrayBits ==
  ASSUME NEW bits \in Nat, NEW n \in Nat
  PROVE  (bits * n) % SizeMod \in 0 .. SizeMod - 1
<1>1. bits * n \in Nat
  OBVIOUS
<1>2. SizeMod \in Nat /\ SizeMod > 0
  BY TypeSetAssumption
<1>3. \A m \in Nat : m % SizeMod \in 0 .. SizeMod - 1
  BY <1>2
<1> QED BY <1>1, <1>3

-----------------------------------------------------------------------------
\* What the steps do to the heap.

LEMMA HeapFacts ==
  ASSUME Inv
  PROVE  /\ heap = [a \in Address |-> heap[a]]
         /\ \A a \in Address : BlockOK(a, heap[a])
         /\ held \subseteq Address /\ dropped \subseteq Address
         /\ \A a \in TypeSets : a \in Address /\ a \in held /\ heap[a].is = "types"
         /\ \A a \in Asts : a \in Address /\ a \in held /\ IsAst(heap, a)
         /\ \A a \in Unused : a \in Address /\ heap[a].is = "unallocated"
  BY DEF Inv, Good, IsHeap, HandsOK, TypeSets, Asts, Unused, At, IsAst

\* A step that frees no text.
LEMMA InvSame ==
  ASSUME Inv, UNCHANGED nameVars, Good(heap', held', dropped', Viewable)
  PROVE  Inv'
  BY DEF Inv, Viewable, TextsOK, nameVars

LEMMA ExceptFacts ==
  ASSUME NEW h, h = [a \in Address |-> h[a]], NEW p \in Address, NEW x,
         NEW k, k = [h EXCEPT ![p] = x]
  PROVE  /\ But(h, k, {p}) /\ k[p] = x
         /\ k = [a \in Address |-> IF a = p THEN x ELSE h[a]]
  BY DEF But

LEMMA PlacedFacts ==
  ASSUME NEW h, h = [a \in Address |-> h[a]], NEW p \in Address \cup {Null}, NEW x
  PROVE  Placed(h, p, x) = [a \in Address |-> IF a = p THEN x ELSE h[a]]
<1>1. CASE p = Null
  <2>1. Placed(h, p, x) = h
    BY <1>1 DEF Placed
  <2>2. \A a \in Address : a # p
    BY <1>1, AstAssumption
  <2> QED BY <2>1, <2>2
<1>2. CASE p # Null
  <2>1. Placed(h, p, x) = [h EXCEPT ![p] = x] /\ p \in Address
    BY <1>2 DEF Placed
  <2> QED BY <2>1, ExceptFacts
<1> QED BY <1>1, <1>2

LEMMA InvCreateTypes ==
  ASSUME Inv, qcCreateTypeSetA
  PROVE  Inv'
<1>1. PICK p \in Unused :
        /\ heap' = [heap EXCEPT ![p] = Types(<<>>)]
        /\ held' = held \cup {p} /\ UNCHANGED <<dropped, nameVars>>
  BY DEF qcCreateTypeSetA
<1>2. p \in Address /\ heap[p].is = "unallocated" /\ heap = [a \in Address |-> heap[a]]
  BY HeapFacts
<1>3. But(heap, heap', {p}) /\ heap'[p] = Types(<<>>)
  BY <1>1, <1>2, ExceptFacts
<1>4. Good(heap', held \cup {p}, dropped, Viewable)
  BY <1>2, <1>3, CreateTypesGood DEF Inv
<1> QED BY <1>1, <1>4, InvSame

LEMMA InvDestroyTypes ==
  ASSUME Inv, NEW ts \in TypeSets, NEW accepted \in BOOLEAN, qcDestroyTypeSet(ts, accepted)
  PROVE  Inv'
<1>1. /\ Borrowers(ts) = {} /\ heap' = [heap EXCEPT ![ts] = Freed(accepted)]
      /\ held' = held \ {ts} /\ UNCHANGED <<dropped, nameVars>>
  BY DEF qcDestroyTypeSet
<1>2. ts \in Address /\ ts \in held /\ heap[ts].is = "types" /\ heap = [a \in Address |-> heap[a]]
  BY HeapFacts
<1>3. But(heap, heap', {ts}) /\ heap'[ts] = Freed(accepted)
  BY <1>1, <1>2, ExceptFacts
<1>4. \A a \in held : IsAst(heap, a) => heap[a].ts # ts
  BY <1>1, HeapFacts DEF Borrowers, Asts, At, IsAst
<1>5. heap'[ts] \in {Unallocated, Destroyed}
  BY <1>3 DEF Freed
<1>6. Good(heap', held \ {ts}, dropped, Viewable)
  BY <1>2, <1>3, <1>4, <1>5, DestroyTypesGood DEF Inv
<1> QED BY <1>1, <1>6, InvSame

LEMMA InvDerive ==
  ASSUME Inv, NEW ts \in TypeSets, NEW res, Derive(ts, res),
         res.entries \in Seq(Entries), EntriesOK(ts, res.entries),
         DOMAIN heap[ts].entries \subseteq DOMAIN res.entries
  PROVE  Inv'
<1>1. /\ heap' = [heap EXCEPT ![ts].entries = res.entries] /\ UNCHANGED <<held, dropped, nameVars>>
  BY DEF Derive
<1>2. /\ ts \in Address /\ ts \in held /\ heap[ts].is = "types"
      /\ heap = [a \in Address |-> heap[a]] /\ heap[ts] = Types(heap[ts].entries)
  BY HeapFacts, BlockFacts DEF BlockOK
<1>3. heap' = [heap EXCEPT ![ts] = Types(res.entries)]
  <2>1. [Types(heap[ts].entries) EXCEPT !.entries = res.entries] = Types(res.entries)
    BY DEF Types
  <2>2. heap' = [heap EXCEPT ![ts] = [heap[ts] EXCEPT !.entries = res.entries]]
    BY <1>1
  <2> QED BY <1>2, <2>1, <2>2
<1>4. But(heap, heap', {ts}) /\ heap'[ts] = Types(res.entries)
  BY <1>2, <1>3, ExceptFacts
<1>5. BlockOK(ts, heap'[ts]) /\ heap'[ts].is = "types" /\ heap'[ts].entries = res.entries
  BY <1>4, TypesFacts
<1>6. Good(heap', held, dropped, Viewable)
  BY <1>2, <1>4, <1>5, InPlaceGood DEF Inv
<1> QED BY <1>1, <1>6, InvSame

\* What the three functions that derive a type return.
LEMMA DerivedFacts ==
  ASSUME NEW ts \in Address, NEW entries \in Seq(Entries), EntriesOK(ts, entries),
         NEW type, IsElem(ts, entries, type), NEW n \in Nat,
         NEW res, res \in {qcTypePtr(entries, type), qcTypeArray(entries, type, n),
                          qcTypeVector(entries, type, n)}
  PROVE  /\ res.entries \in Seq(Entries) /\ EntriesOK(ts, res.entries)
         /\ DOMAIN entries \subseteq DOMAIN res.entries
         /\ res = qcTypeArray(entries, type, n) =>
              /\ res.entries[res.place].kind = "array"
              /\ res.entries[res.place].elem = type
              /\ res.entries[res.place].n = n
              /\ qcTypeArray(res.entries, type, n) = res
<1> DEFINE bits == (NumBits(entries, type) * n) % SizeMod
<1>1. bits \in 0 .. SizeMod - 1 /\ PtrBits \in 0 .. SizeMod - 1
  BY ElemFacts, ArrayBits, TypeSetAssumption
<1>2. /\ qcTypePtr(entries, type) = TryEmplaceType(entries, "ptr", type, 0, PtrBits)
      /\ qcTypeArray(entries, type, n) = TryEmplaceType(entries, "array", type, n, bits)
      /\ qcTypeVector(entries, type, n) = TryEmplaceType(entries, "vector", type, n, bits)
  BY DEF qcTypePtr, qcTypeArray, qcTypeVector
<1>3. \A e : \E b : qcTypeArray(e, type, n) = TryEmplaceType(e, "array", type, n, b)
  BY DEF qcTypeArray
<1>4. bits = (NumBits(entries, type) * n) % SizeMod
  OBVIOUS
<1> HIDE DEF bits
<1>5. CASE res = qcTypeArray(entries, type, n)
  <2> DEFINE kind == "array"
  <2>1. /\ res = TryEmplaceType(entries, kind, type, n, bits)
        /\ bits = IF kind = "ptr" THEN PtrBits ELSE (NumBits(entries, type) * n) % SizeMod
    BY <1>2, <1>4, <1>5
  <2>2. kind \in {"ptr", "array", "vector"} /\ kind = "array"
    OBVIOUS
  <2> HIDE DEF kind
  <2>3. /\ res.entries \in Seq(Entries) /\ EntriesOK(ts, res.entries)
        /\ DOMAIN entries \subseteq DOMAIN res.entries
        /\ res.entries[res.place].kind = kind
        /\ res.entries[res.place].elem = type
        /\ res.entries[res.place].n = n
        /\ FoundAgain(res, kind, type, n)
    BY <1>1, <2>1, <2>2, TryEmplaceTypeFacts
  <2>4. qcTypeArray(res.entries, type, n) = res
    BY <1>3, <2>2, <2>3 DEF FoundAgain
  <2> QED BY <2>2, <2>3, <2>4
<1>6. CASE res = qcTypePtr(entries, type) /\ res # qcTypeArray(entries, type, n)
  BY <1>1, <1>2, <1>6, TryEmplaceTypeFacts
<1>7. CASE res = qcTypeVector(entries, type, n) /\ res # qcTypeArray(entries, type, n)
  BY <1>1, <1>2, <1>4, <1>7, TryEmplaceTypeFacts
<1> QED BY <1>5, <1>6, <1>7

LEMMA InvDerives ==
  ASSUME Inv, NEW ts \in TypeSets, NEW type \in TypesOf(ts),
         DerivePtr(ts, type)
           \/ \E n \in Lengths : DeriveArray(ts, type, n) \/ DeriveVector(ts, type, n)
  PROVE  Inv'
<1> DEFINE entries == heap[ts].entries
<1>1. PICK n \in Nat :
        \E res \in {qcTypePtr(entries, type), qcTypeArray(entries, type, n),
                   qcTypeVector(entries, type, n)} : Derive(ts, res)
  <2>1. 0 \in Nat /\ Lengths \subseteq Nat
    BY AstAssumption
  <2> QED BY <2>1 DEF DerivePtr, DeriveArray, DeriveVector
<1>2. PICK res \in {qcTypePtr(entries, type), qcTypeArray(entries, type, n),
                  qcTypeVector(entries, type, n)} : Derive(ts, res)
  BY <1>1
<1>3. /\ ts \in Address /\ entries \in Seq(Entries) /\ EntriesOK(ts, entries)
      /\ IsElem(ts, entries, type)
  BY HeapFacts, TypesOfFacts
<1>4. /\ res.entries \in Seq(Entries) /\ EntriesOK(ts, res.entries)
      /\ DOMAIN entries \subseteq DOMAIN res.entries
  BY <1>3, <1>2, DerivedFacts
<1> QED BY <1>4, <1>2, InvDerive

LEMMA InvCreateAst ==
  ASSUME Inv, NEW ts \in TypeSets \cup {Null}, qcCreateAstA(ts)
  PROVE  Inv'
<1>1. PICK p, strBuf, own :
        /\ p \in Unused /\ strBuf \in Allocated({p})
        /\ own \in IF ts # Null THEN {ts} ELSE Allocated({p, strBuf})
        /\ heap' = Placed(Placed(
                     [heap EXCEPT ![p] = AstObject(strBuf, own, OwnsTypes(ts), <<>>)],
                     strBuf, Strings(qcCreateStringBuffer)),
                     IF ts = Null THEN own ELSE Null, Types(<<>>))
        /\ held' = held \cup {p} /\ UNCHANGED <<dropped, nameVars>>
  BY DEF qcCreateAstA
<1> DEFINE owns == OwnsTypes(ts)
           ast  == AstObject(strBuf, own, owns, <<>>)
           sb   == qcCreateStringBuffer
           new  == IF ts = Null THEN own ELSE Null
<1>2. /\ p \in Address /\ heap[p].is = "unallocated"
      /\ heap = [a \in Address |-> heap[a]]
      /\ strBuf \in Address \cup {Null}
      /\ strBuf # Null => strBuf # p /\ heap[strBuf].is = "unallocated"
  BY <1>1, HeapFacts DEF Allocated
<1>3. owns \in BOOLEAN /\ (owns <=> ts = Null)
  BY DEF OwnsTypes
<1>4. /\ own \in Address \cup {Null}
      /\ owns /\ own # Null => own # p /\ own # strBuf /\ heap[own].is = "unallocated"
      /\ ~ owns => own \in held /\ heap[own].is = "types"
  <2>1. CASE ts = Null
    <3>1. own \in Allocated({p, strBuf})
      BY <1>1, <2>1
    <3> QED BY <1>3, <2>1, <3>1, HeapFacts DEF Allocated
  <2>2. CASE ts # Null
    BY <1>1, <1>3, <2>2, HeapFacts
  <2> QED BY <2>1, <2>2
<1>5. new \in Address \cup {Null} /\ (new # Null <=> owns /\ own # Null) /\ new \in {own, Null}
  BY <1>3, <1>4
<1>6. heap' = [a \in Address |->
                 IF a = new THEN Types(<<>>)
                 ELSE IF a = strBuf THEN Strings(sb)
                 ELSE IF a = p THEN ast ELSE heap[a]]
  <2> DEFINE h1 == [heap EXCEPT ![p] = ast]
             h2 == Placed(h1, strBuf, Strings(sb))
  <2>1. h1 = [a \in Address |-> IF a = p THEN ast ELSE heap[a]]
    BY <1>2, ExceptFacts
  <2>2. heap' = Placed(h2, new, Types(<<>>))
    BY <1>1
  <2> HIDE DEF h1, ast, new, sb
  <2>3. h1 = [a \in Address |-> h1[a]]
    BY <2>1
  <2>4. h2 = [a \in Address |-> IF a = strBuf THEN Strings(sb) ELSE h1[a]]
    BY <1>2, <2>3, PlacedFacts
  <2> HIDE DEF h2
  <2>5. h2 = [a \in Address |-> h2[a]]
    BY <2>4
  <2>6. heap' = [a \in Address |-> IF a = new THEN Types(<<>>) ELSE h2[a]]
    BY <1>5, <2>2, <2>5, PlacedFacts
  <2> QED BY <2>1, <2>4, <2>6
<1>7. StoreInv(sb)
  BY StoreCreate
<1> HIDE DEF owns, ast, sb, new
<1>8. But(heap, heap', {p, strBuf} \cup (IF owns THEN {own} ELSE {}))
  <2>1. \A a \in Address : a \notin {p, strBuf} \cup (IF owns THEN {own} ELSE {}) =>
          a # new /\ a # strBuf /\ a # p
    BY <1>5, AstAssumption
  <2> QED BY <1>6, <2>1 DEF But
<1>9. /\ heap'[p] = ast
      /\ strBuf # Null => heap'[strBuf] = Strings(sb)
      /\ owns /\ own # Null => heap'[own] = Types(<<>>)
  <2>1. heap'[p] = ast
    BY <1>2, <1>4, <1>5, <1>6, AstAssumption
  <2>2. ASSUME strBuf # Null PROVE heap'[strBuf] = Strings(sb)
    <3>1. strBuf \in Address /\ strBuf # new
      BY <1>2, <1>4, <1>5, <2>2
    <3> QED BY <1>6, <3>1
  <2>3. ASSUME owns, own # Null PROVE heap'[own] = Types(<<>>)
    <3>1. own \in Address /\ own = new
      BY <1>4, <1>5, <2>3
    <3> QED BY <1>6, <3>1
  <2> QED BY <2>1, <2>2, <2>3
<1>10. heap'[p] = AstObject(strBuf, own, owns, <<>>)
  BY <1>9 DEF ast
<1>11. Good(heap', held \cup {p}, dropped, Viewable)
  BY <1>2, <1>3, <1>4, <1>7, <1>8, <1>9, <1>10, CreateAstGood DEF Inv
<1> QED BY <1>1, <1>11, InvSame

LEMMA InvStopsAtBuffer ==
  ASSUME Inv, NEW a \in Asts, DestroyStopsAtBuffer(a)
  PROVE  Inv'
<1> DEFINE o == heap[a].strBuf
<1>1. /\ o # Null /\ heap' = [heap EXCEPT ![o] = Destroyed]
      /\ held' = held \ {a} /\ dropped' = dropped \cup {a} /\ UNCHANGED nameVars
  BY DEF DestroyStopsAtBuffer, BufferOf
<1>2. a \in held /\ a \in Address /\ IsAst(heap, a) /\ heap = [b \in Address |-> heap[b]]
  BY HeapFacts
<1>3. o \in Address /\ heap[o].is = "strings" /\ o # a /\ Owns(heap, a, o)
  BY <1>1, <1>2, HeldFacts DEF Inv, IsAst, Owns
<1>4. But(heap, heap', {o}) /\ heap'[o] = Destroyed
  BY <1>1, <1>2, <1>3, ExceptFacts
<1>5. heap'[a] = heap[a] /\ BlockOK(a, heap'[a]) /\ IsAst(heap', a)
  BY <1>2, <1>3, <1>4, HeapFacts DEF But, IsAst
<1>6. Destroyed.is = "destroyed"
  BY DEF Destroyed
<1> HIDE DEF o
<1>7. Good(heap', held \ {a}, dropped \cup {a}, Viewable)
  BY <1>2, <1>3, <1>4, <1>5, <1>6, StopGood DEF Inv
<1> QED BY <1>1, <1>7, InvSame

LEMMA InvStopsAtTypes ==
  ASSUME Inv, NEW a \in Asts, DestroyStopsAtTypes(a)
  PROVE  Inv'
<1> DEFINE o   == heap[a].strBuf
           ts  == heap[a].ts
           ast == AstObject(Null, ts, heap[a].ownsTypes, heap[a].nodes)
<1>1. /\ OwnedTypes(a) # Null
      /\ heap' = [Placed(heap, o, Unallocated)
                    EXCEPT ![OwnedTypes(a)] = Destroyed, ![a].strBuf = Null]
      /\ held' = held \ {a} /\ dropped' = dropped \cup {a} /\ UNCHANGED nameVars
  BY DEF DestroyStopsAtTypes, BufferOf
<1>2. a \in held /\ a \in Address /\ IsAst(heap, a) /\ heap = [b \in Address |-> heap[b]]
  BY HeapFacts
<1>3. heap[a].ownsTypes /\ OwnedTypes(a) = ts /\ ts # Null
  BY <1>1 DEF OwnedTypes
<1>4. /\ heap[a] = AstObject(o, ts, heap[a].ownsTypes, heap[a].nodes)
      /\ o \in Address \cup {Null} /\ heap[a].ownsTypes \in BOOLEAN
      /\ heap[a].nodes \in Seq(Nodes)
  BY <1>2, PointerFacts DEF Inv
<1>5. /\ ts \in Address /\ ts # a /\ heap[ts].is = "types"
      /\ o # Null => o \in Address /\ o # a /\ heap[o].is = "strings"
      /\ o # ts
  BY <1>2, <1>3, HeldFacts DEF Inv, IsAst
<1>6. heap' = [b \in Address |-> IF b = a THEN ast
                                 ELSE IF b = ts THEN Destroyed
                                 ELSE IF b = o THEN Unallocated ELSE heap[b]]
  <2> DEFINE h1 == Placed(heap, o, Unallocated)
  <2>1. h1 = [b \in Address |-> IF b = o THEN Unallocated ELSE heap[b]]
    BY <1>2, <1>4, PlacedFacts
  <2>2. heap' = [h1 EXCEPT ![ts] = Destroyed, ![a].strBuf = Null]
    BY <1>1, <1>3
  <2> HIDE DEF h1
  <2>3. h1[a] = heap[a]
    BY <1>2, <1>5, <2>1, AstAssumption
  <2>4. [heap[a] EXCEPT !.strBuf = Null] = ast
    <3>1. \A x, t, w, n : [AstObject(x, t, w, n) EXCEPT !.strBuf = Null] =
                            AstObject(Null, t, w, n)
      BY DEF AstObject
    <3> QED BY <1>4, <3>1
  <2> HIDE DEF ast, ts, o
  <2>5. heap' = [b \in Address |-> IF b = a THEN [h1[a] EXCEPT !.strBuf = Null]
                                   ELSE IF b = ts THEN Destroyed ELSE h1[b]]
    BY <1>2, <1>5, <2>1, <2>2
  <2> QED BY <2>1, <2>3, <2>4, <2>5
<1> DEFINE S == {a, ts, o}
<1>7. But(heap, heap', S)
  BY <1>6 DEF But
<1>8. heap'[a] = ast
  BY <1>2, <1>6
<1>9. /\ heap'[a].strBuf = Null /\ heap'[a].ts = ts
      /\ heap'[a].ownsTypes = heap[a].ownsTypes /\ heap'[a].nodes = heap[a].nodes
      /\ heap'[a] = AstObject(heap'[a].strBuf, heap'[a].ts, heap'[a].ownsTypes, heap'[a].nodes)
  BY <1>8 DEF AstObject
<1>10. BlockOK(a, heap'[a]) /\ IsAst(heap', a)
  BY <1>4, <1>5, <1>9, AstFacts DEF IsAst
<1>11. \A b \in S \cap Address : b = a \/ Owns(heap, a, b)
  BY <1>3 DEF Owns
<1>12. \A b \in S \cap Address : b # a => heap'[b] \in {Unallocated, Destroyed}
  BY <1>6
<1>13. \A b \in S \cap Address : Owns(heap', a, b) => heap'[b].is = "destroyed"
  <2>1. heap'[ts] = Destroyed
    BY <1>5, <1>6
  <2>2. \A b \in Address : Owns(heap', a, b) => b = ts
    BY <1>9, AstAssumption DEF Owns
  <2> QED BY <2>1, <2>2 DEF Destroyed
<1>14. Good(heap', held \ {a}, dropped \cup {a}, Viewable)
  <2>1. heap'[a].strBuf = Null /\ heap[a].strBuf \in S \cup {Null}
    BY <1>9
  <2>2. heap'[a].ts = heap[a].ts /\ heap'[a].ownsTypes = heap[a].ownsTypes
    BY <1>9
  <2> HIDE DEF S
  <2> QED BY <1>2, <1>7, <1>10, <1>11, <1>12, <1>13, <2>1, <2>2, StopGood DEF Inv
<1> QED BY <1>1, <1>14, InvSame

LEMMA InvToTheEnd ==
  ASSUME Inv, NEW a \in Asts, NEW accepted \in BOOLEAN, DestroyToTheEnd(a, accepted)
  PROVE  Inv'
<1> DEFINE o   == heap[a].strBuf
           own == OwnedTypes(a)
           S   == {a, o, own}
<1>1. /\ heap' = [Placed(Placed(heap, o, Unallocated), own, Unallocated)
                    EXCEPT ![a] = Freed(accepted)]
      /\ held' = held \ {a} /\ UNCHANGED <<dropped, nameVars>>
  BY DEF DestroyToTheEnd, BufferOf
<1>2. a \in held /\ a \in Address /\ IsAst(heap, a) /\ heap = [b \in Address |-> heap[b]]
  BY HeapFacts
<1>3. o \in Address \cup {Null} /\ heap[a].ts \in Address \cup {Null}
      /\ heap[a].ownsTypes \in BOOLEAN
  BY <1>2, PointerFacts DEF Inv
<1>4. own \in Address \cup {Null}
  BY <1>3 DEF OwnedTypes
<1>5. heap' = [b \in Address |-> IF b = a THEN Freed(accepted)
                                 ELSE IF b = own \/ b = o THEN Unallocated ELSE heap[b]]
  <2> DEFINE h1 == Placed(heap, o, Unallocated)
             h2 == Placed(h1, own, Unallocated)
  <2>1. h1 = [b \in Address |-> IF b = o THEN Unallocated ELSE heap[b]]
    BY <1>2, <1>3, PlacedFacts
  <2>2. heap' = [h2 EXCEPT ![a] = Freed(accepted)]
    BY <1>1
  <2> HIDE DEF h1, own, o
  <2>3. h1 = [b \in Address |-> h1[b]]
    BY <2>1
  <2>4. h2 = [b \in Address |-> IF b = own THEN Unallocated ELSE h1[b]]
    BY <1>4, <2>3, PlacedFacts
  <2> HIDE DEF h2
  <2>5. h2 = [b \in Address |-> h2[b]]
    BY <2>4
  <2>6. heap' = [b \in Address |-> IF b = a THEN Freed(accepted) ELSE h2[b]]
    BY <1>2, <2>2, <2>5, ExceptFacts
  <2> QED BY <2>1, <2>4, <2>6
<1>6. But(heap, heap', S)
  BY <1>5 DEF But
<1>7. \A b \in Address : b \in S <=> b = a \/ Owns(heap, a, b)
  BY <1>3, AstAssumption DEF Owns, OwnedTypes
<1>8. \A b \in S \cap Address : heap'[b] \in {Unallocated, Destroyed}
  BY <1>5 DEF Freed
<1> HIDE DEF S
<1>9. Good(heap', held \ {a}, dropped, Viewable)
  BY <1>2, <1>6, <1>7, <1>8, EndGood DEF Inv
<1> QED BY <1>1, <1>9, InvSame

\* A node that refers to what there is can be added.
LEMMA InvAddNode ==
  ASSUME Inv, NEW h, Good(h, held, dropped, Viewable), NEW a \in held, IsAst(h, a), NEW node \in Nodes,
         NodeOK(h, a, node, Len(h[a].nodes) + 1, Viewable),
         heap' = AddNode(h, a, node), UNCHANGED <<held, dropped, nameVars>>
  PROVE  Inv'
<1>1. a \in Address /\ h = [b \in Address |-> h[b]]
  BY DEF Good, HandsOK, IsHeap
<1>2. h[a] = AstObject(h[a].strBuf, h[a].ts, h[a].ownsTypes, h[a].nodes)
  BY <1>1, PointerFacts
<1> DEFINE nodes == Append(h[a].nodes, node)
           ast   == AstObject(h[a].strBuf, h[a].ts, h[a].ownsTypes, nodes)
<1>3. heap' = [h EXCEPT ![a] = ast]
  <2>1. heap' = [h EXCEPT ![a] = [h[a] EXCEPT !.nodes = nodes]]
    BY <1>1 DEF AddNode
  <2>2. \A s, t, w, n, m : [AstObject(s, t, w, n) EXCEPT !.nodes = m] = AstObject(s, t, w, m)
    BY DEF AstObject
  <2> HIDE DEF nodes
  <2>3. [h[a] EXCEPT !.nodes = nodes] = ast
    BY <1>2, <2>2
  <2> QED BY <2>1, <2>3
<1>4. But(h, heap', {a}) /\ heap'[a] = ast
  BY <1>1, <1>3, ExceptFacts
<1>5. Good(heap', held, dropped, Viewable)
  BY <1>4, AddNodeGood
<1> QED BY <1>5, InvSame

\* The types for the nodes of an AST are types of its type set.
LEMMA TypesForFacts ==
  ASSUME Inv, NEW a \in Asts, NEW type \in TypesFor(a)
  PROVE  type \in NodeType /\ TypeAt(heap, heap[a].ts, type)
<1>1. a \in held /\ IsAst(heap, a)
  BY HeapFacts
<1>2. CASE heap[a].ts = Null
  BY <1>2 DEF TypesFor, NodeType, TypeRef, TypeAt
<1>3. CASE heap[a].ts # Null
  <2>1. heap[a].ts \in Address /\ heap[heap[a].ts].is = "types"
    BY <1>1, <1>3, HeldFacts DEF Inv
  <2>2. type \in TypesOf(heap[a].ts)
    BY <1>3 DEF TypesFor
  <2> QED BY <2>1, <2>2, TypesOfFacts DEF NodeType
<1> QED BY <1>2, <1>3

LEMMA InvNodes ==
  ASSUME Inv, NEW a \in Asts,
         \/ \E type \in TypesFor(a), name \in texts,
               value \in DOMAIN heap[a].nodes \cup {Null} :
              qcAstCreateBinding(a, type, name, value)
         \/ \E type \in TypesFor(a) : qcAstCreateLiteralType(a, type)
         \/ CreateLiteralNumber(a)
  PROVE  Inv'
<1>1. /\ a \in held /\ a \in Address /\ IsAst(heap, a) /\ Good(heap, held, dropped, Viewable)
  BY HeapFacts DEF Inv
<1>2. heap[a].nodes \in Seq(Nodes)
  BY <1>1, PointerFacts
<1> DEFINE n == Len(heap[a].nodes) + 1
<1>3. /\ DOMAIN heap[a].nodes \subseteq Nat
      /\ \A value \in DOMAIN heap[a].nodes : value < n
  BY <1>2
<1>4. ASSUME NEW type \in TypesFor(a), NEW name \in texts,
             NEW value \in DOMAIN heap[a].nodes \cup {Null},
             qcAstCreateBinding(a, type, name, value)
      PROVE  Inv'
  <2> DEFINE node == Node("binding", type, name, NoView, value)
  <2>0. node = Node("binding", type, name, NoView, value) /\ "binding" \in {"binding", "type", "number"}
    OBVIOUS
  <2> HIDE DEF node
  <2>1. type \in NodeType /\ TypeAt(heap, heap[a].ts, type) /\ value \in Nat \cup {Null}
    BY <1>3, TypesForFacts
  <2>5. name \in Viewable /\ name \in Names
    BY DEF Viewable, Inv, TextsOK
  <2>2. /\ node \in Nodes /\ node.kind = "binding" /\ node.type = type
        /\ node.value = value /\ node.name = name
    BY <2>0, <2>1, <2>5 DEF Node, Nodes, NoView
  <2>3. heap' = AddNode(heap, a, node) /\ UNCHANGED <<held, dropped, nameVars>>
    BY <1>4, <2>0 DEF qcAstCreateBinding
  <2>4. NodeOK(heap, a, node, n, Viewable)
    BY <1>3, <2>1, <2>2, <2>5 DEF NodeOK
  <2> QED BY <1>1, <2>2, <2>3, <2>4, InvAddNode
<1>5. ASSUME NEW type \in TypesFor(a), qcAstCreateLiteralType(a, type)
      PROVE  Inv'
  <2> DEFINE node == Node("type", type, Null, NoView, Null)
  <2>0. node = Node("type", type, Null, NoView, Null) /\ "type" \in {"binding", "type", "number"}
    OBVIOUS
  <2> HIDE DEF node
  <2>1. type \in NodeType /\ TypeAt(heap, heap[a].ts, type)
    BY TypesForFacts
  <2>2. /\ node \in Nodes /\ node.kind = "type" /\ node.type = type
        /\ node.value = Null
    BY <2>0, <2>1 DEF Node, Nodes, NoView
  <2>3. heap' = AddNode(heap, a, node) /\ UNCHANGED <<held, dropped, nameVars>>
    BY <1>5, <2>0 DEF qcAstCreateLiteralType
  <2>4. NodeOK(heap, a, node, n, Viewable)
    BY <2>1, <2>2 DEF NodeOK
  <2> QED BY <1>1, <2>2, <2>3, <2>4, InvAddNode
<1>6. CASE CreateLiteralNumber(a)
  <2> DEFINE node == Node("number", NoType, Null, NoView, Null)
  <2>0. node = Node("number", NoType, Null, NoView, Null) /\ "number" \in {"binding", "type", "number"}
    OBVIOUS
  <2> HIDE DEF node
  <2>1. NoType \in NodeType /\ TypeAt(heap, heap[a].ts, NoType)
    BY DEF NodeType, TypeAt
  <2>2. /\ node \in Nodes /\ node.kind = "number" /\ node.type = NoType
        /\ node.value = Null
    BY <2>0, <2>1 DEF Node, Nodes, NoView
  <2>3. heap' = AddNode(heap, a, node) /\ UNCHANGED <<held, dropped, nameVars>>
    BY <1>6, <2>0 DEF CreateLiteralNumber
  <2>4. NodeOK(heap, a, node, n, Viewable)
    BY <2>1, <2>2 DEF NodeOK
  <2> QED BY <1>1, <2>2, <2>3, <2>4, InvAddNode
<1> QED BY <1>4, <1>5, <1>6

\* The view of a string that was emplaced is inside the one page.
LEMMA LiteralView ==
  ASSUME NEW sb, StoreInv(sb), NEW str \in Texts,
         NEW res, res = qcStringBufferEmplace(sb, str), res.ret # NoString,
         NEW view, view = qcString(res.sb, res.ret)
  PROVE  /\ StoreInv(res.sb)
         /\ view \in [buf : Nat, off : Nat, len : Nat]
         /\ view.buf = 0 /\ view.len > 0 /\ view.off + view.len < PageSize
<1>1. str \in CString
  BY AstAssumption DEF CString
<1>2. StoreInv(res.sb)
  BY <1>1, StoreEmplace
<1>3. Admissible(str)
  <2> SUFFICES ASSUME ~ Admissible(str) PROVE FALSE
    OBVIOUS
  <2>1. res.ret = NoString
    BY DEF qcStringBufferEmplace, Result
  <2> QED BY <2>1
<1>4. res.ret \in Handle /\ res.ret \in DOMAIN res.sb.taken /\ res.ret.buf = 0
  BY <1>1, <1>3, StoreEmplace
<1> DEFINE n == res.sb.taken[res.ret]
<1>5. /\ res.ret.off \in Nat /\ n \in Nat /\ n > 0 /\ res.ret.off + n < PageSize
      /\ res.ret.off < PageSize /\ Len(res.sb.bufs) = 1
  BY <1>2, <1>4, PageAssumption DEF StoreInv, IsStringStore, IsRegistry, Handle, Offset
<1>6. view = [buf |-> res.ret.buf, off |-> res.ret.off, len |-> n]
  BY <1>4, <1>5 DEF qcString, InSomePage
<1> HIDE DEF n
<1> QED BY <1>2, <1>4, <1>5, <1>6

LEMMA InvLiteralStr ==
  ASSUME Inv, NEW a \in Asts, NEW str \in Texts, qcAstCreateLiteralStr(a, str)
  PROVE  Inv'
<1> DEFINE p    == heap[a].strBuf
           res  == qcStringBufferEmplace(heap[p].sb, str)
           view == qcString(res.sb, res.ret)
           node == Node("str", qcTypeString("QC_STRING_UTF8"), Null, view, Null)
           h    == [heap EXCEPT ![p].sb = res.sb]
<1>1. /\ p # Null /\ res.ret # NoString
      /\ heap' = AddNode(h, a, node) /\ UNCHANGED <<held, dropped, nameVars>>
  BY DEF qcAstCreateLiteralStr
<1>2. /\ a \in held /\ a \in Address /\ IsAst(heap, a) /\ Good(heap, held, dropped, Viewable)
      /\ heap = [b \in Address |-> heap[b]]
  BY HeapFacts DEF Inv
<1>3. p \in Address /\ heap[p].is = "strings" /\ p # a
  BY <1>1, <1>2, HeldFacts DEF IsAst
<1>4. BlockOK(p, heap[p]) /\ StoreInv(heap[p].sb) /\ heap[p] = Strings(heap[p].sb)
  BY <1>3, HeapFacts, BlockFacts DEF BlockOK
<1>5. /\ StoreInv(res.sb) /\ view \in [buf : Nat, off : Nat, len : Nat]
      /\ view.buf = 0 /\ view.len > 0 /\ view.off + view.len < PageSize
  BY <1>1, <1>4, LiteralView
<1>6. h = [heap EXCEPT ![p] = Strings(res.sb)]
  <2>1. \A s, t : [Strings(s) EXCEPT !.sb = t] = Strings(t)
    BY DEF Strings
  <2>2. h = [heap EXCEPT ![p] = [heap[p] EXCEPT !.sb = res.sb]]
    BY <1>3
  <2> HIDE DEF res
  <2>3. [heap[p] EXCEPT !.sb = res.sb] = Strings(res.sb)
    BY <1>4, <2>1
  <2> QED BY <2>2, <2>3
<1> HIDE DEF h, res, view, p
<1>7. But(heap, h, {p}) /\ h[p] = Strings(res.sb)
  BY <1>2, <1>3, <1>6, ExceptFacts
<1>8. BlockOK(p, h[p]) /\ h[p].is = "strings"
  BY <1>5, <1>7, StringsFacts
<1>9. Good(h, held, dropped, Viewable)
  BY <1>2, <1>3, <1>7, <1>8, InPlaceGood
<1>10. h[a] = heap[a] /\ IsAst(h, a)
  BY <1>2, <1>3, <1>7 DEF But, IsAst
<1>11. /\ node \in Nodes /\ node.kind = "str" /\ node.view = view
       /\ node.type = qcTypeString("QC_STRING_UTF8") /\ node.value = Null
  <2>1. qcTypeString("QC_STRING_UTF8") \in NodeType
    BY DEF NodeType
  <2> QED BY <1>5, <2>1 DEF Node, Nodes
<1> HIDE DEF node
<1>12. NodeOK(h, a, node, Len(h[a].nodes) + 1, Viewable)
  BY <1>1, <1>5, <1>10, <1>11 DEF NodeOK, TypeAt, p
<1> QED BY <1>1, <1>2, <1>9, <1>10, <1>11, <1>12, InvAddNode

-----------------------------------------------------------------------------
\* The invariant.

LEMMA InvInit == Init => Inv
<1> SUFFICES ASSUME Init PROVE Inv
  OBVIOUS
<1>1. /\ heap = [a \in Address |-> heap[a]] /\ held = {} /\ dropped = {}
      /\ \A a \in Address : heap[a] = Unallocated
      /\ texts = Names /\ dangling = {}
  BY DEF Init
<1>2. Unallocated.is = "unallocated" /\ \A a : BlockOK(a, Unallocated)
  <2>1. Unallocated.is = "unallocated"
    BY DEF Unallocated
  <2> QED BY <2>1, GoneFacts
<1> QED BY <1>1, <1>2 DEF Inv, Good, IsHeap, HandsOK, OwnedOK, UniqueOK, KeptOK, BorrowedOK,
                         NodesOK, IsAst, TextsOK

\* A freed text that is not one of the dangling ones names no binding.
LEMMA InvFreeText ==
  ASSUME Inv, NEW text \in texts, FreeText(text)
  PROVE  Inv'
<1>1. /\ texts' = texts \ {text} /\ dangling' = dangling \cup ({text} \cap Named)
      /\ heap' = heap /\ held' = held /\ dropped' = dropped
  BY DEF FreeText
<1>2. TextsOK'
  BY <1>1 DEF Inv, TextsOK
<1>3. NodesOK(heap, held, Viewable')
  <2> SUFFICES ASSUME NEW a \in held, IsAst(heap, a), NEW i \in DOMAIN heap[a].nodes
               PROVE  NodeOK(heap, a, heap[a].nodes[i], i, Viewable')
    BY DEF NodesOK
  <2> DEFINE node == heap[a].nodes[i]
  <2>1. NodeOK(heap, a, node, i, Viewable)
    BY DEF Inv, Good, NodesOK
  <2>2. ASSUME node.kind = "binding" PROVE node.name \in Viewable'
    <3>1. node.name \in Viewable
      BY <2>1, <2>2 DEF NodeOK
    <3>2. CASE node.name = text
      <4>1. a \in Asts /\ text \in Names
        BY DEF Asts, At, IsAst, Inv, Good, HandsOK, TextsOK
      <4>2. text \in Named
        BY <2>2, <3>2, <4>1 DEF Named
      <4> QED BY <1>1, <3>2, <4>2 DEF Viewable
    <3>3. CASE node.name # text
      BY <1>1, <3>1, <3>3 DEF Viewable
    <3> QED BY <3>2, <3>3
  <2> HIDE DEF node
  <2>3. NodeOK(heap, a, node, i, Viewable')
    BY <2>1, <2>2 DEF NodeOK
  <2> QED BY <2>3 DEF node
<1>4. Good(heap, held, dropped, Viewable')
  BY <1>3 DEF Inv, Good
<1> QED BY <1>1, <1>2, <1>4 DEF Inv

LEMMA InvNext == Inv /\ [Next]_vars => Inv'
<1> SUFFICES ASSUME Inv, [Next]_vars PROVE Inv'
  OBVIOUS
<1>1. ASSUME NEW a \in Asts, qcDestroyAst(a) PROVE Inv'
  BY <1>1, InvStopsAtBuffer, InvStopsAtTypes, InvToTheEnd DEF qcDestroyAst
<1>2. CASE UNCHANGED vars
  BY <1>2, InvSame DEF vars, Inv, nameVars
<1>3. CASE Next
  BY <1>1, <1>3, InvCreateTypes, InvDestroyTypes, InvDerives, InvCreateAst, InvNodes,
     InvLiteralStr, InvFreeText DEF Next
<1> QED BY <1>2, <1>3

THEOREM AstInv == Spec => []Inv
  BY InvInit, InvNext, PTL DEF Spec

-----------------------------------------------------------------------------
\* What it gives.

LEMMA OneOwnerHolds == Inv => OneOwner
<1> SUFFICES ASSUME Inv PROVE OneOwner
  OBVIOUS
<1>1. \A a \in Address : IsAst(heap, a) => a \in held \cup dropped
  BY DEF Inv, Good, HandsOK
<1>2. held \subseteq Objects
  BY DEF Inv, Good, HandsOK, Objects, At
<1>3. ASSUME NEW o \in Objects PROVE Cardinality(Owners(o)) = 1
  <2>1. o \in Address /\ heap[o].is \in {"ast", "types", "strings"}
    BY DEF Objects, At
  <2>2. \E x : Owners(o) = {x}
    <3>1. CASE o \in held \cup dropped
      <4>1. \A a \in Address : IsAst(heap, a) => ~ Owns(heap, a, o)
        BY <2>1, <3>1, PointerFacts DEF Inv
      <4>2. Owners(o) = {"caller"}
        BY <3>1, <4>1 DEF Owners, At, IsAst, Owns
      <4> QED BY <4>2
    <3>2. CASE o \notin held \cup dropped
      <4>1. heap[o].is \in {"types", "strings"}
        BY <1>1, <2>1, <3>2 DEF IsAst
      <4>2. PICK a \in Address : IsAst(heap, a) /\ Owns(heap, a, o)
        BY <2>1, <3>2, <4>1 DEF Inv, Good, KeptOK
      <4>3. \A b \in Address : IsAst(heap, b) /\ Owns(heap, b, o) => b = a
        BY <2>1, <4>2 DEF Inv, Good, UniqueOK
      <4>4. Owners(o) = {a}
        BY <3>2, <4>2, <4>3 DEF Owners, At, IsAst, Owns
      <4> QED BY <4>4
    <3> QED BY <3>1, <3>2
  <2> QED BY <2>2, FS_Singleton
<1> QED BY <1>2, <1>3 DEF OneOwner

LEMMA ReachableHolds == Inv => ReachableIsAlive
<1> SUFFICES ASSUME Inv, NEW a \in Asts
             PROVE  /\ heap[a].strBuf # Null => heap[heap[a].strBuf].is = "strings"
                    /\ heap[a].ts # Null => heap[heap[a].ts].is = "types"
                    /\ \A i \in DOMAIN heap[a].nodes :
                         LET node == heap[a].nodes[i]
                         IN  /\ IsType(node.type)
                             /\ node.value # Null => node.value < i
                             /\ node.kind = "binding" => node.name \in texts \cup dangling
                             /\ node.kind = "str" =>
                                  /\ heap[a].strBuf # Null
                                  /\ IsInside(node.view, heap[heap[a].strBuf].sb)
  BY DEF ReachableIsAlive
<1>1. a \in held /\ a \in Address /\ IsAst(heap, a)
  BY HeapFacts
<1>2. /\ heap[a].strBuf # Null => heap[a].strBuf \in Address /\ heap[heap[a].strBuf].is = "strings"
      /\ heap[a].ts # Null => heap[heap[a].ts].is = "types"
  BY <1>1, HeldFacts DEF Inv
<1>3. ASSUME NEW i \in DOMAIN heap[a].nodes
      PROVE  /\ IsType(heap[a].nodes[i].type)
             /\ heap[a].nodes[i].value # Null => heap[a].nodes[i].value < i
             /\ heap[a].nodes[i].kind = "binding" =>
                  heap[a].nodes[i].name \in texts \cup dangling
             /\ heap[a].nodes[i].kind = "str" =>
                  /\ heap[a].strBuf # Null
                  /\ IsInside(heap[a].nodes[i].view, heap[heap[a].strBuf].sb)
  <2> DEFINE node == heap[a].nodes[i]
  <2>1. NodeOK(heap, a, node, i, Viewable)
    BY <1>1 DEF Inv, Good, NodesOK
  <2> HIDE DEF node
  <2>2. IsType(node.type)
    BY <2>1 DEF NodeOK, TypeAt, IsType
  <2>3. heap[a].strBuf # Null => StoreInv(heap[heap[a].strBuf].sb)
    BY <1>2, HeapFacts DEF BlockOK
  <2>4. node.kind = "str" =>
          heap[a].strBuf # Null /\ IsInside(node.view, heap[heap[a].strBuf].sb)
    BY <2>1, <2>3 DEF NodeOK, IsInside, StoreInv
  <2> QED BY <2>1, <2>2, <2>4 DEF NodeOK, Viewable, node
<1> QED BY <1>2, <1>3

-----------------------------------------------------------------------------
\* Blocks, nodes and entries have their types, the pages of every string buffer
\* among them.
THEOREM AstTyped == Spec => []TypeOK
<1>1. Inv => TypeOK
  BY HeapFacts DEF TypeOK, BlockOK, Inv, TextsOK
<1> QED BY <1>1, AstInv, PTL

\* Every AST, type set and string buffer has exactly one owner, whichever
\* allocations fail and wherever a destruction stops (ast.cpp:37-81).
THEOREM OwnersAreUnique == Spec => []OneOwner
  BY OneOwnerHolds, AstInv, PTL

\* What can be reached through an AST that callers hold is alive, and the strings
\* of its literals are inside their page; the name of a binding, which stays the
\* caller's text (ast.cpp:112), is dead only if a caller freed it while an AST had
\* it.
THEOREM ReachableStaysAlive == Spec => []ReachableIsAlive
  BY ReachableHolds, AstInv, PTL
-----------------------------------------------------------------------------
\* The whole of a type.  Shape and ExactBits are functions defined from the
\* entries before an entry; that there are such functions, and what is true of
\* all entries, comes from there being a least number.

Recurs(f, n, base, step, place) ==
  \A i \in 1 .. n : f[i] = IF place[i] = 0 THEN base[i] ELSE step[i][f[place[i]]]

LEMMA Recursion ==
  ASSUME NEW n \in Nat, NEW V, NEW base \in [1 .. n -> V],
         NEW step \in [1 .. n -> [V -> V]],
         NEW place \in [1 .. n -> 0 .. n], \A i \in 1 .. n : place[i] < i
  PROVE  \E f \in [1 .. n -> V] : Recurs(f, n, base, step, place)
<1> DEFINE Value(f, i) == IF place[i] = 0 THEN base[i] ELSE step[i][f[place[i]]]
           Fills(f, m) == f \in [1 .. m -> V] /\ \A i \in 1 .. m : f[i] = Value(f, i)
           Unfilled    == {m \in 0 .. n : ~ \E f : Fills(f, m)}
<1>1. Unfilled = {}
  <2> SUFFICES ASSUME Unfilled # {} PROVE FALSE
    OBVIOUS
  <2>1. PICK m \in Unfilled : \A k \in Unfilled : m <= k
    <3>1. Unfilled \in SUBSET Nat
      OBVIOUS
    <3> HIDE DEF Unfilled
    <3> QED BY <3>1, LeastOfNats
  <2>2. m \in 0 .. n /\ ~ \E f : Fills(f, m)
    OBVIOUS
  <2>3. m # 0
    <3>1. Fills([i \in 1 .. 0 |-> base[i]], 0)
      OBVIOUS
    <3> HIDE DEF Fills
    <3> QED BY <2>2, <3>1
  <2>4. PICK f : Fills(f, m - 1)
    <3>1. m - 1 \in 0 .. n /\ ~ (m <= m - 1)
      BY <2>2, <2>3
    <3>2. m - 1 \notin Unfilled
      BY <2>1, <3>1
    <3> HIDE DEF Fills
    <3> QED BY <3>1, <3>2
  <2> DEFINE g == [i \in 1 .. m |-> IF i = m THEN Value(f, m) ELSE f[i]]
  <2>5. \A i \in 1 .. m : place[i] \in 0 .. n /\ place[i] < i /\ (i # m => i \in 1 .. m - 1)
    BY <2>2
  <2>6. f \in [1 .. m - 1 -> V] /\ \A i \in 1 .. m - 1 : f[i] = Value(f, i)
    BY <2>4
  <2>7. \A i \in 1 .. m : place[i] # 0 => place[i] \in 1 .. m - 1
    BY <2>2, <2>5
  <2>8. \A i \in 1 .. m : Value(g, i) = Value(f, i)
    BY <2>2, <2>7
  <2>9. \A i \in 1 .. m : g[i] = Value(f, i)
    BY <2>5, <2>6
  <2>10. \A i \in 1 .. m : Value(f, i) \in V
    BY <2>2, <2>6, <2>7
  <2>11. g \in [1 .. m -> V]
    <3> HIDE DEF Value
    <3>1. \A i \in 1 .. m : g[i] \in V
      BY <2>9, <2>10
    <3> QED BY <3>1
  <2>12. Fills(g, m)
    <3> HIDE DEF Value, g
    <3> QED BY <2>8, <2>9, <2>11
  <2> HIDE DEF Fills, g
  <2> QED BY <2>2, <2>12
<1>2. n \in 0 .. n
  OBVIOUS
<1>3. PICK f : Fills(f, n)
  <2> HIDE DEF Fills
  <2> QED BY <1>1, <1>2
<1> QED BY <1>3 DEF Recurs

\* The element of an entry is a basic type or an entry before it.
LEMMA ElemBefore ==
  ASSUME NEW ts \in Address, NEW entries \in Seq(Entries), EntriesOK(ts, entries),
         NEW i \in DOMAIN entries
  PROVE  /\ \/ entries[i].elem \in BasicTypes /\ ~ IsDerived(entries[i].elem)
            \/ /\ IsDerived(entries[i].elem)
               /\ entries[i].elem = DerivedAt(ts, entries[i].elem.place)
               /\ entries[i].elem.place \in DOMAIN entries /\ entries[i].elem.place < i
         /\ entries[i] \in Entries
<1>1. CASE entries[i].elem \in BasicTypes
  BY <1>1, BasicFacts
<1>2. CASE entries[i].elem \notin BasicTypes
  <2>1. PICK p \in DOMAIN entries : p < i /\ entries[i].elem = DerivedAt(ts, p)
    BY <1>2 DEF EntriesOK
  <2>2. IsDerived(entries[i].elem) /\ entries[i].elem.place = p
    BY <2>1 DEF IsDerived, DerivedAt
  <2> QED BY <2>1, <2>2
<1> QED BY <1>1, <1>2

LEMMA ShapeFacts ==
  ASSUME NEW ts \in Address, NEW entries \in Seq(Entries), EntriesOK(ts, entries),
         NEW i \in DOMAIN entries
  PROVE  LET rest == IF IsDerived(entries[i].elem)
                     THEN Shape(entries)[entries[i].elem.place]
                     ELSE <<entries[i].elem>>
         IN  /\ Shape(entries)[i] =
                  <<[kind |-> entries[i].kind, n |-> entries[i].n]>> \o rest
             /\ rest \in Seq([kind : {"ptr", "array", "vector"}, n : Nat] \cup TypeRef)
<1> DEFINE n     == Len(entries)
           W     == [kind : {"ptr", "array", "vector"}, n : Nat] \cup TypeRef
           V     == Seq(W)
           own   == [j \in 1 .. n |-> <<[kind |-> entries[j].kind, n |-> entries[j].n]>>]
           base  == [j \in 1 .. n |-> own[j] \o <<entries[j].elem>>]
           step  == [j \in 1 .. n |-> [v \in V |-> own[j] \o v]]
           place == [j \in 1 .. n |-> IF IsDerived(entries[j].elem)
                                      THEN entries[j].elem.place ELSE 0]
           IsShape(g) ==
             g = [j \in DOMAIN entries |->
                    <<[kind |-> entries[j].kind, n |-> entries[j].n]>>
                      \o (IF IsDerived(entries[j].elem)
                          THEN g[entries[j].elem.place]
                          ELSE <<entries[j].elem>>)]
<1>1. n \in Nat /\ DOMAIN entries = 1 .. n
  OBVIOUS
<1>2. ASSUME NEW j \in 1 .. n
      PROVE  /\ <<[kind |-> entries[j].kind, n |-> entries[j].n]>> \in V
             /\ <<entries[j].elem>> \in V
  <2>1. entries[j] \in Entries
    BY <1>1
  <2>2. entries[j].kind \in {"ptr", "array", "vector"} /\ entries[j].n \in Nat
        /\ entries[j].elem \in TypeRef
    BY <2>1 DEF Entries
  <2>3. [kind |-> entries[j].kind, n |-> entries[j].n] \in W /\ entries[j].elem \in W
    BY <2>2
  <2> HIDE DEF W
  <2> QED BY <2>3
<1> HIDE DEF W
<1>3. \A u, v \in V : u \o v \in V
  OBVIOUS
<1> HIDE DEF V
<1>4. base \in [1 .. n -> V] /\ step \in [1 .. n -> [V -> V]]
  <2>1. \A j \in 1 .. n : base[j] \in V
    BY <1>2, <1>3
  <2>2. \A j \in 1 .. n : \A v \in V : own[j] \o v \in V
    BY <1>2, <1>3
  <2> HIDE DEF own
  <2> QED BY <2>1, <2>2
<1>5. place \in [1 .. n -> 0 .. n] /\ \A j \in 1 .. n : place[j] < j
  <2>1. ASSUME NEW j \in 1 .. n PROVE place[j] \in 0 .. n /\ place[j] < j
    BY <1>1, ElemBefore
  <2> QED BY <2>1
<1>6. \A j \in 1 .. n : place[j] = 0 <=> ~ IsDerived(entries[j].elem)
  <2> SUFFICES ASSUME NEW j \in 1 .. n PROVE place[j] = 0 <=> ~ IsDerived(entries[j].elem)
    OBVIOUS
  <2>1. IsDerived(entries[j].elem) => entries[j].elem.place \in 1 .. n
    BY <1>1, ElemBefore
  <2> QED BY <2>1
<1>7. PICK f \in [1 .. n -> V] :
        \A j \in 1 .. n : f[j] = IF place[j] = 0 THEN base[j] ELSE step[j][f[place[j]]]
  <2>1. base \in [1 .. n -> V]
    BY <1>4
  <2>2. step \in [1 .. n -> [V -> V]]
    BY <1>4
  <2>3. place \in [1 .. n -> 0 .. n]
    BY <1>5
  <2>4. \A j \in 1 .. n : place[j] < j
    BY <1>5
  <2> HIDE DEF base, step, place, n
  <2>5. \E f \in [1 .. n -> V] : Recurs(f, n, base, step, place)
    BY <1>1, <2>1, <2>2, <2>3, <2>4, Recursion
  <2> QED BY <2>5 DEF Recurs
<1>8. \A j \in 1 .. n :
        f[j] = <<[kind |-> entries[j].kind, n |-> entries[j].n]>>
                 \o (IF IsDerived(entries[j].elem) THEN f[entries[j].elem.place]
                     ELSE <<entries[j].elem>>)
  <2> SUFFICES ASSUME NEW j \in 1 .. n
               PROVE  f[j] = own[j] \o (IF IsDerived(entries[j].elem)
                                        THEN f[entries[j].elem.place]
                                        ELSE <<entries[j].elem>>)
    OBVIOUS
  <2>1. CASE ~ IsDerived(entries[j].elem)
    BY <1>6, <1>7, <2>1
  <2>2. CASE IsDerived(entries[j].elem)
    <3>1. place[j] = entries[j].elem.place /\ place[j] \in 1 .. n
      BY <1>5, <1>6, <2>2
    <3>2. f[j] = step[j][f[place[j]]] /\ f[place[j]] \in V
      BY <1>6, <1>7, <2>2, <3>1
    <3> HIDE DEF own, place
    <3> QED BY <2>2, <3>1, <3>2
  <2> QED BY <2>1, <2>2
<1>9. IsShape(f)
  <2> DEFINE e(j) == <<[kind |-> entries[j].kind, n |-> entries[j].n]>>
                       \o (IF IsDerived(entries[j].elem) THEN f[entries[j].elem.place]
                           ELSE <<entries[j].elem>>)
  <2>1. \A j \in 1 .. n : f[j] = e(j)
    BY <1>8
  <2>2. IsShape(f) <=> f = [j \in DOMAIN entries |-> e(j)]
    OBVIOUS
  <2> HIDE DEF e, IsShape
  <2> QED BY <1>1, <2>1, <2>2
<1>10. Shape(entries) = CHOOSE g : IsShape(g)
  BY DEF Shape
<1> DEFINE S == Shape(entries)
<1>11. IsShape(S)
  <2> HIDE DEF IsShape
  <2> QED BY <1>9, <1>10
<1>12. S = [j \in DOMAIN entries |->
              <<[kind |-> entries[j].kind, n |-> entries[j].n]>>
                \o (IF IsDerived(entries[j].elem) THEN S[entries[j].elem.place]
                    ELSE <<entries[j].elem>>)]
  BY <1>11
<1> HIDE DEF S
\* There is one such function.
<1>13. \A j \in 1 .. n : S[j] \in V
  <2> DEFINE Off == {j \in 1 .. n : S[j] \notin V}
  <2> SUFFICES ASSUME Off # {} PROVE FALSE
    OBVIOUS
  <2>1. PICK j \in Off : \A k \in Off : j <= k
    <3>1. Off \in SUBSET Nat
      OBVIOUS
    <3> HIDE DEF Off
    <3> QED BY <3>1, LeastOfNats
  <2>2. j \in 1 .. n /\ S[j] \notin V
    OBVIOUS
  <2>3. S[j] = <<[kind |-> entries[j].kind, n |-> entries[j].n]>>
                 \o (IF IsDerived(entries[j].elem) THEN S[entries[j].elem.place]
                     ELSE <<entries[j].elem>>)
    BY <1>1, <1>12, <2>2
  <2>4. IsDerived(entries[j].elem) => S[entries[j].elem.place] \in V
    <3> SUFFICES ASSUME IsDerived(entries[j].elem) PROVE S[entries[j].elem.place] \in V
      OBVIOUS
    <3>1. entries[j].elem.place \in 1 .. n /\ entries[j].elem.place < j
      BY <1>1, <2>2, ElemBefore
    <3>2. entries[j].elem.place \notin Off
      BY <2>1, <2>2, <3>1
    <3> QED BY <3>1, <3>2
  <2> QED BY <1>2, <1>3, <2>2, <2>3, <2>4
<1>14. IsDerived(entries[i].elem) => S[entries[i].elem.place] \in V
  BY <1>1, <1>13, ElemBefore
<1>15. S[i] = <<[kind |-> entries[i].kind, n |-> entries[i].n]>>
                \o (IF IsDerived(entries[i].elem) THEN S[entries[i].elem.place]
                    ELSE <<entries[i].elem>>)
  BY <1>12
<1>16. (IF IsDerived(entries[i].elem) THEN S[entries[i].elem.place]
        ELSE <<entries[i].elem>>) \in V
  BY <1>1, <1>2, <1>14
<1> QED BY <1>15, <1>16 DEF S, V, W


\* The bits of the entry at i, when its element has below.
BitsOver(entries, i, below) ==
  IF entries[i].kind = "ptr" THEN PtrBits ELSE entries[i].n * below

LEMMA ExactBitsFacts ==
  ASSUME NEW ts \in Address, NEW entries \in Seq(Entries), EntriesOK(ts, entries),
         NEW i \in DOMAIN entries
  PROVE  LET below == IF IsDerived(entries[i].elem)
                      THEN ExactBits(entries)[entries[i].elem.place]
                      ELSE entries[i].elem.numBits
         IN  /\ ExactBits(entries)[i] = BitsOver(entries, i, below)
             /\ below \in Nat
<1> DEFINE n     == Len(entries)
           over(j, v) == BitsOver(entries, j, v)
           base  == [j \in 1 .. n |-> IF IsDerived(entries[j].elem) THEN 0
                                      ELSE over(j, entries[j].elem.numBits)]
           step  == [j \in 1 .. n |-> [v \in Nat |-> over(j, v)]]
           place == [j \in 1 .. n |-> IF IsDerived(entries[j].elem)
                                      THEN entries[j].elem.place ELSE 0]
           below(g, j) == IF IsDerived(entries[j].elem) THEN g[entries[j].elem.place]
                          ELSE entries[j].elem.numBits
           IsBits(g) ==
             g = [j \in DOMAIN entries |->
                    IF entries[j].kind = "ptr" THEN PtrBits
                    ELSE entries[j].n * (IF IsDerived(entries[j].elem)
                                         THEN g[entries[j].elem.place]
                                         ELSE entries[j].elem.numBits)]
<1>1. n \in Nat /\ DOMAIN entries = 1 .. n
  OBVIOUS
<1>2. ASSUME NEW j \in 1 .. n
      PROVE  /\ \A v \in Nat : over(j, v) \in Nat
             /\ ~ IsDerived(entries[j].elem) => entries[j].elem.numBits \in Nat
  <2>1. entries[j] \in Entries
    BY <1>1
  <2>2. entries[j].n \in Nat
    BY <2>1 DEF Entries
  <2>3. \A v \in Nat : entries[j].n * v \in Nat
    BY <2>2
  <2>4. \A v \in Nat : over(j, v) \in Nat
    BY <2>3, TypeSetAssumption DEF BitsOver
  <2>5. ~ IsDerived(entries[j].elem) => entries[j].elem \in BasicTypes
    BY <1>1, ElemBefore
  <2> QED BY <2>4, <2>5, BasicFacts
<1> HIDE DEF over
<1>3. \A j \in 1 .. n : base[j] \in Nat
  BY <1>2
<1>4. base \in [1 .. n -> Nat]
  BY <1>3
<1>5. step \in [1 .. n -> [Nat -> Nat]]
  BY <1>2
<1>6. \A j \in 1 .. n : IsDerived(entries[j].elem) =>
                          entries[j].elem.place \in 1 .. n /\ entries[j].elem.place < j
  BY <1>1, ElemBefore
<1>7. place \in [1 .. n -> 0 .. n]
  BY <1>1, <1>6
<1>8. \A j \in 1 .. n : place[j] < j
  BY <1>1, <1>6
<1>9. PICK f \in [1 .. n -> Nat] : Recurs(f, n, base, step, place)
  <2> HIDE DEF base, step, place, n
  <2> QED BY <1>1, <1>4, <1>5, <1>7, <1>8, Recursion
<1>10. \A j \in 1 .. n :
         f[j] = IF place[j] = 0 THEN base[j] ELSE step[j][f[place[j]]]
  BY <1>9 DEF Recurs
<1>11. \A j \in 1 .. n : f[j] = over(j, below(f, j))
  <2> SUFFICES ASSUME NEW j \in 1 .. n PROVE f[j] = over(j, below(f, j))
    OBVIOUS
  <2>1. CASE ~ IsDerived(entries[j].elem)
    BY <1>10, <2>1
  <2>2. CASE IsDerived(entries[j].elem)
    <3>1. place[j] = entries[j].elem.place /\ place[j] \in 1 .. n /\ place[j] # 0
      BY <1>6, <2>2
    <3>2. f[j] = step[j][f[place[j]]] /\ f[place[j]] \in Nat
      BY <1>10, <3>1
    <3>3. f[j] = over(j, f[place[j]])
      BY <3>2
    <3> HIDE DEF place
    <3> QED BY <2>2, <3>1, <3>3
  <2> QED BY <2>1, <2>2
<1> DEFINE bits(g, j) == IF entries[j].kind = "ptr" THEN PtrBits
                         ELSE entries[j].n * (IF IsDerived(entries[j].elem)
                                              THEN g[entries[j].elem.place]
                                              ELSE entries[j].elem.numBits)
<1>12. \A g, j : bits(g, j) = over(j, below(g, j))
  BY DEF over, BitsOver
<1>13. IsBits(f)
  <2>1. \A j \in 1 .. n : f[j] = bits(f, j)
    BY <1>11, <1>12
  <2>2. IsBits(f) <=> f = [j \in DOMAIN entries |-> bits(f, j)]
    OBVIOUS
  <2> HIDE DEF bits, IsBits
  <2> QED BY <1>1, <2>1, <2>2
<1>14. ExactBits(entries) = CHOOSE g : IsBits(g)
  BY DEF ExactBits
<1> DEFINE S == ExactBits(entries)
<1>15. IsBits(S)
  <2> HIDE DEF IsBits
  <2> QED BY <1>13, <1>14
<1>16. S = [j \in DOMAIN entries |-> bits(S, j)]
  BY <1>15
<1> HIDE DEF S, bits
<1>17. \A j \in 1 .. n : S[j] = over(j, below(S, j))
  BY <1>1, <1>12, <1>16
<1>18. \A j \in 1 .. n : S[j] \in Nat
  <2> DEFINE Off == {j \in 1 .. n : S[j] \notin Nat}
  <2> SUFFICES ASSUME Off # {} PROVE FALSE
    OBVIOUS
  <2>1. PICK j \in Off : \A k \in Off : j <= k
    <3>1. Off \in SUBSET Nat
      OBVIOUS
    <3> HIDE DEF Off
    <3> QED BY <3>1, LeastOfNats
  <2>2. j \in 1 .. n /\ S[j] \notin Nat
    OBVIOUS
  <2>3. IsDerived(entries[j].elem) => S[entries[j].elem.place] \in Nat
    <3> SUFFICES ASSUME IsDerived(entries[j].elem) PROVE S[entries[j].elem.place] \in Nat
      OBVIOUS
    <3>1. entries[j].elem.place \in 1 .. n /\ entries[j].elem.place < j
      BY <1>6, <2>2
    <3>2. entries[j].elem.place \notin Off
      BY <2>1, <2>2, <3>1
    <3> QED BY <3>1, <3>2
  <2>4. below(S, j) \in Nat
    BY <1>2, <2>2, <2>3
  <2> HIDE DEF below
  <2> QED BY <1>2, <1>17, <2>2, <2>4
<1>19. below(S, i) \in Nat
  <2>1. IsDerived(entries[i].elem) => S[entries[i].elem.place] \in Nat
    BY <1>1, <1>6, <1>18
  <2> QED BY <1>1, <1>2, <2>1
<1>20. S[i] = BitsOver(entries, i, below(S, i))
  BY <1>1, <1>17 DEF over
<1> QED BY <1>19, <1>20 DEF S

-----------------------------------------------------------------------------
\* A remainder goes through a product.

LEMMA RemainderOf ==
  ASSUME NEW m \in Nat, m > 0, NEW k \in Nat, NEW d \in 0 .. m - 1
  PROVE  (m * k + d) % m = d
<1> DEFINE z == m * k + d
           q == z \div m
           r == z % m
<1>1. m * k \in Nat /\ z \in Nat
  OBVIOUS
<1>2. q \in Int /\ r \in 0 .. m - 1 /\ z = m * q + r
  <2> HIDE DEF z
  <2> QED BY <1>1
<1>3. z = m * k + d
  OBVIOUS
<1> HIDE DEF z, q, r
<1>4. m * (q - k) = d - r
  BY <1>2, <1>3
<1>5. q - k \in Int /\ d - r \in Int /\ d - r < m /\ d - r > -m
  BY <1>2
<1>6. \A e \in Int : e >= 1 => m * e >= m
  OBVIOUS
<1>7. \A e \in Int : e <= -1 => m * e <= -m
  OBVIOUS
<1>8. ~ (q - k >= 1) /\ ~ (q - k <= -1)
  BY <1>4, <1>5, <1>6, <1>7
<1>9. q = k
  BY <1>2, <1>8
<1>10. d = r
  BY <1>2, <1>3, <1>9
<1> QED BY <1>10 DEF z, r

LEMMA ProductOf ==
  ASSUME NEW m \in Nat, m > 0, NEW x \in Nat, NEW n \in Nat
  PROVE  ((x % m) * n) % m = (n * x) % m
<1> DEFINE q == x \div m
           r == x % m
           c == (r * n) \div m
           d == (r * n) % m
<1>1. q \in Nat /\ r \in 0 .. m - 1 /\ x = m * q + r
  OBVIOUS
<1>2. r * n \in Nat
  BY <1>1
<1>3. \A y \in Nat : y \div m \in Nat /\ y % m \in 0 .. m - 1 /\ y = m * (y \div m) + (y % m)
  OBVIOUS
<1>4. c \in Nat /\ d \in 0 .. m - 1 /\ r * n = m * c + d
  BY <1>2, <1>3
<1> HIDE DEF q, r, c, d
<1>5. n * x = n * (m * q) + n * r
  BY <1>1
<1>6. n * (m * q) = m * (n * q)
  BY <1>1
<1>7. n * r = r * n
  BY <1>1
<1>8. n * q \in Nat
  BY <1>1
<1>9. n * x = m * (n * q) + (m * c + d)
  BY <1>4, <1>5, <1>6, <1>7
<1>10. m * (n * q) + m * c = m * (n * q + c)
  BY <1>4, <1>8
<1>11. n * x = m * (n * q + c) + d
  <2> DEFINE a == m * (n * q)
             b == m * c
  <2>1. a \in Nat /\ b \in Nat
    BY <1>4, <1>8
  <2>2. n * x = a + (b + d) /\ a + b = m * (n * q + c)
    BY <1>9, <1>10
  <2> HIDE DEF a, b
  <2>3. a + (b + d) = (a + b) + d
    BY <1>4, <2>1
  <2> QED BY <2>2, <2>3
<1>12. n * q + c \in Nat
  BY <1>4, <1>8
<1>13. (n * x) % m = d
  BY <1>4, <1>11, <1>12, RemainderOf
<1> QED BY <1>13 DEF d, r

\* Sizes are computed modulo SizeMod at every derivation: so is the whole.
LEMMA SizesAreExact ==
  ASSUME NEW ts \in Address, NEW entries \in Seq(Entries), EntriesOK(ts, entries)
  PROVE  \A i \in DOMAIN entries :
           entries[i].numBits = ExactBits(entries)[i] % SizeMod
<1> DEFINE S   == ExactBits(entries)
           Off == {i \in DOMAIN entries : entries[i].numBits # S[i] % SizeMod}
<1> SUFFICES ASSUME Off # {} PROVE FALSE
  OBVIOUS
<1>1. PICK i \in Off : \A k \in Off : i <= k
  <2>1. Off \in SUBSET Nat
    OBVIOUS
  <2> HIDE DEF Off
  <2> QED BY <2>1, LeastOfNats
<1>2. i \in DOMAIN entries /\ i \in Nat /\ entries[i].numBits # S[i] % SizeMod
  OBVIOUS
<1> DEFINE elem  == entries[i].elem
           below == IF IsDerived(elem) THEN S[elem.place] ELSE elem.numBits
<1>3. S[i] = BitsOver(entries, i, below) /\ below \in Nat
  BY <1>2, ExactBitsFacts
<1>4. /\ SizeMod \in Nat /\ SizeMod > 0
      /\ PtrBits \in Nat /\ PtrBits % SizeMod = PtrBits
  BY TypeSetAssumption
<1>5. entries[i].numBits = IF entries[i].kind = "ptr" THEN PtrBits
                           ELSE (NumBits(entries, elem) * entries[i].n) % SizeMod
  BY <1>2 DEF EntriesOK
<1>6. entries[i].n \in Nat
  <2>1. entries[i] \in Entries
    BY <1>2
  <2> QED BY <2>1 DEF Entries
<1>7. (NumBits(entries, elem) * entries[i].n) % SizeMod = (entries[i].n * below) % SizeMod
  <2>1. CASE IsDerived(elem)
    <3>1. elem.place \in DOMAIN entries /\ elem.place < i
      BY <1>2, <2>1, ElemBefore
    <3>2. elem.place \notin Off
      BY <1>1, <1>2, <3>1
    <3>3. NumBits(entries, elem) = below % SizeMod
      BY <2>1, <3>1, <3>2 DEF NumBits
    <3> HIDE DEF below, elem
    <3> QED BY <1>3, <1>4, <1>6, <3>3, ProductOf
  <2>2. CASE ~ IsDerived(elem)
    <3>1. NumBits(entries, elem) = below
      BY <2>2 DEF NumBits
    <3>2. \A x, y \in Nat : x * y = y * x
      OBVIOUS
    <3> HIDE DEF below, elem
    <3> QED BY <1>3, <1>6, <3>1, <3>2
  <2> QED BY <2>1, <2>2
<1>8. CASE entries[i].kind = "ptr"
  BY <1>2, <1>3, <1>4, <1>5, <1>8 DEF BitsOver
<1>9. CASE entries[i].kind # "ptr"
  <2> HIDE DEF below, elem, S
  <2> QED BY <1>2, <1>3, <1>5, <1>7, <1>9 DEF BitsOver
<1> QED BY <1>8, <1>9

\* Two entries of one shape are one entry: their elements have one shape, and are
\* one by what is true of the entries before, and no two entries are one key.
Before(head, rest) == <<head>> \o rest

LEMMA BeforeFacts ==
  ASSUME NEW W, NEW a \in W, NEW b \in W, NEW r \in Seq(W), NEW s \in Seq(W)
  PROVE  /\ Len(Before(a, r)) = 1 + Len(r)
         /\ Before(a, r) = Before(b, s) => a = b /\ r = s
<1> DEFINE u == <<a>> \o r
           v == <<b>> \o s
<1>1. /\ u \in Seq(W) /\ Len(u) = 1 + Len(r) /\ u[1] = a
      /\ \A i \in 1 .. Len(r) : u[i + 1] = r[i]
  OBVIOUS
<1>2. /\ v \in Seq(W) /\ Len(v) = 1 + Len(s) /\ v[1] = b
      /\ \A i \in 1 .. Len(s) : v[i + 1] = s[i]
  OBVIOUS
<1> HIDE DEF u, v
<1>3. ASSUME u = v PROVE a = b /\ r = s
  <2>1. Len(r) = Len(s)
    BY <1>1, <1>2, <1>3
  <2>2. \A i \in 1 .. Len(r) : r[i] = s[i]
    BY <1>1, <1>2, <1>3, <2>1
  <2> QED BY <1>1, <1>2, <1>3, <2>1, <2>2
<1> QED BY <1>1, <1>3 DEF u, v, Before

LEMMA ShapesDiffer ==
  ASSUME NEW ts \in Address, NEW entries \in Seq(Entries), EntriesOK(ts, entries)
  PROVE  \A i, j \in DOMAIN entries : Shape(entries)[i] = Shape(entries)[j] => i = j
<1> DEFINE S       == Shape(entries)
           W       == [kind : {"ptr", "array", "vector"}, n : Nat] \cup TypeRef
           head(i) == [kind |-> entries[i].kind, n |-> entries[i].n]
           rest(i) == IF IsDerived(entries[i].elem) THEN S[entries[i].elem.place]
                      ELSE <<entries[i].elem>>
           Off     == {i \in DOMAIN entries : \E j \in DOMAIN entries : S[i] = S[j] /\ i # j}
<1>1. \A i \in DOMAIN entries :
        S[i] = Before(head(i), rest(i)) /\ rest(i) \in Seq(W)
  BY ShapeFacts DEF Before
<1>2. \A i \in DOMAIN entries :
        /\ entries[i].kind \in {"ptr", "array", "vector"} /\ entries[i].n \in Nat
        /\ entries[i].elem \in TypeRef
  <2>1. \A i \in DOMAIN entries : entries[i] \in Entries
    OBVIOUS
  <2> QED BY <2>1 DEF Entries
<1>3. \A i \in DOMAIN entries : head(i) \in W /\ entries[i].elem \in W
  BY <1>2
<1> HIDE DEF W
<1> DEFINE len(i) == Len(rest(i))
<1>4. \A i \in DOMAIN entries : Len(S[i]) = 1 + len(i) /\ len(i) \in Nat
  <2> SUFFICES ASSUME NEW i \in DOMAIN entries
               PROVE  Len(S[i]) = 1 + Len(rest(i)) /\ Len(rest(i)) \in Nat
    OBVIOUS
  <2>1. head(i) \in W /\ rest(i) \in Seq(W) /\ S[i] = Before(head(i), rest(i))
    BY <1>1, <1>3
  <2> HIDE DEF S, head, rest
  <2> QED BY <2>1, BeforeFacts
<1>5. \A i \in DOMAIN entries :
        IsDerived(entries[i].elem) =>
          /\ entries[i].elem.place \in DOMAIN entries /\ entries[i].elem.place < i
          /\ entries[i].elem = DerivedAt(ts, entries[i].elem.place)
  BY ElemBefore
<1>6. \A i \in DOMAIN entries : ~ IsDerived(entries[i].elem) => len(i) = 1
  BY <1>2
<1>7. \A i \in DOMAIN entries :
        IsDerived(entries[i].elem) => len(i) = 1 + len(entries[i].elem.place)
  <2> SUFFICES ASSUME NEW i \in DOMAIN entries, IsDerived(entries[i].elem)
               PROVE  len(i) = 1 + len(entries[i].elem.place)
    OBVIOUS
  <2>1. entries[i].elem.place \in DOMAIN entries /\ len(i) = Len(S[entries[i].elem.place])
    BY <1>5
  <2> HIDE DEF len
  <2> QED BY <1>4, <2>1
<1>8. \A i \in DOMAIN entries : IsDerived(entries[i].elem) <=> len(i) # 1
  <2> HIDE DEF len
  <2>1. \A i \in DOMAIN entries : len(i) # 0
    <3> SUFFICES ASSUME NEW i \in DOMAIN entries PROVE len(i) # 0
      OBVIOUS
    <3>1. CASE IsDerived(entries[i].elem)
      <4>1. len(i) = 1 + len(entries[i].elem.place) /\ len(entries[i].elem.place) \in Nat
        BY <1>4, <1>5, <1>7, <3>1
      <4> QED BY <4>1
    <3> QED BY <1>6, <3>1
  <2> SUFFICES ASSUME NEW i \in DOMAIN entries PROVE IsDerived(entries[i].elem) <=> len(i) # 1
    OBVIOUS
  <2>2. CASE IsDerived(entries[i].elem)
    <3>1. /\ len(i) = 1 + len(entries[i].elem.place)
          /\ len(entries[i].elem.place) \in Nat /\ len(entries[i].elem.place) # 0
      BY <1>4, <1>5, <1>7, <2>1, <2>2
    <3> QED BY <2>2, <3>1
  <2> QED BY <1>6, <2>2
<1>9. Off = {}
  <2> SUFFICES ASSUME Off # {} PROVE FALSE
    OBVIOUS
  <2>1. PICK i \in Off : \A k \in Off : i <= k
    <3>1. Off \in SUBSET Nat
      OBVIOUS
    <3> HIDE DEF Off
    <3> QED BY <3>1, LeastOfNats
  <2>2. i \in DOMAIN entries /\ i \in Nat
    OBVIOUS
  <2>3. PICK j \in DOMAIN entries : S[i] = S[j] /\ i # j
    OBVIOUS
  <2>4. head(i) = head(j) /\ rest(i) = rest(j)
    <3>1. Before(head(i), rest(i)) = Before(head(j), rest(j))
      BY <1>1, <2>2, <2>3
    <3>2. /\ head(i) \in W /\ head(j) \in W
          /\ rest(i) \in Seq(W) /\ rest(j) \in Seq(W)
      BY <1>1, <1>3, <2>2, <2>3
    <3> HIDE DEF S, head, rest
    <3> QED BY <3>1, <3>2, BeforeFacts
  <2>5. entries[i].kind = entries[j].kind /\ entries[i].n = entries[j].n
    BY <2>4
  <2>6. IsDerived(entries[i].elem) <=> IsDerived(entries[j].elem)
    <3>1. len(i) = len(j)
      BY <2>4
    <3> HIDE DEF len
    <3> QED BY <1>8, <2>2, <2>3, <3>1
  <2>7. entries[i].elem = entries[j].elem
    <3>1. CASE IsDerived(entries[i].elem)
      <4> DEFINE p == entries[i].elem.place
                 q == entries[j].elem.place
      <4>1. /\ p \in DOMAIN entries /\ p < i /\ q \in DOMAIN entries
            /\ entries[i].elem = DerivedAt(ts, p) /\ entries[j].elem = DerivedAt(ts, q)
        BY <1>5, <2>2, <2>3, <2>6, <3>1
      <4>2. S[p] = S[q]
        BY <2>4, <2>6, <3>1
      <4>3. p \notin Off
        BY <2>1, <2>2, <4>1
      <4>4. p = q
        <5> HIDE DEF p, q, S
        <5> QED BY <4>1, <4>2, <4>3
      <4> HIDE DEF p, q
      <4> QED BY <4>1, <4>4
    <3>2. CASE ~ IsDerived(entries[i].elem)
      <4>1. <<entries[i].elem>> = <<entries[j].elem>>
        BY <2>4, <2>6, <3>2
      <4> QED BY <4>1
    <3> QED BY <3>1, <3>2
  <2> QED BY <2>2, <2>3, <2>5, <2>7 DEF EntriesOK
<1> QED BY <1>9

-----------------------------------------------------------------------------
\* In every type set that callers hold, deriving a type gives the entry that is the
\* one asked for, and gives it again; two entries are never the same type all the
\* way down; and sizes multiplied up modulo 2^64 are exact modulo 2^64
\* (types.cpp, qcTypePtr, qcTypeArray and qcTypeVector).
THEOREM TypesStayInterned == Spec => []TypesAreInterned
<1>1. Inv => TypesAreInterned
  <2> SUFFICES ASSUME Inv, NEW ts \in TypeSets
               PROVE  LET entries == heap[ts].entries
                      IN  /\ \A i, j \in DOMAIN entries :
                               /\ Shape(entries)[i] = Shape(entries)[j] => i = j
                               /\ entries[i].numBits = ExactBits(entries)[i] % SizeMod
                          /\ \A elem \in TypesOf(ts), n \in Lengths :
                               LET res   == qcTypeArray(entries, elem, n)
                                   entry == res.entries[res.place]
                               IN  /\ entry.kind = "array" /\ entry.elem = elem
                                   /\ entry.n = n
                                   /\ qcTypeArray(res.entries, elem, n) = res
    BY DEF TypesAreInterned
  <2> DEFINE entries == heap[ts].entries
  <2>1. ts \in Address /\ heap[ts].is = "types"
    BY HeapFacts
  <2>2. entries \in Seq(Entries) /\ EntriesOK(ts, entries)
    BY <2>1, TypesOfFacts
  <2>3. \A elem \in TypesOf(ts) : IsElem(ts, entries, elem)
    BY <2>1, TypesOfFacts
  <2>4. \A n \in Lengths : n \in Nat
    BY AstAssumption
  <2> HIDE DEF entries
  <2>5. ASSUME NEW elem \in TypesOf(ts), NEW n \in Lengths
        PROVE  LET res   == qcTypeArray(entries, elem, n)
                   entry == res.entries[res.place]
               IN  /\ entry.kind = "array" /\ entry.elem = elem /\ entry.n = n
                   /\ qcTypeArray(res.entries, elem, n) = res
    <3> DEFINE res == qcTypeArray(entries, elem, n)
    <3>1. res = qcTypeArray(entries, elem, n)
      OBVIOUS
    <3> HIDE DEF res
    <3>2. /\ res.entries[res.place].kind = "array"
          /\ res.entries[res.place].elem = elem
          /\ res.entries[res.place].n = n
          /\ qcTypeArray(res.entries, elem, n) = res
      BY <2>1, <2>2, <2>3, <2>4, <3>1, DerivedFacts
    <3> QED BY <3>1, <3>2
  <2> QED BY <2>1, <2>2, <2>5, ShapesDiffer, SizesAreExact DEF entries
<1> QED BY <1>1, AstInv, PTL
=============================================================================
