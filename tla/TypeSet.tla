------------------------------ MODULE TypeSet ------------------------------
(***************************************************************************)
(* The types of types.cpp, as operators.  The basic types are objects of     *)
(* static storage, so that a record says which one a pointer points to.  The *)
(* derived types of a QC_TypeSet are the entries of its three maps, which    *)
(* never move: they are a sequence of entries, and a type derived in the set *)
(* at address ts is the pair of ts and the place of its entry.              *)
(***************************************************************************)
EXTENDS Integers, Sequences

CONSTANTS
  PtrBits,    \* sizeof(void*) * CHAR_BIT
  MaxIntBits, \* 64, the widest integer type
  SizeMod,    \* 2^64, for numBits
  NoType      \* NULL

ASSUME TypeSetAssumption ==
  /\ MaxIntBits \in Nat \ {0}
  /\ SizeMod \in Nat /\ SizeMod > PtrBits /\ SizeMod > MaxIntBits
  /\ PtrBits \in Nat

-----------------------------------------------------------------------------
\* Basic types.

Basic(kind, format, numBits) ==
  [kind |-> kind, format |-> format, numBits |-> numBits]

qcTypeMeta == Basic("meta", "", PtrBits)
qcTypeVoid == Basic("void", "", 0)
qcTypeBool == Basic("bool", "", 1)

\* The QC_IntFormat, QC_FloatFormat and QC_StringEncoding there are objects of.
IntFormat == {"QC_INT_UNSIGNED", "QC_INT_TWOS_COMPLIMENT"}
Encoding == {"QC_STRING_UTF8", "QC_STRING_UTF16", "QC_STRING_UTF32"}

\* A table of 64 types for each format.
qcTypeInt(format, numBits) ==
  IF numBits \in 1 .. MaxIntBits /\ format \in IntFormat
  THEN Basic("int", format, numBits)
  ELSE NoType

qcTypeFloat(format, numBits) ==
  IF format = "QC_FLOAT_IEEE754" /\ numBits \in {32, 64}
  THEN Basic("float", format, numBits)
  ELSE NoType

qcTypeString(encoding) ==
  IF encoding \in Encoding THEN Basic("string", encoding, PtrBits) ELSE NoType

BasicType ==
  {qcTypeMeta, qcTypeVoid, qcTypeBool}
    \cup {qcTypeInt(f, n) : f \in IntFormat, n \in 1 .. MaxIntBits}
    \cup {qcTypeFloat("QC_FLOAT_IEEE754", n) : n \in {32, 64}}
    \cup {qcTypeString(e) : e \in Encoding}

-----------------------------------------------------------------------------
\* Derived types.

Entry(kind, elem, n, numBits) ==
  [kind |-> kind, elem |-> elem, n |-> n, numBits |-> numBits]

IsDerived(type) == DOMAIN type = {"set", "place"}
DerivedAt(ts, i) == [set |-> ts, place |-> i]

NumBits(entries, type) ==
  IF IsDerived(type) THEN entries[type.place].numBits ELSE type.numBits

\* Mutants.
FoundByElement(entries, kind, elem, n) ==
  {i \in DOMAIN entries : entries[i].kind = kind /\ entries[i].elem = elem}

\* try_emplace: each of the three maps is searched by its own key.
Found(entries, kind, elem, n) ==
  {i \in DOMAIN entries :
     /\ entries[i].kind = kind
     /\ entries[i].elem = elem
     /\ entries[i].n = n}

TryEmplaceType(entries, kind, elem, n, numBits) ==
  LET found == Found(entries, kind, elem, n)
  IN  IF found # {}
      THEN [entries |-> entries, place |-> CHOOSE i \in found : TRUE]
      ELSE [entries |-> Append(entries, Entry(kind, elem, n, numBits)),
            place   |-> Len(entries) + 1]

qcTypePtr(entries, pointed) ==
  TryEmplaceType(entries, "ptr", pointed, 0, PtrBits)

\* The product is of unsigned 64-bit numbers.
qcTypeArray(entries, elementType, n) ==
  TryEmplaceType(entries, "array", elementType, n,
                 (NumBits(entries, elementType) * n) % SizeMod)

qcTypeVector(entries, elementType, n) ==
  TryEmplaceType(entries, "vector", elementType, n,
                 (NumBits(entries, elementType) * n) % SizeMod)

-----------------------------------------------------------------------------
\* Reference: the derivations of a type, the last one first, down to a basic type.
Shape(entries) ==
  LET shape[i \in DOMAIN entries] ==
        <<[kind |-> entries[i].kind, n |-> entries[i].n]>>
          \o (IF IsDerived(entries[i].elem)
              THEN shape[entries[i].elem.place]
              ELSE <<entries[i].elem>>)
  IN  shape

\* Reference: the bits of a type, exact.
ExactBits(entries) ==
  LET bits[i \in DOMAIN entries] ==
        IF entries[i].kind = "ptr" THEN PtrBits
        ELSE entries[i].n * (IF IsDerived(entries[i].elem)
                             THEN bits[entries[i].elem.place]
                             ELSE entries[i].elem.numBits)
  IN  bits
=============================================================================
