----------------------------- MODULE LexerProofs -----------------------------
(***************************************************************************)
(* What holds of qcLex for every set of sources, of any length, and every     *)
(* classification of characters that meets LexerAssumption.                 *)
(***************************************************************************)
EXTENDS Lexer, FiniteSetTheorems, WellFoundedInduction, TLAPS

-----------------------------------------------------------------------------
\* A nonempty set of numbers has a least one.  Induction is not at hand, so it is
\* found through the strict inclusion of the intervals 0 .. x, which the library
\* proves well-founded on finite sets.
LEMMA LeastOfNats ==
  ASSUME NEW S \in SUBSET Nat, S # {}
  PROVE  \E x \in S : \A y \in S : x <= y
<1> DEFINE UpTo == {0 .. x : x \in S}
           Order == StrictSubsetOrdering(Nat)
<1>1. \A x \in S : x \in Nat /\ 0 .. x \in SUBSET Nat /\ IsFiniteSet(0 .. x)
  BY FS_Interval
<1>2. UpTo \subseteq FiniteSubsetsOf(Nat) /\ UpTo # {}
  BY <1>1 DEF FiniteSubsetsOf
<1>3. \E m \in UpTo : \A t \in UpTo : <<t, m>> \notin Order
  <2> HIDE DEF UpTo, Order
  <2> QED BY <1>2, WFMin, FS_StrictSubsetOrderingWellFounded DEF Order
<1>4. PICK x \in S : \A y \in S : <<0 .. y, 0 .. x>> \notin Order
  BY <1>3
<1>5. ASSUME NEW y \in S, y < x PROVE FALSE
  <2>1. 0 .. y \subseteq 0 .. x /\ x \in 0 .. x /\ x \notin 0 .. y
    BY <1>1, <1>5
  <2> QED BY <1>1, <1>4, <2>1 DEF StrictSubsetOrdering
<1> QED BY <1>1, <1>5

\* One with a bound has a greatest one, the farthest from the bound being least.
LEMMA GreatestOfNats ==
  ASSUME NEW S \in SUBSET Nat, S # {}, NEW n \in Nat, \A y \in S : y <= n
  PROVE  \E x \in S : \A y \in S : x >= y
<1> DEFINE Below == {n - y : y \in S}
<1>1. \A y \in S : y \in Nat /\ n - y \in Nat
  OBVIOUS
<1>2. PICK m \in Below : \A k \in Below : m <= k
  <2>1. Below \in SUBSET Nat /\ Below # {}
    BY <1>1
  <2> HIDE DEF Below
  <2> QED BY <2>1, LeastOfNats
<1>3. PICK x \in S : m = n - x
  OBVIOUS
<1>4. \A y \in S : n - x <= n - y
  BY <1>2, <1>3
<1> QED BY <1>1, <1>4

-----------------------------------------------------------------------------
\* A loop over a class stops after the characters of the class that follow.
LEMMA RunEndFacts ==
  ASSUME src \in Seq(Char), NEW it \in 1 .. Len(src) + 1, NEW S
  PROVE  /\ RunEnd(it, S) \in it .. Len(src) + 1
         /\ \A j \in it .. RunEnd(it, S) - 1 : src[j] \in S
         /\ RunEnd(it, S) <= Len(src) => src[RunEnd(it, S)] \notin S
<1> DEFINE Stops == {k \in it .. Len(src) + 1 : ~At(k, S)}
<1>1. Len(src) \in Nat
  OBVIOUS
<1>2. Len(src) + 1 \in Stops /\ Stops \in SUBSET Nat
  BY <1>1 DEF At
<1>3. RunEnd(it, S) \in Stops /\ \A y \in Stops : RunEnd(it, S) <= y
  <2>1. RunEnd(it, S) = CHOOSE x \in Stops : \A y \in Stops : x <= y
    BY DEF RunEnd, Min
  <2> HIDE DEF Stops
  <2> QED BY <2>1, <1>2, LeastOfNats
<1>4. ASSUME NEW j \in it .. RunEnd(it, S) - 1 PROVE src[j] \in S
  <2>1. j \in it .. Len(src) + 1 /\ j < RunEnd(it, S)
    BY <1>1, <1>3
  <2>2. j \notin Stops
    BY <2>1, <1>1, <1>3
  <2> QED BY <2>1, <2>2 DEF At
<1>5. RunEnd(it, S) <= Len(src) => src[RunEnd(it, S)] \notin S
  BY <1>3 DEF At
<1> QED BY <1>3, <1>4, <1>5

\* The last newline before a character, if there is one.
LEMMA LastNewline ==
  ASSUME src \in Seq(Char), NEW k \in 1 .. Len(src) + 1
  PROVE  Max({0} \cup NewlinesBefore(k)) \in 0 .. k - 1
<1> DEFINE N == {0} \cup NewlinesBefore(k)
<1>1. Len(src) \in Nat /\ k \in Nat
  OBVIOUS
<1>2. N \in SUBSET Nat /\ 0 \in N /\ N \subseteq 0 .. k - 1
  BY <1>1 DEF NewlinesBefore
<1>3. \A y \in N : y <= k
  BY <1>1, <1>2
<1>4. Max(N) = CHOOSE x \in N : \A y \in N : x >= y
  BY DEF Max
<1>5. Max(N) \in N
  <2> HIDE DEF N
  <2> QED BY <1>1, <1>2, <1>3, <1>4, GreatestOfNats
<1> QED BY <1>2, <1>5

\* Characters that are no newlines move the location to the right.
LEMMA RightOf ==
  ASSUME src \in Seq(Char),
         NEW k \in 1 .. Len(src) + 1, NEW e \in k .. Len(src) + 1,
         \A j \in k .. e - 1 : src[j] # "\n"
  PROVE  LocationOf(e) = Right(LocationOf(k), e - k)
<1>1. Len(src) \in Nat /\ k \in Nat /\ e \in Nat
  OBVIOUS
<1>2. NewlinesBefore(e) = NewlinesBefore(k)
  BY <1>1 DEF NewlinesBefore
<1>3. Max({0} \cup NewlinesBefore(k)) \in Int
  BY LastNewline
<1> QED BY <1>1, <1>2, <1>3 DEF LocationOf, Right

\* A newline moves it down.
LEMMA DownOf ==
  ASSUME src \in Seq(Char), NEW k \in 1 .. Len(src), src[k] = "\n"
  PROVE  LocationOf(k + 1) = Down(LocationOf(k))
<1>1. Len(src) \in Nat /\ k \in Nat
  OBVIOUS
<1>2. NewlinesBefore(k + 1) = NewlinesBefore(k) \cup {k}
  BY <1>1 DEF NewlinesBefore
<1>3. k \notin NewlinesBefore(k)
  BY <1>1 DEF NewlinesBefore
<1>4. IsFiniteSet(NewlinesBefore(k))
  <2>1. IsFiniteSet(1 .. k - 1)
    BY <1>1, FS_Interval
  <2> QED BY <2>1, FS_Subset DEF NewlinesBefore
<1>5. Cardinality(NewlinesBefore(k + 1)) = Cardinality(NewlinesBefore(k)) + 1
  BY <1>2, <1>3, <1>4, FS_AddElement
<1>6. Max({0} \cup NewlinesBefore(k + 1)) = k
  <2> DEFINE N == {0} \cup NewlinesBefore(k + 1)
  <2>1. N \subseteq 0 .. k /\ k \in N
    BY <1>1, <1>2 DEF NewlinesBefore
  <2>2. \A y \in N : k >= y
    BY <2>1, <1>1
  <2>3. \A x \in N : (\A y \in N : x >= y) => x = k
    <3> HIDE DEF N
    <3> QED BY <2>1, <2>2, <1>1
  <2>4. Max(N) = CHOOSE x \in N : \A y \in N : x >= y
    BY DEF Max
  <2> HIDE DEF N
  <2>5. Max(N) = k
    BY <2>1, <2>2, <2>3, <2>4
  <2> QED BY <2>5 DEF N
<1> QED BY <1>1, <1>5, <1>6 DEF LocationOf, Down

\* A location has the type of the code's.
LEMMA LocationType ==
  ASSUME src \in Seq(Char), NEW k \in 1 .. Len(src) + 1
  PROVE  LocationOf(k) \in Location
<1>1. Len(src) \in Nat /\ k \in Nat
  OBVIOUS
<1>2. IsFiniteSet(NewlinesBefore(k))
  <2>1. IsFiniteSet(1 .. k - 1)
    BY <1>1, FS_Interval
  <2> QED BY <2>1, FS_Subset DEF NewlinesBefore
<1>3. Cardinality(NewlinesBefore(k)) \in Nat
  BY <1>2, FS_CardinalityType
<1> QED BY <1>1, <1>3, LastNewline DEF LocationOf, Location

-----------------------------------------------------------------------------
(* A text of a source s, by the characters of s it is made of.               *)
LEMMA TextFacts ==
  ASSUME NEW s \in Seq(Char), NEW k \in 1 .. Len(s), NEW e \in k .. Len(s)
  PROVE  LET t == SubSeq(s, k, e)
         IN  /\ Len(t) = e - k + 1
             /\ \A i \in 1 .. e - k + 1 : t[i] = s[k + i - 1]
             /\ \A j \in k .. e : t[j - k + 1] = s[j]
             /\ t[1] = s[k] /\ (e > k => t[2] = s[k + 1])
<1> DEFINE t == SubSeq(s, k, e)
<1>1. /\ Len(s) \in Nat /\ k \in Nat /\ e \in Nat /\ k <= e /\ e <= Len(s)
      /\ k \in 1 .. Len(s) + 1 /\ e - k + 1 \in Nat
  OBVIOUS
<1>2. Len(t) = e - k + 1 /\ \A i \in 1 .. e - k + 1 : t[i] = s[k + i - 1]
  BY <1>1
<1> HIDE DEF t
<1>3. ASSUME NEW j \in k .. e PROVE t[j - k + 1] = s[j]
  <2>1. j - k + 1 \in 1 .. e - k + 1 /\ k + (j - k + 1) - 1 = j
    BY <1>1
  <2> QED BY <1>2, <2>1
<1>4. t[1] = s[k] /\ (e > k => t[2] = s[k + 1])
  <2>1. 1 \in 1 .. e - k + 1 /\ k + 1 - 1 = k
    BY <1>1
  <2>2. e > k => 2 \in 1 .. e - k + 1 /\ k + 2 - 1 = k + 1
    BY <1>1
  <2> QED BY <1>2, <2>1, <2>2
<1> QED BY <1>2, <1>3, <1>4 DEF t

LEMMA OverText ==
  ASSUME NEW s \in Seq(Char), NEW k \in 1 .. Len(s), NEW e \in k .. Len(s),
         NEW i \in Nat \ {0}, NEW S
  PROVE  Over(SubSeq(s, k, e), i, S) <=> \A j \in k + i - 1 .. e : s[j] \in S
<1> DEFINE t == SubSeq(s, k, e)
<1>1. /\ Len(t) = e - k + 1 /\ \A j \in 1 .. e - k + 1 : t[j] = s[k + j - 1]
  BY TextFacts
<1>2. Len(s) \in Nat /\ k \in Nat /\ e \in Nat
  OBVIOUS
<1> HIDE DEF t
<1>3. ASSUME Over(t, i, S), NEW j \in k + i - 1 .. e PROVE s[j] \in S
  <2>1. j - k + 1 \in i .. Len(t) /\ j - k + 1 \in 1 .. e - k + 1 /\ k + (j - k + 1) - 1 = j
    BY <1>1, <1>2
  <2> QED BY <1>1, <1>3, <2>1 DEF Over
<1>4. ASSUME \A j \in k + i - 1 .. e : s[j] \in S, NEW m \in i .. Len(t)
      PROVE  t[m] \in S
  <2>1. m \in 1 .. e - k + 1 /\ k + m - 1 \in k + i - 1 .. e
    BY <1>1, <1>2
  <2> QED BY <1>1, <1>4, <2>1
<1> QED BY <1>3, <1>4 DEF Over, t

\* What a text of each kind is made of.
IsFloatAt(s, k, e) ==
  \E p \in k + 1 .. e : s[p] = "." /\ \A j \in (k .. e) \ {p} : s[j] \in isdigit

LEMMA FloatText ==
  ASSUME NEW s \in Seq(Char), NEW k \in 1 .. Len(s), NEW e \in k .. Len(s)
  PROVE  IsFloat(SubSeq(s, k, e)) <=> IsFloatAt(s, k, e)
<1> DEFINE t == SubSeq(s, k, e)
<1>1. /\ Len(t) = e - k + 1 /\ \A j \in 1 .. e - k + 1 : t[j] = s[k + j - 1]
      /\ \A j \in k .. e : t[j - k + 1] = s[j]
  BY TextFacts
<1>2. Len(s) \in Nat /\ k \in Nat /\ e \in Nat
  OBVIOUS
<1> HIDE DEF t
<1>3. ASSUME IsFloat(t) PROVE IsFloatAt(s, k, e)
  <2>1. PICK p \in 2 .. Len(t) :
          t[p] = "." /\ \A j \in (1 .. Len(t)) \ {p} : t[j] \in isdigit
    BY <1>3 DEF IsFloat
  <2>2. k + p - 1 \in k + 1 .. e /\ s[k + p - 1] = "."
    BY <1>1, <1>2, <2>1
  <2>3. ASSUME NEW j \in (k .. e) \ {k + p - 1} PROVE s[j] \in isdigit
    <3>1. j - k + 1 \in (1 .. Len(t)) \ {p} /\ t[j - k + 1] = s[j]
      BY <1>1, <1>2
    <3> QED BY <2>1, <3>1
  <2> QED BY <2>2, <2>3 DEF IsFloatAt
<1>4. ASSUME IsFloatAt(s, k, e) PROVE IsFloat(t)
  <2>1. PICK p \in k + 1 .. e :
          s[p] = "." /\ \A j \in (k .. e) \ {p} : s[j] \in isdigit
    BY <1>4 DEF IsFloatAt
  <2>2. p - k + 1 \in 2 .. Len(t) /\ t[p - k + 1] = "."
    BY <1>1, <1>2, <2>1
  <2>3. ASSUME NEW j \in (1 .. Len(t)) \ {p - k + 1} PROVE t[j] \in isdigit
    <3>1. k + j - 1 \in (k .. e) \ {p} /\ t[j] = s[k + j - 1]
      BY <1>1, <1>2
    <3> QED BY <2>1, <3>1
  <2> QED BY <2>2, <2>3 DEF IsFloat
<1> QED BY <1>3, <1>4 DEF t

-----------------------------------------------------------------------------
(* What the lexing functions return.                                         *)

\* A call fails where the rest cannot be lexed, or returns a token of at least
\* one character and the location after it.
Returns(call) ==
  \/ \E e \in rem .. Len(src) + 1 :
       StopsAt(rem, e) /\ call = Failed(LocationOf(e))
  \/ \E kind \in Kind, e \in rem + 1 .. Len(src) + 1 :
       call = Lexed(kind, e, LocationOf(e))

\* No class that a loop steps over has the newline.
LEMMA NoNewlines ==
  /\ "\n" \notin {"_"} \cup isalnum
  /\ "\n" \notin isdigit
  /\ "\n" \notin isxdigit
  /\ "\n" \notin isblank
  /\ "\n" \notin OpChar \ {",", "#", ";"}
BY LexerAssumption DEF Fixed, isalnum, OpChar

LEMMA QuoteIsNoNewline == Quote # "\n"
BY Zenon DEF Quote

\* A loop over a class returns the location where it stops.
LEMMA LexRunReturns ==
  ASSUME src \in Seq(Char), NEW it \in 1 .. Len(src) + 1,
         NEW S, "\n" \notin S, NEW kind
  PROVE  /\ RunEnd(it, S) \in it .. Len(src) + 1
         /\ \A j \in it .. RunEnd(it, S) - 1 : src[j] \in S
         /\ LexRun(kind, S, it, LocationOf(it))
              = Lexed(kind, RunEnd(it, S), LocationOf(RunEnd(it, S)))
<1>1. /\ RunEnd(it, S) \in it .. Len(src) + 1
      /\ \A j \in it .. RunEnd(it, S) - 1 : src[j] \in S /\ src[j] # "\n"
  BY RunEndFacts
<1>2. LocationOf(RunEnd(it, S)) = Right(LocationOf(it), RunEnd(it, S) - it)
  BY <1>1, RightOf
<1> QED BY <1>1, <1>2 DEF LexRun

\* One character to the right.
LEMMA NextOf ==
  ASSUME src \in Seq(Char), NEW k \in 1 .. Len(src), src[k] # "\n"
  PROVE  LocationOf(k + 1) = Right(LocationOf(k), 1)
<1>1. Len(src) \in Nat /\ k \in Nat
  OBVIOUS
<1>2. /\ k + 1 \in k .. Len(src) + 1 /\ k \in 1 .. Len(src) + 1
      /\ \A j \in k .. (k + 1) - 1 : src[j] # "\n"
      /\ (k + 1) - k = 1
  BY <1>1
<1> QED BY <1>2, RightOf

\* A float after its point, which fails at a second one.
LEMMA FloatReturns ==
  ASSUME src \in Seq(Char), rem \in 1 .. Len(src),
         NEW it \in rem + 2 .. Len(src) + 1, src[it - 1] = ".",
         \A j \in rem .. it - 2 : src[j] \in isdigit
  PROVE  Returns(qcLexFloat(it, LocationOf(it)))
<1> DEFINE e == RunEnd(it, isdigit)
           float == LexRun("FLOAT", isdigit, it, LocationOf(it))
<1>1. Len(src) \in Nat /\ it \in 1 .. Len(src) + 1
  OBVIOUS
<1>2. /\ e \in it .. Len(src) + 1 /\ float = Lexed("FLOAT", e, LocationOf(e))
      /\ \A j \in it .. e - 1 : src[j] \in isdigit
  BY <1>1, LexRunReturns, NoNewlines
<1>3. /\ e \in rem + 1 .. Len(src) + 1 /\ e \in 1 .. Len(src) + 1
      /\ e \in rem .. Len(src) + 1
  BY <1>1, <1>2
<1>4. float.loc = LocationOf(e) /\ float.it = e
  BY <1>2 DEF Lexed
<1> HIDE DEF e, float
<1>5. CASE At(e, {"."})
  <2>1. e \in rem + 1 .. Len(src) /\ src[e] = "."
    BY <1>3, <1>5, <1>1 DEF At
  <2>2. IsFloatAt(src, rem, e - 1)
    <3>1. it - 1 \in rem + 1 .. e - 1
      BY <1>1, <1>2
    <3>2. \A j \in (rem .. e - 1) \ {it - 1} :
            j \in rem .. it - 2 \/ j \in it .. e - 1
      BY <1>1, <1>2
    <3> QED BY <1>2, <3>1, <3>2 DEF IsFloatAt
  <2>3. StopsAt(rem, e)
    <3>1. e - 1 \in rem .. Len(src)
      BY <1>1, <2>1
    <3> QED BY <2>1, <2>2, <3>1, FloatText DEF StopsAt
  <2>4. qcLexFloat(it, LocationOf(it)) = Failed(LocationOf(e))
    BY <1>4, <1>5 DEF qcLexFloat, float
  <2> QED BY <1>3, <2>3, <2>4 DEF Returns
<1>6. CASE ~At(e, {"."})
  <2>1. qcLexFloat(it, LocationOf(it)) = float
    BY <1>4, <1>6 DEF qcLexFloat, float
  <2> QED BY <1>2, <1>3, <2>1 DEF Returns, Kind
<1> QED BY <1>5, <1>6

LEMMA IntReturns ==
  ASSUME src \in Seq(Char), rem \in 1 .. Len(src), src[rem] \in isdigit
  PROVE  Returns(qcLexInt(rem + 1, LocationOf(rem + 1)))
<1> DEFINE it == rem + 1
           e == RunEnd(it, isdigit)
           x == RunEnd(it + 1, isxdigit)
           int == LexRun("INT", isdigit, it, LocationOf(it))
<1>1. Len(src) \in Nat /\ it \in 1 .. Len(src) + 1
  OBVIOUS
<1>2. /\ e \in it .. Len(src) + 1 /\ int = Lexed("INT", e, LocationOf(e))
      /\ \A j \in it .. e - 1 : src[j] \in isdigit
  BY <1>1, LexRunReturns, NoNewlines
<1>3. CASE At(it, {"x", "X"})
  <2>1. it \in 1 .. Len(src) /\ src[it] # "\n"
    BY <1>1, <1>3 DEF At
  <2>2. Right(LocationOf(it), 1) = LocationOf(it + 1)
    BY <2>1, NextOf
  <2>3. it + 1 \in 1 .. Len(src) + 1
    BY <2>1, <1>1
  <2>4. /\ x \in it + 1 .. Len(src) + 1
        /\ qcLexIntHex(it + 1, Right(LocationOf(it), 1))
             = Lexed("INT", x, LocationOf(x))
    BY <2>2, <2>3, LexRunReturns, NoNewlines DEF qcLexIntHex
  <2>5. x \in rem + 1 .. Len(src) + 1
    BY <2>3, <2>4, <1>1
  <2>6. qcLexInt(it, LocationOf(it)) = Lexed("INT", x, LocationOf(x))
    BY <1>3, <2>4 DEF qcLexInt
  <2> HIDE DEF it, e, x, int
  <2>7. Returns(qcLexInt(it, LocationOf(it)))
    BY <2>5, <2>6 DEF Returns, Kind
  <2> QED BY <2>7 DEF it
<1>4. CASE ~At(it, {"x", "X"}) /\ At(e, {"."})
  <2>1. e \in 1 .. Len(src) /\ src[e] # "\n"
    BY <1>1, <1>2, <1>4 DEF At
  <2>2. Right(LocationOf(e), 1) = LocationOf(e + 1)
    BY <2>1, NextOf
  <2>3. /\ e + 1 \in rem + 2 .. Len(src) + 1 /\ src[(e + 1) - 1] = "."
        /\ \A j \in rem .. (e + 1) - 2 : src[j] \in isdigit
    <3>1. src[e] = "." /\ (e + 1) - 1 = e
      BY <2>1, <1>1, <1>4 DEF At
    <3>2. \A j \in rem .. (e + 1) - 2 : j = rem \/ j \in it .. e - 1
      BY <2>1, <1>1
    <3> QED BY <2>1, <1>1, <1>2, <3>1, <3>2
  <2>4. int.it = e /\ int.loc = LocationOf(e)
    BY <1>2 DEF Lexed
  <2>5. qcLexInt(it, LocationOf(it)) = qcLexFloat(e + 1, LocationOf(e + 1))
    <3> HIDE DEF it, e, x
    <3> QED BY <1>4, <2>2, <2>4 DEF qcLexInt
  <2>6. Returns(qcLexFloat(e + 1, LocationOf(e + 1)))
    BY <2>3, FloatReturns
  <2> QED BY <2>5, <2>6
<1>5. CASE ~At(it, {"x", "X"}) /\ ~At(e, {"."})
  <2>1. int.it = e
    BY <1>2 DEF Lexed
  <2>2. qcLexInt(it, LocationOf(it)) = int
    <3> HIDE DEF it, e, x
    <3> QED BY <1>5, <2>1 DEF qcLexInt
  <2> HIDE DEF it, e, x, int
  <2>3. e \in rem + 1 .. Len(src) + 1
    BY <1>2 DEF it
  <2>4. Returns(qcLexInt(it, LocationOf(it)))
    BY <2>2, <2>3, <1>2 DEF Returns, Kind
  <2> QED BY <2>4 DEF it
<1> QED BY <1>3, <1>4, <1>5

\* The classes that are stepped over after the first character.
LEMMA RunReturns ==
  ASSUME src \in Seq(Char), rem \in 1 .. Len(src),
         NEW S, "\n" \notin S, NEW kind \in Kind
  PROVE  Returns(LexRun(kind, S, rem + 1, LocationOf(rem + 1)))
<1>1. Len(src) \in Nat /\ rem + 1 \in 1 .. Len(src) + 1
  OBVIOUS
<1>2. /\ RunEnd(rem + 1, S) \in rem + 1 .. Len(src) + 1
      /\ LexRun(kind, S, rem + 1, LocationOf(rem + 1))
           = Lexed(kind, RunEnd(rem + 1, S), LocationOf(RunEnd(rem + 1, S)))
  BY <1>1, LexRunReturns
<1> QED BY <1>2 DEF Returns

\* Tokens of one character.
LEMMA OneReturns ==
  ASSUME src \in Seq(Char), rem \in 1 .. Len(src), NEW kind \in Kind
  PROVE  Returns(Lexed(kind, rem + 1, LocationOf(rem + 1)))
<1>1. Len(src) \in Nat /\ rem + 1 \in rem + 1 .. Len(src) + 1
  OBVIOUS
<1> QED BY <1>1 DEF Returns

-----------------------------------------------------------------------------
(* The steps.                                                                *)
\* A string is lexed where a quote is.
Inv == TypeOK /\ LocationsAgree /\ (status = "string" => src[rem] = Quote)

\* What holds of every step that a call's end or error makes.
LEMMA ReturnKeeps ==
  ASSUME Inv, status = "lexing", NEW call, Returns(call), Return(call)
  PROVE  Inv' /\ Advance
<1>1. /\ src \in Seq(Char) /\ src' = src /\ Len(src) \in Nat
      /\ rem \in 1 .. Len(src) /\ str = NoStr /\ str' = NoStr
      /\ nextLoc \in Location /\ nextLoc = LocationOf(rem)
  BY LexerAssumption DEF Inv, TypeOK, LocationsAgree, Return
<1>2. ASSUME NEW e \in rem .. Len(src) + 1, StopsAt(rem, e),
             call = Failed(LocationOf(e))
      PROVE  Inv' /\ Advance
  <2>1. /\ nextLoc' = LocationOf(e) /\ status' = "error"
        /\ token' = token /\ rem' = rem
    BY <1>2 DEF Return, Failed
  <2>2. e \in 1 .. Len(src) + 1
    BY <1>1
  <2>3. nextLoc' \in Location
    BY <1>1, <2>1, <2>2, LocationType
  <2>4. TypeOK'
    BY <1>1, <2>1, <2>3 DEF Inv, TypeOK
  <2>5. (LocationOf(token.from))' = LocationOf(token.from)
    BY <1>1, <2>1 DEF LocationOf, NewlinesBefore
  <2>6. (\E k \in rem .. Len(src) + 1 : StopsAt(rem, k) /\ nextLoc = LocationOf(k))'
    BY <1>1, <1>2, <2>1 DEF LocationOf, NewlinesBefore, StopsAt
  <2>7. LocationsAgree'
    BY <2>1, <2>5, <2>6 DEF Inv, LocationsAgree
  <2> QED BY <2>1, <2>4, <2>7 DEF Inv, Advance
<1>3. ASSUME NEW kind \in Kind, NEW e \in rem + 1 .. Len(src) + 1,
             call = Lexed(kind, e, LocationOf(e))
      PROVE  Inv' /\ Advance
  <2>1. /\ nextLoc' = LocationOf(e) /\ rem' = e
        /\ token' = [kind |-> kind, loc |-> nextLoc, from |-> rem, to |-> e - 1]
        /\ status' = IF e > Len(src) THEN "done" ELSE "lexing"
    BY <1>3 DEF Return, Lexed, qcvmLexResult
  <2>2. e \in 1 .. Len(src) + 1 /\ rem \in Nat /\ e - 1 \in Nat
    BY <1>1
  <2>3. token' \in Token
    BY <1>1, <2>1, <2>2 DEF Token
  <2>4. nextLoc' \in Location
    BY <1>1, <2>1, <2>2, LocationType
  <2>5. status' \in {"lexing", "done"} /\ (status' = "lexing" => rem' <= Len(src))
    BY <2>1, <2>2, <1>1
  <2>6. TypeOK'
    BY <1>1, <2>1, <2>2, <2>3, <2>4, <2>5 DEF Inv, TypeOK
  <2>7. (LocationOf(rem))' = LocationOf(e)
    BY <1>1, <2>1 DEF LocationOf, NewlinesBefore
  <2>8. (LocationOf(token.from))' = LocationOf(rem)
    BY <1>1, <2>1 DEF LocationOf, NewlinesBefore
  <2>9. token'.loc = LocationOf(rem)
    BY <1>1, <2>1
  <2>10. LocationsAgree'
    BY <2>1, <2>5, <2>7, <2>8, <2>9 DEF LocationsAgree
  <2>11. Advance
    BY <2>1, <2>2 DEF Advance
  <2> QED BY <2>5, <2>6, <2>10, <2>11 DEF Inv
<1> QED BY <1>2, <1>3 DEF Returns

\* One character of a string, which may be the last or a newline.
LEMMA StrCharKeeps ==
  ASSUME Inv, StrChar
  PROVE  Inv' /\ Advance
<1> DEFINE ch == src[str.it]
           next == IF ch = "\n" THEN Down(nextLoc) ELSE Right(nextLoc, 1)
<1>1. /\ src \in Seq(Char) /\ src' = src /\ Len(src) \in Nat
      /\ rem \in 1 .. Len(src) /\ status = "string"
      /\ str \in Str /\ str.it \in rem + 1 .. Len(src)
      /\ str.startLoc \in Location /\ str.startLoc = LocationOf(rem)
      /\ nextLoc = LocationOf(str.it)
      /\ token \in Token \cup {NoToken}
      /\ token # NoToken => token.loc = LocationOf(token.from)
      /\ nextLoc' = next
  BY LexerAssumption DEF Inv, TypeOK, LocationsAgree, StrChar, Str
<1>2. str.it \in 1 .. Len(src) /\ str.it + 1 \in 1 .. Len(src) + 1
  BY <1>1
<1>3. next = LocationOf(str.it + 1)
  BY <1>1, <1>2, NextOf, DownOf
<1>4. nextLoc' \in Location
  BY <1>1, <1>2, <1>3, LocationType
<1>5. CASE ch = Quote /\ ~str.escaped
  <2>1. /\ str' = NoStr /\ rem' = str.it + 1
        /\ token' = [kind |-> "STR", loc |-> str.startLoc,
                     from |-> rem, to |-> rem' - 1]
        /\ status' = IF rem' > Len(src) THEN "done" ELSE "lexing"
    BY <1>5 DEF StrChar, qcvmLexResult
  <2>2. rem' \in 1 .. Len(src) + 1 /\ rem' - 1 \in Nat /\ rem \in Nat /\ rem < rem'
    BY <1>1, <2>1
  <2>3. token' \in Token
    BY <1>1, <2>1, <2>2 DEF Token, Kind
  <2>4. status' \in {"lexing", "done"} /\ (status' = "lexing" => rem' <= Len(src))
    BY <2>1, <2>2, <1>1
  <2>5. TypeOK'
    BY <1>1, <1>4, <2>1, <2>2, <2>3, <2>4 DEF Inv, TypeOK
  <2>6. (LocationOf(rem))' = LocationOf(str.it + 1)
    BY <1>1, <2>1 DEF LocationOf, NewlinesBefore
  <2>7. (LocationOf(token.from))' = LocationOf(rem)
    BY <1>1, <2>1 DEF LocationOf, NewlinesBefore
  <2>8. token'.loc = LocationOf(rem)
    BY <1>1, <2>1
  <2>9. LocationsAgree'
    <3> HIDE DEF next
    <3> QED BY <1>1, <1>3, <2>4, <2>6, <2>7, <2>8 DEF LocationsAgree
  <2>10. Advance
    BY <2>1, <2>2 DEF Advance
  <2> QED BY <2>4, <2>5, <2>9, <2>10 DEF Inv
<1>6. CASE ~(ch = Quote /\ ~str.escaped)
  <2> DEFINE escaped == \/ ch = "\n" /\ str.escaped
                        \/ ch = "\\" /\ ~str.escaped
  <2>a. /\ rem' = rem /\ token' = token /\ status' = status
        /\ str' = [it |-> str.it + 1, escaped |-> escaped,
                   startLoc |-> str.startLoc]
    BY <1>6 DEF StrChar
  <2>b. escaped \in BOOLEAN
    BY Zenon
  <2>1. /\ rem' = rem /\ token' = token /\ status' = status
        /\ str'.it = str.it + 1 /\ str'.startLoc = str.startLoc
        /\ str' \in Str
    <3> HIDE DEF escaped
    <3> QED BY <2>a, <2>b, <1>1, <1>2 DEF Str
  <2>2. str'.it \in rem' + 1 .. Len(src) + 1
    BY <1>1, <2>1
  <2>3. TypeOK'
    BY <1>1, <1>4, <2>1, <2>2 DEF Inv, TypeOK
  <2>4. (LocationOf(str.it))' = LocationOf(str.it + 1)
    BY <1>1, <2>1 DEF LocationOf, NewlinesBefore
  <2>5. (LocationOf(rem))' = LocationOf(rem)
    BY <1>1, <2>1 DEF LocationOf, NewlinesBefore
  <2>6. (LocationOf(token.from))' = LocationOf(token.from)
    BY <1>1, <2>1 DEF LocationOf, NewlinesBefore
  <2>7. LocationsAgree'
    <3> HIDE DEF next
    <3> QED BY <1>1, <1>3, <2>1, <2>4, <2>5, <2>6 DEF LocationsAgree
  <2>8. Advance
    BY <1>1, <2>1 DEF Advance
  <2> QED BY <1>1, <2>1, <2>3, <2>7, <2>8 DEF Inv
<1> QED BY <1>5, <1>6

\* A string begins.
LEMMA LexStrKeeps ==
  ASSUME Inv, LexStr
  PROVE  Inv' /\ Advance
<1>1. /\ src \in Seq(Char) /\ src' = src /\ Len(src) \in Nat
      /\ rem \in 1 .. Len(src) /\ src[rem] = Quote
      /\ nextLoc \in Location /\ nextLoc = LocationOf(rem)
      /\ nextLoc' = Right(nextLoc, 1)
      /\ rem' = rem /\ token' = token
      /\ status = "lexing" /\ status' = "string"
      /\ str' = [it |-> rem + 1, escaped |-> FALSE, startLoc |-> nextLoc]
  BY LexerAssumption DEF Inv, TypeOK, LocationsAgree, LexStr, Call, Next1
<1>2. rem + 1 \in 1 .. Len(src) + 1
  BY <1>1
<1>3. nextLoc' = LocationOf(rem + 1)
  BY <1>1, NextOf, QuoteIsNoNewline
<1>4. nextLoc' \in Location
  BY <1>1, <1>2, <1>3, LocationType
<1>5. str' \in Str /\ str'.it \in rem' + 1 .. Len(src) + 1
  BY <1>1, <1>2 DEF Str
<1>6. TypeOK'
  BY <1>1, <1>4, <1>5 DEF Inv, TypeOK
<1>7. (LocationOf(str.it))' = LocationOf(rem + 1)
  BY <1>1 DEF LocationOf, NewlinesBefore
<1>8. (LocationOf(rem))' = LocationOf(rem)
  BY <1>1 DEF LocationOf, NewlinesBefore
<1>9. (LocationOf(token.from))' = LocationOf(token.from)
  BY <1>1 DEF LocationOf, NewlinesBefore
<1>10. LocationsAgree'
  BY <1>1, <1>3, <1>7, <1>8, <1>9 DEF Inv, LocationsAgree
<1>11. Advance
  BY <1>1 DEF Advance
<1> QED BY <1>1, <1>6, <1>10, <1>11 DEF Inv

\* An operator, a comma on its own or a run.
LEMMA OpReturns ==
  ASSUME src \in Seq(Char), rem \in 1 .. Len(src)
  PROVE  Returns(qcLexOp(rem + 1, LocationOf(rem + 1)))
<1> DEFINE S == OpChar \ {",", "#", ";"}
<1>1. /\ Returns(Lexed("OP", rem + 1, LocationOf(rem + 1)))
      /\ Returns(LexRun("OP", S, rem + 1, LocationOf(rem + 1)))
  <2>1. "\n" \notin S
    BY NoNewlines
  <2> HIDE DEF S
  <2>2. "OP" \in Kind
    BY DEF Kind
  <2> QED BY <2>1, <2>2, OneReturns, RunReturns
<1>2. qcLexOp(rem + 1, LocationOf(rem + 1))
        \in {Lexed("OP", rem + 1, LocationOf(rem + 1)),
            LexRun("OP", S, rem + 1, LocationOf(rem + 1))}
  BY DEF qcLexOp
<1> HIDE DEF S
<1> QED BY <1>1, <1>2

LEMMA NextKeeps ==
  ASSUME Inv, Next
  PROVE  Inv' /\ Advance
<1>1. /\ src \in Seq(Char) /\ rem \in 1 .. Len(src) + 1 /\ Len(src) \in Nat
      /\ nextLoc \in Location
      /\ status = "lexing" => rem \in 1 .. Len(src) /\ nextLoc = LocationOf(rem)
  BY LexerAssumption DEF Inv, TypeOK, LocationsAgree
<1>2. ASSUME NEW S, Call(S), "\n" \notin S PROVE Next1 = LocationOf(rem + 1)
  <2>1. status = "lexing" /\ src[rem] # "\n"
    BY <1>2 DEF Call
  <2> QED BY <1>1, <2>1, NextOf DEF Next1
<1>3. CASE LexNewline
  <2>1. status = "lexing" /\ src[rem] = "\n"
    BY <1>3 DEF LexNewline, Call
  <2>2. Down(nextLoc) = LocationOf(rem + 1)
    BY <1>1, <2>1, DownOf
  <2>3. Returns(Lexed("NEWLINE", rem + 1, Down(nextLoc)))
    BY <1>1, <2>1, <2>2, OneReturns DEF Kind
  <2> QED BY <1>3, <2>1, <2>3, ReturnKeeps DEF LexNewline
<1>4. CASE LexBracket
  <2>1. Call(Bracket) /\ "\n" \notin Bracket /\ status = "lexing"
    BY <1>4 DEF LexBracket, Bracket, Call
  <2>2. Next1 = LocationOf(rem + 1)
    BY <2>1, <1>2
  <2>3. Returns(Lexed("BRACKET", rem + 1, Next1))
    BY <1>1, <2>1, <2>2, OneReturns DEF Kind
  <2> QED BY <1>4, <2>1, <2>3, ReturnKeeps DEF LexBracket
<1>5. CASE LexOp
  <2>1. Call(OpChar) /\ "\n" \notin OpChar /\ status = "lexing"
    BY <1>5 DEF LexOp, OpChar, Call
  <2>2. Next1 = LocationOf(rem + 1)
    BY <2>1, <1>2
  <2>3. Returns(qcLexOp(rem + 1, Next1))
    BY <1>1, <2>1, <2>2, OpReturns
  <2> QED BY <1>5, <2>1, <2>3, ReturnKeeps DEF LexOp
<1>6. CASE LexSpace
  <2>1. Call(isblank) /\ status = "lexing"
    BY <1>6 DEF LexSpace, Call
  <2>2. Next1 = LocationOf(rem + 1)
    BY <2>1, <1>2, NoNewlines
  <2>3. Returns(LexRun("SPACE", isblank, rem + 1, Next1))
    BY <1>1, <2>1, <2>2, NoNewlines, RunReturns DEF Kind
  <2> QED BY <1>6, <2>1, <2>3, ReturnKeeps DEF LexSpace
<1>7. CASE LexId
  <2>1. Call({"_", "$"} \cup isalpha) /\ status = "lexing"
    BY <1>7 DEF LexId, Call
  <2>2. "\n" \notin {"_", "$"} \cup isalpha
    BY NoNewlines DEF isalnum
  <2>3. Next1 = LocationOf(rem + 1)
    BY <2>1, <2>2, <1>2
  <2>4. Returns(qcLexId(rem + 1, Next1))
    BY <1>1, <2>1, <2>3, NoNewlines, RunReturns DEF Kind, qcLexId
  <2> QED BY <1>7, <2>1, <2>4, ReturnKeeps DEF LexId
<1>8. CASE LexNumber
  <2>1. Call(isdigit) /\ status = "lexing"
    BY <1>8 DEF LexNumber, Call
  <2>2. Next1 = LocationOf(rem + 1)
    BY <2>1, <1>2, NoNewlines
  <2>3. Returns(qcLexInt(rem + 1, Next1))
    BY <1>1, <2>1, <2>2, IntReturns DEF Call
  <2> QED BY <1>8, <2>1, <2>3, ReturnKeeps DEF LexNumber
<1>9. CASE LexUnknown
  <2>1. status = "lexing"
    BY <1>9 DEF LexUnknown, Call
  <2>2. StopsAt(rem, rem) /\ rem \in rem .. Len(src) + 1
    BY <1>1, <1>9, <2>1 DEF LexUnknown, Call, StopsAt
  <2>3. Returns(Failed(nextLoc))
    BY <1>1, <2>1, <2>2 DEF Returns
  <2> QED BY <1>9, <2>1, <2>3, ReturnKeeps DEF LexUnknown
<1>10. CASE LexStr
  BY <1>10, LexStrKeeps
<1>11. CASE StrChar
  BY <1>11, StrCharKeeps
<1>12. CASE StrUnterminated
  <2>1. /\ status = "string" /\ status' = "error" /\ str' = NoStr
        /\ src' = src /\ rem' = rem /\ nextLoc' = nextLoc /\ token' = token
    BY <1>12 DEF StrUnterminated
  <2>2. TypeOK'
    BY <2>1 DEF Inv, TypeOK
  <2>3. /\ str.it \in rem .. Len(src) + 1 /\ nextLoc = LocationOf(str.it)
        /\ StopsAt(rem, str.it)
    <3>1. /\ str.it \in rem + 1 .. Len(src) + 1 /\ str.it > Len(src)
          /\ nextLoc = LocationOf(str.it) /\ src[rem] = Quote
      BY <1>12, <2>1 DEF Inv, TypeOK, LocationsAgree, StrUnterminated
    <3> QED BY <1>1, <3>1 DEF StopsAt
  <2>4. (\E k \in rem .. Len(src) + 1 : StopsAt(rem, k) /\ nextLoc = LocationOf(k))'
    BY <2>1, <2>3 DEF LocationOf, NewlinesBefore, StopsAt
  <2>5. (LocationOf(token.from))' = LocationOf(token.from)
    BY <2>1 DEF LocationOf, NewlinesBefore
  <2>6. LocationsAgree'
    BY <2>1, <2>4, <2>5 DEF Inv, LocationsAgree
  <2> QED BY <2>1, <2>2, <2>6 DEF Inv, Advance
<1> QED
  BY <1>3, <1>4, <1>5, <1>6, <1>7, <1>8, <1>9, <1>10, <1>11, <1>12 DEF Next

LEMMA InitInv == Init => Inv
<1> SUFFICES ASSUME Init PROVE Inv
  OBVIOUS
<1>1. src \in Seq(Char) /\ Len(src) \in Nat
  BY LexerAssumption DEF Init
<1>2. TypeOK
  <2>1. src = <<>> \/ Len(src) >= 1
    BY <1>1
  <2> QED BY <1>1, <2>1 DEF Init, TypeOK, Location, Start
<1>3. LocationOf(1) = Start
  <2>1. NewlinesBefore(1) = {}
    BY DEF NewlinesBefore
  <2>2. Max({0} \cup NewlinesBefore(1)) \in 0 .. 0
    BY <1>1, LastNewline
  <2>3. Cardinality(NewlinesBefore(1)) = 0
    BY <2>1, FS_EmptySet
  <2> QED BY <2>2, <2>3 DEF LocationOf, Start
<1>4. LocationsAgree
  BY <1>3 DEF Init, LocationsAgree
<1> QED BY <1>2, <1>4 DEF Init, Inv

LEMMA StutterKeeps == Inv /\ UNCHANGED vars => Inv'
BY DEF Inv, TypeOK, LocationsAgree, StopsAt, vars, LocationOf, NewlinesBefore

LEMMA InvAlways == Spec => []Inv
<1>1. Inv /\ [Next]_vars => Inv'
  BY NextKeeps, StutterKeeps
<1> QED BY InitInv, <1>1, PTL DEF Spec

\* Type correctness, with the rest never leaving the source (lex.cpp:14-15
\* subtract pointers).
THEOREM LexerTyped == Spec => []TypeOK
<1>1. Inv => TypeOK
  BY DEF Inv
<1> QED BY <1>1, InvAlways, PTL

\* The locations of the rest, of a string and of every token are those of the
\* characters they are about, and that of an error is where lexing stopped, for
\* every source.
THEOREM LocationsStayRight == Spec => []LocationsAgree
<1>1. Inv => LocationsAgree
  BY DEF Inv
<1> QED BY <1>1, InvAlways, PTL

\* No call stays where it is or loses a character: what makes the caller's loop
\* end.
THEOREM LexerAdvances == Spec => Advances
<1>1. Inv /\ [Next]_vars => Inv' /\ [Advance]_vars
  BY NextKeeps, StutterKeeps
<1>2. Spec => [][Advance]_vars
  BY InitInv, <1>1, PTL DEF Spec
<1> QED BY <1>2 DEF Advances

-----------------------------------------------------------------------------
(* Tokens as texts of a source s, by the characters of s they are made of.   *)
LEMMA TokenText ==
  ASSUME NEW s \in Seq(Char), NEW k \in 1 .. Len(s), NEW e \in k .. Len(s)
  PROVE  LET t == SubSeq(s, k, e)
             runs(i, S) == \A j \in k + i .. e : s[j] \in S
         IN  /\ IsA("SPACE", t) <=> runs(0, isblank)
             /\ IsA("NEWLINE", t) <=> e = k /\ s[k] = "\n"
             /\ IsA("ID", t) <=> /\ s[k] \in {"_", "$"} \cup isalpha
                                 /\ runs(1, {"_"} \cup isalnum)
             /\ IsA("INT", t) <=>
                  /\ s[k] \in isdigit
                  /\ \/ runs(1, isdigit)
                     \/ e > k /\ s[k + 1] \in {"x", "X"} /\ runs(2, isxdigit)
             /\ IsA("FLOAT", t) <=> IsFloatAt(s, k, e)
             /\ IsA("STR", t) <=> IsStr(t)
             /\ IsA("OP", t) <=>
                  \/ e = k /\ s[k] = ","
                  \/ s[k] \in OpChar \ {","} /\ runs(1, OpChar \ {",", "#", ";"})
             /\ IsA("BRACKET", t) <=> e = k /\ s[k] \in Bracket
<1> DEFINE t == SubSeq(s, k, e)
           runs(i, S) == \A j \in k + i .. e : s[j] \in S
<1>1. /\ Len(t) = e - k + 1 /\ t[1] = s[k] /\ (e > k => t[2] = s[k + 1])
      /\ Len(s) \in Nat /\ k \in Nat /\ e \in Nat /\ e >= k /\ t \in Seq(Char)
  <2>1. \A j \in k .. e : s[j] \in Char
    OBVIOUS
  <2> QED BY TextFacts
<1>2. \A S : /\ Over(t, 1, S) <=> runs(0, S)
             /\ Over(t, 2, S) <=> runs(1, S)
             /\ Over(t, 3, S) <=> runs(2, S)
  <2>1. k + 1 - 1 = k + 0 /\ k + 2 - 1 = k + 1 /\ k + 3 - 1 = k + 2
    BY <1>1
  <2>2. \A i \in Nat \ {0} : \A S : Over(t, i, S) <=> \A j \in k + i - 1 .. e : s[j] \in S
    BY OverText
  <2>3. 1 \in Nat \ {0} /\ 2 \in Nat \ {0} /\ 3 \in Nat \ {0}
    OBVIOUS
  <2> HIDE DEF t
  <2> QED BY <2>1, <2>2, <2>3
<1>3. \A c : t = <<c>> <=> e = k /\ s[k] = c
  <2> HIDE DEF t
  <2>1. \A c : t = <<c>> => Len(t) = 1 /\ t[1] = c
    OBVIOUS
  <2>2. \A c : Len(t) = 1 /\ t[1] = c => t = <<c>>
    BY <1>1
  <2> QED BY <1>1, <2>1, <2>2
<1>4. IsA("FLOAT", t) <=> IsFloatAt(s, k, e)
  BY FloatText DEF IsA
<1> HIDE DEF t, runs
<1>5. /\ IsA("SPACE", t) <=> runs(0, isblank)
      /\ IsA("NEWLINE", t) <=> e = k /\ s[k] = "\n"
      /\ IsA("ID", t) <=> /\ s[k] \in {"_", "$"} \cup isalpha
                          /\ runs(1, {"_"} \cup isalnum)
      /\ IsA("STR", t) <=> IsStr(t)
  BY <1>1, <1>2, <1>3 DEF IsA
<1>6. IsA("INT", t) <=>
        /\ s[k] \in isdigit
        /\ \/ runs(1, isdigit)
           \/ e > k /\ s[k + 1] \in {"x", "X"} /\ runs(2, isxdigit)
  <2>1. e = k => runs(1, isdigit)
    BY <1>1 DEF runs
  <2>2. e > k \/ e = k
    BY <1>1
  <2>3. IsA("INT", t) <=> /\ t[1] \in isdigit
                          /\ \/ Over(t, 2, isdigit)
                             \/ t[2] \in {"x", "X"} /\ Over(t, 3, isxdigit)
    BY DEF IsA
  <2> QED BY <1>1, <1>2, <2>1, <2>2, <2>3
<1>7. IsA("OP", t) <=>
        \/ e = k /\ s[k] = ","
        \/ s[k] \in OpChar \ {","} /\ runs(1, OpChar \ {",", "#", ";"})
  <2>1. IsA("OP", t) <=> IsOp(t)
    BY DEF IsA
  <2> QED BY <1>1, <1>2, <1>3, <2>1 DEF IsOp
<1>8. IsA("BRACKET", t) <=> e = k /\ s[k] \in Bracket
  <2>1. IsA("BRACKET", t) <=> Len(t) = 1 /\ t[1] \in Bracket
    BY DEF IsA
  <2> QED BY <1>1, <2>1
<1> QED BY <1>4, <1>5, <1>6, <1>7, <1>8 DEF t, runs

\* Brackets and newlines are texts of one character.
LEMMA OneText ==
  ASSUME NEW s \in Seq(Char), NEW k \in 1 .. Len(s), NEW e \in k .. Len(s)
  PROVE  /\ IsA("NEWLINE", SubSeq(s, k, e)) => e = k
         /\ IsA("BRACKET", SubSeq(s, k, e)) => e = k
<1> DEFINE t == SubSeq(s, k, e)
<1>1. Len(t) = e - k + 1 /\ k \in Nat /\ e \in Nat /\ e >= k
  BY TextFacts
<1> HIDE DEF t
<1>2. /\ IsA("NEWLINE", t) => t = <<"\n">>
      /\ IsA("BRACKET", t) => Len(t) = 1
  BY DEF IsA
<1>3. t = <<"\n">> => Len(t) = 1
  OBVIOUS
<1>4. Len(t) = 1 => e = k
  <2>1. e > k => Len(t) > 1
    BY <1>1
  <2>2. ~(e > k) => e = k
    BY <1>1
  <2> QED BY <2>1, <2>2
<1> QED BY <1>2, <1>3, <1>4 DEF t

-----------------------------------------------------------------------------
(* What begins at a character of a source.                                   *)

\* The token of that kind from k to e is the longest there, and no error is.
LongestAt(s, kind, k, e) ==
  /\ IsA(kind, SubSeq(s, k, e))
  /\ \A d \in e + 1 .. Len(s) : ~IsToken(SubSeq(s, k, d))

WrongAt(s, k) ==
  \/ \A e \in k .. Len(s) : ~IsToken(SubSeq(s, k, e))
  \/ \E e \in k + 1 .. Len(s) : s[e] = "." /\ IsFloat(SubSeq(s, k, e - 1))

Begins(s, kind, k, e) == LongestAt(s, kind, k, e) /\ ~WrongAt(s, k)

LEMMA QuoteIsAlone ==
  /\ Quote \notin OpChar \cup Bracket \cup {"\n", "\\", "_", "$", "."}
  /\ Quote \notin isalpha \cup isdigit \cup isblank
<1>1. Quote \notin OpChar \cup Bracket \cup {"\n", "\\", "_", "$", "."}
  BY Zenon DEF Quote, OpChar, Bracket
<1>2. Quote \in Fixed
  BY DEF Fixed
<1> QED BY <1>1, <1>2, LexerAssumption

\* The first character says of which kind a token is, but for numbers.
KindsFrom(c) ==
  {kind \in Kind :
     \/ kind = "SPACE" /\ c \in isblank
     \/ kind = "NEWLINE" /\ c = "\n"
     \/ kind = "ID" /\ c \in {"_", "$"} \cup isalpha
     \/ kind \in {"INT", "FLOAT"} /\ c \in isdigit
     \/ kind = "STR" /\ c = Quote
     \/ kind = "OP" /\ c \in OpChar
     \/ kind = "BRACKET" /\ c \in Bracket}

LEMMA KindsAre ==
  ASSUME NEW c
  PROVE  /\ c \in isblank => KindsFrom(c) = {"SPACE"}
         /\ c = "\n" => KindsFrom(c) = {"NEWLINE"}
         /\ c \in {"_", "$"} \cup isalpha => KindsFrom(c) = {"ID"}
         /\ c \in isdigit => KindsFrom(c) = {"INT", "FLOAT"}
         /\ c = Quote => KindsFrom(c) = {"STR"}
         /\ c \in OpChar => KindsFrom(c) = {"OP"}
         /\ c \in Bracket => KindsFrom(c) = {"BRACKET"}
         /\ c \notin First => KindsFrom(c) = {}
<1>1. /\ c \in Fixed => c \notin isalpha \cup isdigit \cup isblank
      /\ c \in isblank => c \notin isalpha \cup isdigit
      /\ c \in isalpha => c \notin isdigit
  BY LexerAssumption
<1>2. c \in OpChar \cup Bracket \cup {"\n", "_", "$", Quote} => c \in Fixed
  BY DEF Fixed
<1>3. /\ OpChar \cap Bracket = {}
      /\ {"\n", "_", "$"} \cap (OpChar \cup Bracket) = {}
      /\ Quote \notin OpChar \cup Bracket \cup {"\n", "_", "$"}
  BY QuoteIsAlone DEF OpChar, Bracket
<1> HIDE DEF Quote, OpChar, Bracket
<1> QED BY <1>1, <1>2, <1>3 DEF KindsFrom, Kind, First

LEMMA KindIsFrom ==
  ASSUME NEW s \in Seq(Char), NEW k \in 1 .. Len(s), NEW e \in k .. Len(s),
         NEW kind \in Kind, IsA(kind, SubSeq(s, k, e))
  PROVE  kind \in KindsFrom(s[k])
<1> DEFINE t == SubSeq(s, k, e)
<1>1. t[1] = s[k] /\ Len(s) \in Nat /\ k \in Nat /\ e \in Nat /\ k <= e
  BY TextFacts
<1>2. /\ IsA("SPACE", t) => \A j \in k + 0 .. e : s[j] \in isblank
      /\ IsA("NEWLINE", t) => s[k] = "\n"
      /\ IsA("ID", t) => s[k] \in {"_", "$"} \cup isalpha
      /\ IsA("INT", t) => s[k] \in isdigit
      /\ IsA("FLOAT", t) => IsFloatAt(s, k, e)
      /\ IsA("STR", t) => IsStr(t)
      /\ IsA("OP", t) => s[k] = "," \/ s[k] \in OpChar \ {","}
      /\ IsA("BRACKET", t) => s[k] \in Bracket
  BY TokenText
<1>3. IsA("SPACE", t) => s[k] \in isblank
  <2>1. k \in k + 0 .. e
    BY <1>1
  <2> HIDE DEF t
  <2> QED BY <2>1, <1>2
<1>4. IsA("FLOAT", t) => s[k] \in isdigit
  <2>1. \A p \in k + 1 .. e : k \in (k .. e) \ {p}
    BY <1>1
  <2>2. IsFloatAt(s, k, e) => s[k] \in isdigit
    BY <2>1 DEF IsFloatAt
  <2> HIDE DEF t
  <2> QED BY <2>2, <1>2
<1>5. IsA("STR", t) => s[k] = Quote
  BY <1>1, <1>2 DEF IsStr
<1>6. IsA("OP", t) => s[k] \in OpChar
  BY <1>2 DEF OpChar
<1> HIDE DEF t
<1>7. kind \in {"SPACE", "NEWLINE", "ID", "INT", "FLOAT", "STR", "OP", "BRACKET"}
  BY DEF Kind
<1>8. IsA(kind, t)
  BY DEF t
<1> QED BY <1>2, <1>3, <1>4, <1>5, <1>6, <1>7, <1>8 DEF KindsFrom

\* A token that begins with no digit is not wrong.
LEMMA OnlyFloatsAreWrong ==
  ASSUME NEW s \in Seq(Char), NEW k \in 1 .. Len(s), NEW e \in k .. Len(s),
         NEW kind \in Kind, LongestAt(s, kind, k, e), s[k] \notin isdigit
  PROVE  Begins(s, kind, k, e)
<1>1. IsToken(SubSeq(s, k, e))
  BY DEF LongestAt, IsToken
<1>2. ASSUME NEW d \in k + 1 .. Len(s), IsFloat(SubSeq(s, k, d - 1)) PROVE FALSE
  <2>1. d - 1 \in k .. Len(s) /\ k \in k .. d - 1 /\ k \in Nat
    OBVIOUS
  <2>2. IsFloatAt(s, k, d - 1)
    BY <1>2, <2>1, FloatText
  <2> QED BY <2>1, <2>2 DEF IsFloatAt
<1> QED BY <1>1, <1>2 DEF Begins, WrongAt

\* A token whose characters after the first are those of a class ends where a
\* loop over the class stops; the class is empty for a token of one character.
LEMMA RunIsLongest ==
  ASSUME NEW s \in Seq(Char), NEW k \in 1 .. Len(s), s[k] \notin isdigit,
         NEW kind \in Kind, KindsFrom(s[k]) = {kind}, NEW S,
         \A d \in k .. Len(s) :
           IsA(kind, SubSeq(s, k, d)) <=> \A j \in k + 1 .. d : s[j] \in S,
         NEW r \in k + 1 .. Len(s) + 1,
         \A j \in k + 1 .. r - 1 : s[j] \in S,
         r <= Len(s) => s[r] \notin S
  PROVE  Begins(s, kind, k, r - 1)
<1>1. Len(s) \in Nat /\ k \in Nat /\ r - 1 \in k .. Len(s)
  OBVIOUS
<1>2. IsA(kind, SubSeq(s, k, r - 1))
  BY <1>1
<1>3. ASSUME NEW d \in r - 1 + 1 .. Len(s), IsToken(SubSeq(s, k, d)) PROVE FALSE
  <2>1. d \in k .. Len(s) /\ r \in k + 1 .. d /\ r <= Len(s)
    BY <1>1
  <2>2. PICK q \in Kind : IsA(q, SubSeq(s, k, d))
    BY <1>3 DEF IsToken
  <2>3. q = kind
    BY <2>1, <2>2, KindIsFrom
  <2> QED BY <2>1, <2>2, <2>3
<1> QED BY <1>1, <1>2, <1>3, OnlyFloatsAreWrong DEF LongestAt

\* What begins with a digit is an integer or a float.
LEMMA NumberTokens ==
  ASSUME NEW s \in Seq(Char), NEW k \in 1 .. Len(s), s[k] \in isdigit,
         NEW e \in k .. Len(s)
  PROVE  IsToken(SubSeq(s, k, e)) <=>
           \/ IsFloatAt(s, k, e)
           \/ \A j \in k + 1 .. e : s[j] \in isdigit
           \/ /\ e > k /\ s[k + 1] \in {"x", "X"}
              /\ \A j \in k + 2 .. e : s[j] \in isxdigit
<1> DEFINE t == SubSeq(s, k, e)
<1>1. KindsFrom(s[k]) = {"INT", "FLOAT"}
  BY KindsAre
<1>2. IsToken(t) <=> IsA("INT", t) \/ IsA("FLOAT", t)
  BY <1>1, KindIsFrom DEF IsToken, Kind
<1>3. /\ IsA("INT", t) <=>
           /\ s[k] \in isdigit
           /\ \/ \A j \in k + 1 .. e : s[j] \in isdigit
              \/ /\ e > k /\ s[k + 1] \in {"x", "X"}
                 /\ \A j \in k + 2 .. e : s[j] \in isxdigit
      /\ IsA("FLOAT", t) <=> IsFloatAt(s, k, e)
  BY TokenText
<1> HIDE DEF t
<1> QED BY <1>2, <1>3 DEF t

\* A hexadecimal number is no float, and its digits go on as far as they can.
LEMMA HexBegins ==
  ASSUME NEW s \in Seq(Char), NEW k \in 1 .. Len(s), s[k] \in isdigit,
         k + 1 <= Len(s), s[k + 1] \in {"x", "X"},
         NEW r \in k + 2 .. Len(s) + 1,
         \A j \in k + 2 .. r - 1 : s[j] \in isxdigit,
         r <= Len(s) => s[r] \notin isxdigit
  PROVE  Begins(s, "INT", k, r - 1)
<1>1. Len(s) \in Nat /\ k \in Nat /\ r - 1 \in k .. Len(s) /\ r - 1 > k
  OBVIOUS
<1>2. s[k + 1] \notin isdigit /\ s[k + 1] # "."
  BY LexerAssumption
<1>3. ASSUME NEW e \in k .. Len(s), IsFloatAt(s, k, e) PROVE FALSE
  <2>1. PICK p \in k + 1 .. e :
          s[p] = "." /\ \A j \in (k .. e) \ {p} : s[j] \in isdigit
    BY <1>3 DEF IsFloatAt
  <2>2. k + 1 \in k .. e /\ p # k + 1
    BY <1>1, <1>2, <2>1
  <2> QED BY <2>1, <2>2, <1>2
<1>4. IsA("INT", SubSeq(s, k, r - 1))
  BY <1>1, TokenText
<1>5. ASSUME NEW d \in r - 1 + 1 .. Len(s), IsToken(SubSeq(s, k, d)) PROVE FALSE
  <2>1. d \in k .. Len(s) /\ k + 1 \in k + 1 .. d /\ r \in k + 2 .. d /\ r <= Len(s)
    BY <1>1
  <2> QED BY <2>1, <1>2, <1>3, <1>5, NumberTokens
<1>6. ASSUME NEW d \in k + 1 .. Len(s), IsFloat(SubSeq(s, k, d - 1)) PROVE FALSE
  <2>1. d - 1 \in k .. Len(s)
    BY <1>1
  <2> QED BY <2>1, <1>3, <1>6, FloatText
<1>7. ~WrongAt(s, k)
  <2>1. IsToken(SubSeq(s, k, r - 1))
    BY <1>4 DEF IsToken, Kind
  <2> QED BY <1>1, <1>6, <2>1 DEF WrongAt
<1> QED BY <1>4, <1>5, <1>7 DEF Begins, LongestAt

\* Where the point of a float that begins with the digits up to d is.
LEMMA PointIsAt ==
  ASSUME NEW s \in Seq(Char), NEW k \in 1 .. Len(s), NEW e \in k .. Len(s),
         NEW d \in k + 1 .. Len(s) + 1,
         \A j \in k + 1 .. d - 1 : s[j] \in isdigit,
         d <= Len(s) => s[d] \notin isdigit,
         IsFloatAt(s, k, e)
  PROVE  /\ d <= e /\ s[d] = "."
         /\ \A j \in d + 1 .. e : s[j] \in isdigit
<1>1. Len(s) \in Nat /\ k \in Nat /\ d \in Nat /\ e \in Nat
  OBVIOUS
<1>2. PICK p \in k + 1 .. e :
        s[p] = "." /\ \A j \in (k .. e) \ {p} : s[j] \in isdigit
  BY DEF IsFloatAt
<1>3. "." \notin isdigit
  BY LexerAssumption DEF Fixed
<1>4. p >= d
  <2>1. p < d => p \in k + 1 .. d - 1
    BY <1>1
  <2> QED BY <1>1, <1>2, <1>3, <2>1
<1>5. p = d
  <2>1. p > d => d \in (k .. e) \ {p} /\ d <= Len(s)
    BY <1>1
  <2> QED BY <1>1, <1>2, <1>4, <2>1
<1>6. \A j \in d + 1 .. e : j \in (k .. e) \ {p}
  BY <1>1, <1>5
<1> QED BY <1>1, <1>2, <1>5, <1>6

\* An integer no point follows.
LEMMA IntBegins ==
  ASSUME NEW s \in Seq(Char), NEW k \in 1 .. Len(s), s[k] \in isdigit,
         k + 1 <= Len(s) => s[k + 1] \notin {"x", "X"},
         NEW d \in k + 1 .. Len(s) + 1,
         \A j \in k + 1 .. d - 1 : s[j] \in isdigit,
         d <= Len(s) => s[d] \notin isdigit /\ s[d] # "."
  PROVE  Begins(s, "INT", k, d - 1)
<1>1. Len(s) \in Nat /\ k \in Nat /\ d \in Nat /\ d - 1 \in k .. Len(s)
  OBVIOUS
<1>2. ASSUME NEW e \in k .. Len(s), IsFloatAt(s, k, e) PROVE FALSE
  <2>1. d <= e /\ s[d] = "."
    BY <1>2, PointIsAt
  <2> QED BY <1>1, <2>1
<1>3. IsA("INT", SubSeq(s, k, d - 1))
  BY <1>1, TokenText
<1>4. ASSUME NEW e \in d - 1 + 1 .. Len(s), IsToken(SubSeq(s, k, e)) PROVE FALSE
  <2>1. e \in k .. Len(s) /\ d \in k + 1 .. e /\ d <= Len(s) /\ (e > k => k + 1 <= Len(s))
    BY <1>1
  <2> QED BY <2>1, <1>2, <1>4, NumberTokens
<1>5. ASSUME NEW e \in k + 1 .. Len(s), IsFloat(SubSeq(s, k, e - 1)) PROVE FALSE
  <2>1. e - 1 \in k .. Len(s)
    BY <1>1
  <2> QED BY <2>1, <1>2, <1>5, FloatText
<1>6. ~WrongAt(s, k)
  <2>1. IsToken(SubSeq(s, k, d - 1))
    BY <1>3 DEF IsToken, Kind
  <2> QED BY <1>1, <1>5, <2>1 DEF WrongAt
<1> QED BY <1>3, <1>4, <1>6 DEF Begins, LongestAt

\* A float that ends before f, at whose end is no second point or one.
LEMMA FloatBegins ==
  ASSUME NEW s \in Seq(Char), NEW k \in 1 .. Len(s), s[k] \in isdigit,
         k + 1 <= Len(s) => s[k + 1] \notin {"x", "X"},
         NEW d \in k + 1 .. Len(s),
         \A j \in k + 1 .. d - 1 : s[j] \in isdigit, s[d] = ".",
         NEW f \in d + 1 .. Len(s) + 1,
         \A j \in d + 1 .. f - 1 : s[j] \in isdigit,
         f <= Len(s) => s[f] \notin isdigit
  PROVE  /\ f <= Len(s) /\ s[f] = "." => WrongAt(s, k)
         /\ (f <= Len(s) => s[f] # ".") => Begins(s, "FLOAT", k, f - 1)
<1>1. /\ Len(s) \in Nat /\ k \in Nat /\ d \in Nat /\ f \in Nat
      /\ f - 1 \in k .. Len(s)
  OBVIOUS
<1>2. "." \notin isdigit
  BY LexerAssumption DEF Fixed
<1>3. IsFloatAt(s, k, f - 1)
  <2>1. \A j \in (k .. f - 1) \ {d} :
          j = k \/ j \in k + 1 .. d - 1 \/ j \in d + 1 .. f - 1
    BY <1>1
  <2>2. d \in k + 1 .. f - 1
    BY <1>1
  <2> QED BY <2>1, <2>2 DEF IsFloatAt
<1>4. ASSUME NEW e \in k .. Len(s), IsFloatAt(s, k, e) PROVE d <= e /\ e < f
  <2>1. d <= e /\ \A j \in d + 1 .. e : s[j] \in isdigit
    <3>1. d \in k + 1 .. Len(s) + 1 /\ s[d] \notin isdigit
      BY <1>1, <1>2
    <3> QED BY <1>4, <3>1, PointIsAt
  <2>2. e >= f => f \in d + 1 .. e /\ f <= Len(s)
    BY <1>1
  <2> QED BY <1>1, <2>1, <2>2
<1>5. ASSUME f <= Len(s), s[f] = "." PROVE WrongAt(s, k)
  <2>1. IsFloat(SubSeq(s, k, f - 1)) /\ f \in k + 1 .. Len(s)
    BY <1>1, <1>3, <1>5, FloatText
  <2> QED BY <1>5, <2>1 DEF WrongAt
<1>6. ASSUME f <= Len(s) => s[f] # "." PROVE Begins(s, "FLOAT", k, f - 1)
  <2>1. IsA("FLOAT", SubSeq(s, k, f - 1))
    BY <1>1, <1>3, TokenText
  <2>2. ASSUME NEW e \in f - 1 + 1 .. Len(s), IsToken(SubSeq(s, k, e)) PROVE FALSE
    <3>1. e \in k .. Len(s) /\ d \in k + 1 .. e /\ k + 1 <= Len(s) /\ ~(e < f)
      BY <1>1
    <3> QED BY <3>1, <1>2, <1>4, <2>2, NumberTokens
  <2>3. ASSUME NEW e \in k + 1 .. Len(s), s[e] = ".", IsFloat(SubSeq(s, k, e - 1))
        PROVE  FALSE
    <3>1. e - 1 \in k .. Len(s)
      BY <1>1
    <3>2. IsFloatAt(s, k, e - 1)
      BY <3>1, <2>3, FloatText
    <3>3. d <= e - 1 /\ e - 1 < f
      BY <3>1, <3>2, <1>4
    <3>4. e = f \/ e \in d + 1 .. f - 1
      BY <1>1, <3>3
    <3> QED BY <3>4, <2>3, <1>2, <1>6
  <2>4. ~WrongAt(s, k)
    <3>1. IsToken(SubSeq(s, k, f - 1))
      BY <2>1 DEF IsToken, Kind
    <3> QED BY <1>1, <2>3, <3>1 DEF WrongAt
  <2> QED BY <2>1, <2>2, <2>4 DEF Begins, LongestAt
<1> QED BY <1>5, <1>6

-----------------------------------------------------------------------------
(* The calls return the longest token, or an error where there is none.      *)
Judges(call) ==
  /\ call.ok = TRUE =>
       /\ call.kind \in Kind /\ call.it \in rem + 1 .. Len(src) + 1
       /\ Begins(src, call.kind, rem, call.it - 1)
  /\ call.ok = FALSE => WrongAt(src, rem)

\* A loop over a class judges the tokens that the class continues.
LEMMA RunJudges ==
  ASSUME src \in Seq(Char), rem \in 1 .. Len(src), src[rem] \notin isdigit,
         NEW kind \in Kind, KindsFrom(src[rem]) = {kind}, NEW S, NEW loc,
         \A d \in rem .. Len(src) :
           IsA(kind, SubSeq(src, rem, d)) <=> \A j \in rem + 1 .. d : src[j] \in S
  PROVE  Judges(LexRun(kind, S, rem + 1, loc))
<1> DEFINE r == RunEnd(rem + 1, S)
<1>1. Len(src) \in Nat /\ rem + 1 \in 1 .. Len(src) + 1
  OBVIOUS
<1>2. /\ r \in rem + 1 .. Len(src) + 1
      /\ \A j \in rem + 1 .. r - 1 : src[j] \in S
      /\ r <= Len(src) => src[r] \notin S
  BY <1>1, RunEndFacts
<1>3. LexRun(kind, S, rem + 1, loc) = Lexed(kind, r, Right(loc, r - (rem + 1)))
  BY DEF LexRun
<1> HIDE DEF r
<1>4. Begins(src, kind, rem, r - 1)
  BY <1>2, RunIsLongest
<1> QED BY <1>2, <1>3, <1>4 DEF Judges, Lexed

LEMMA OneJudges ==
  ASSUME src \in Seq(Char), rem \in 1 .. Len(src), src[rem] \notin isdigit,
         NEW kind \in Kind, KindsFrom(src[rem]) = {kind}, NEW loc,
         \A d \in rem .. Len(src) : IsA(kind, SubSeq(src, rem, d)) <=> d = rem
  PROVE  Judges(Lexed(kind, rem + 1, loc))
<1>1. /\ Len(src) \in Nat /\ rem \in Nat /\ rem + 1 \in rem + 1 .. Len(src) + 1
      /\ rem + 1 - 1 = rem
  OBVIOUS
<1>2. \A d \in rem .. Len(src) :
        IsA(kind, SubSeq(src, rem, d)) <=> \A j \in rem + 1 .. d : src[j] \in {}
  <2>1. \A d \in rem .. Len(src) : d = rem \/ rem + 1 \in rem + 1 .. d
    BY <1>1
  <2>2. \A d \in rem .. Len(src) : d = rem => rem + 1 .. d = {}
    BY <1>1
  <2> QED BY <2>1, <2>2
<1>3. \A j \in rem + 1 .. (rem + 1) - 1 : src[j] \in {}
  BY <1>1
<1>4. Begins(src, kind, rem, (rem + 1) - 1)
  BY <1>1, <1>2, <1>3, RunIsLongest
<1> QED BY <1>1, <1>4 DEF Judges, Lexed

LEMMA IntJudges ==
  ASSUME src \in Seq(Char), rem \in 1 .. Len(src), src[rem] \in isdigit, NEW loc
  PROVE  Judges(qcLexInt(rem + 1, loc))
<1> DEFINE it == rem + 1
           d == RunEnd(it, isdigit)
           x == RunEnd(it + 1, isxdigit)
           f == RunEnd(d + 1, isdigit)
           int == LexRun("INT", isdigit, it, loc)
<1>1. Len(src) \in Nat /\ rem \in Nat /\ it \in 1 .. Len(src) + 1
  OBVIOUS
<1>2. /\ d \in rem + 1 .. Len(src) + 1
      /\ \A j \in rem + 1 .. d - 1 : src[j] \in isdigit
      /\ d <= Len(src) => src[d] \notin isdigit
  BY <1>1, RunEndFacts
<1>3. int = Lexed("INT", d, Right(loc, d - it)) /\ int.it = d
  BY DEF LexRun, Lexed
<1>4. CASE At(it, {"x", "X"})
  <2>1. it <= Len(src) /\ src[it] \in {"x", "X"} /\ it + 1 \in 1 .. Len(src) + 1
    BY <1>1, <1>4 DEF At
  <2>2. /\ x \in rem + 2 .. Len(src) + 1
        /\ \A j \in rem + 2 .. x - 1 : src[j] \in isxdigit
        /\ x <= Len(src) => src[x] \notin isxdigit
    <3>1. it + 1 = rem + 2
      BY <1>1
    <3> QED BY <2>1, <3>1, RunEndFacts
  <2>3. \E l : qcLexInt(it, loc) = Lexed("INT", x, l)
    <3>1. qcLexInt(it, loc) = qcLexIntHex(it + 1, Right(loc, 1))
      BY <1>4 DEF qcLexInt
    <3>2. qcLexInt(it, loc)
            = Lexed("INT", x, Right(Right(loc, 1), x - (it + 1)))
      BY <3>1 DEF qcLexIntHex, LexRun
    <3> QED BY <3>2
  <2>4. x \in rem + 1 .. Len(src) + 1
    BY <1>1, <2>2
  <2> HIDE DEF d, x, int
  <2>5. Begins(src, "INT", rem, x - 1)
    BY <2>1, <2>2, HexBegins
  <2> QED BY <2>3, <2>4, <2>5 DEF Judges, Lexed, Kind
<1>5. CASE ~At(it, {"x", "X"}) /\ At(d, {"."})
  <2>1. /\ d \in rem + 1 .. Len(src) /\ src[d] = "." /\ d + 1 \in 1 .. Len(src) + 1
        /\ rem + 1 <= Len(src) => src[rem + 1] \notin {"x", "X"}
    BY <1>1, <1>2, <1>5 DEF At
  <2>2. /\ f \in d + 1 .. Len(src) + 1
        /\ \A j \in d + 1 .. f - 1 : src[j] \in isdigit
        /\ f <= Len(src) => src[f] \notin isdigit
    BY <2>1, RunEndFacts
  <2>3. qcLexInt(it, loc) = qcLexFloat(d + 1, Right(int.loc, 1))
    <3> HIDE DEF it, d
    <3> QED BY <1>5, <1>3 DEF qcLexInt
  <2> DEFINE float == LexRun("FLOAT", isdigit, d + 1, Right(int.loc, 1))
  <2>4. /\ float.it = f
        /\ \E l : float = Lexed("FLOAT", f, l)
    BY DEF LexRun, Lexed
  <2>5. qcLexInt(it, loc) = IF At(f, {"."}) THEN Failed(float.loc) ELSE float
    BY <2>3, <2>4 DEF qcLexFloat
  <2>6. f \in rem + 1 .. Len(src) + 1
    BY <1>1, <2>1, <2>2
  <2> HIDE DEF it, d, x, f, int, float
  <2>7. /\ f <= Len(src) /\ src[f] = "." => WrongAt(src, rem)
        /\ (f <= Len(src) => src[f] # ".") => Begins(src, "FLOAT", rem, f - 1)
    BY <1>2, <2>1, <2>2, FloatBegins
  <2>8. CASE At(f, {"."})
    BY <2>5, <2>7, <2>8 DEF Judges, Failed, At, it
  <2>9. CASE ~At(f, {"."})
    <3>1. Begins(src, "FLOAT", rem, f - 1)
      BY <2>7, <2>9 DEF At
    <3> QED BY <2>4, <2>5, <2>6, <2>9, <3>1 DEF Judges, Lexed, Kind, it
  <2> QED BY <2>8, <2>9
<1>6. CASE ~At(it, {"x", "X"}) /\ ~At(d, {"."})
  <2>1. qcLexInt(it, loc) = int
    <3> HIDE DEF it, d
    <3> QED BY <1>3, <1>6 DEF qcLexInt
  <2>2. /\ rem + 1 <= Len(src) => src[rem + 1] \notin {"x", "X"}
        /\ d <= Len(src) => src[d] # "."
    BY <1>6 DEF At
  <2> HIDE DEF d, x, f, int
  <2>3. Begins(src, "INT", rem, d - 1)
    BY <1>2, <2>2, IntBegins
  <2> QED BY <1>2, <1>3, <2>1, <2>3 DEF Judges, Lexed, Kind
<1> QED BY <1>4, <1>5, <1>6

LEMMA OpJudges ==
  ASSUME src \in Seq(Char), rem \in 1 .. Len(src), src[rem] \in OpChar, NEW loc
  PROVE  Judges(qcLexOp(rem + 1, loc))
<1> DEFINE S == OpChar \ {",", "#", ";"}
<1>1. /\ KindsFrom(src[rem]) = {"OP"} /\ "OP" \in Kind
      /\ src[rem] \notin isdigit
  <2>1. "OP" \in Kind
    BY DEF Kind
  <2>2. src[rem] \in Fixed
    BY DEF Fixed
  <2> QED BY <2>1, <2>2, KindsAre, LexerAssumption
<1>2. \A d \in rem .. Len(src) :
        IsA("OP", SubSeq(src, rem, d)) <=>
          \/ d = rem /\ src[rem] = ","
          \/ src[rem] \in OpChar \ {","} /\ \A j \in rem + 1 .. d : src[j] \in S
  BY TokenText
<1>3. qcLexOp(rem + 1, loc)
        = IF src[rem] = "," THEN Lexed("OP", rem + 1, loc)
          ELSE LexRun("OP", S, rem + 1, loc)
  <2>1. rem + 1 - 1 = rem
    OBVIOUS
  <2>2. src[rem + 1 - 1] = src[rem]
    BY <2>1
  <2> QED BY <2>2 DEF qcLexOp
<1>4. CASE src[rem] = ","
  <2>1. \A d \in rem .. Len(src) : IsA("OP", SubSeq(src, rem, d)) <=> d = rem
    BY <1>2, <1>4
  <2>2. qcLexOp(rem + 1, loc) = Lexed("OP", rem + 1, loc)
    BY <1>3, <1>4
  <2> QED BY <1>1, <2>1, <2>2, OneJudges
<1>5. CASE src[rem] # ","
  <2>1. \A d \in rem .. Len(src) :
          IsA("OP", SubSeq(src, rem, d)) <=> \A j \in rem + 1 .. d : src[j] \in S
    BY <1>2, <1>5
  <2>2. qcLexOp(rem + 1, loc) = LexRun("OP", S, rem + 1, loc)
    BY <1>3, <1>5
  <2> HIDE DEF S
  <2> QED BY <1>1, <2>1, <2>2, RunJudges
<1> QED BY <1>4, <1>5

-----------------------------------------------------------------------------
(* Strings: the flag of the loop says whether the character is escaped.      *)
LEMMA EscapedIn ==
  ASSUME NEW r \in Seq(Char), NEW t \in Seq(Char), NEW i \in Nat,
         \A j \in 2 .. i - 1 : t[j] = r[j]
  PROVE  Escaped(t, i) <=> Escaped(r, i)
<1> DEFINE run(u) ==
             {j \in 2 .. i - 1 : \A m \in j .. i - 1 : u[m] \in {"\\", "\n"}}
<1>1. \A j \in 2 .. i - 1 : \A m \in j .. i - 1 : m \in 2 .. i - 1
  OBVIOUS
<1>2. run(t) = run(r)
  BY <1>1
<1>3. {j \in run(t) : t[j] = "\\"} = {j \in run(r) : r[j] = "\\"}
  BY <1>2
<1> QED BY <1>3 DEF Escaped

\* What the loop does with the flag at a character is what it is there.
LEMMA EscapedNext ==
  ASSUME NEW r \in Seq(Char), NEW i \in 2 .. Len(r)
  PROVE  Escaped(r, i + 1) <=> \/ r[i] = "\n" /\ Escaped(r, i)
                               \/ r[i] = "\\" /\ ~Escaped(r, i)
<1> DEFINE run(m) == {j \in 2 .. m - 1 : \A n \in j .. m - 1 : r[n] \in {"\\", "\n"}}
           slashes(m) == {j \in run(m) : r[j] = "\\"}
<1>1. Len(r) \in Nat /\ i \in Nat /\ i + 1 - 1 = i
  OBVIOUS
<1>2. \A m : Escaped(r, m) <=> Cardinality(slashes(m)) % 2 = 1
  BY DEF Escaped
<1>3. IsFiniteSet(slashes(i)) /\ Cardinality(slashes(i)) \in Nat /\ i \notin slashes(i)
  <2>1. IsFiniteSet(2 .. i - 1)
    BY <1>1, FS_Interval
  <2>2. slashes(i) \subseteq 2 .. i - 1 /\ i \notin 2 .. i - 1
    BY <1>1
  <2> HIDE DEF slashes
  <2> QED BY <2>1, <2>2, FS_Subset, FS_CardinalityType
<1>4. "\n" # "\\"
  BY Zenon
<1>5. CASE r[i] \in {"\\", "\n"}
  <2>1. run(i + 1) = run(i) \cup {i}
    <3>1. \A j \in 2 .. i : j \in 2 .. i - 1 \/ j = i
      BY <1>1
    <3>2. \A j \in 2 .. i - 1 : /\ j \in 2 .. i
                                /\ j .. i = (j .. i - 1) \cup {i}
      BY <1>1
    <3>3. i \in 2 .. i /\ i .. i = {i}
      BY <1>1
    <3> QED BY <1>1, <1>5, <3>1, <3>2, <3>3
  <2>2. CASE r[i] = "\\"
    <3>1. slashes(i + 1) = slashes(i) \cup {i}
      BY <2>1, <2>2
    <3> HIDE DEF slashes
    <3>2. Cardinality(slashes(i + 1)) = Cardinality(slashes(i)) + 1
      BY <3>1, <1>3, FS_AddElement
    <3> QED BY <1>2, <1>3, <1>4, <2>2, <3>2
  <2>3. CASE r[i] = "\n"
    <3>1. slashes(i + 1) = slashes(i)
      BY <1>4, <2>1, <2>3
    <3> HIDE DEF slashes
    <3> QED BY <1>2, <1>4, <2>3, <3>1
  <2> QED BY <1>5, <2>2, <2>3
<1>6. CASE r[i] \notin {"\\", "\n"}
  <2>1. slashes(i + 1) = {}
    <3>1. \A j \in 2 .. i : i \in j .. i
      BY <1>1
    <3> QED BY <1>1, <1>6, <3>1
  <2> HIDE DEF slashes
  <2>2. Cardinality(slashes(i + 1)) = 0
    BY <2>1, FS_EmptySet
  <2> QED BY <1>2, <1>6, <2>2
<1> QED BY <1>5, <1>6

LEMMA NotYetEscaped ==
  ASSUME NEW r \in Seq(Char)
  PROVE  ~Escaped(r, 2)
<1> DEFINE run == {j \in 2 .. 2 - 1 : \A n \in j .. 2 - 1 : r[n] \in {"\\", "\n"}}
<1>1. {j \in run : r[j] = "\\"} = {}
  OBVIOUS
<1>2. Cardinality({j \in run : r[j] = "\\"}) = 0
  BY <1>1, FS_EmptySet
<1> QED BY <1>2 DEF Escaped

\* From the quote at k to before i there is no end of the string.
Open(s, k, i, escaped) ==
  LET rest == SubSeq(s, k, Len(s)) IN
  /\ s[k] = Quote
  /\ escaped \in BOOLEAN
  /\ escaped = TRUE <=> Escaped(rest, i - k + 1)
  /\ \A j \in 2 .. i - k : rest[j] = Quote => Escaped(rest, j)

LEMMA RestFacts ==
  ASSUME NEW s \in Seq(Char), NEW k \in 1 .. Len(s)
  PROVE  LET rest == SubSeq(s, k, Len(s))
         IN  /\ rest \in Seq(Char) /\ Len(rest) = Len(s) - k + 1
             /\ \A j \in k .. Len(s) : rest[j - k + 1] = s[j]
<1>1. /\ Len(s) \in Nat /\ k \in Nat /\ k <= Len(s) /\ Len(s) \in k .. Len(s)
      /\ \A j \in k .. Len(s) : s[j] \in Char
  OBVIOUS
<1> QED BY <1>1, TextFacts

LEMMA OpensAt ==
  ASSUME NEW s \in Seq(Char), NEW k \in 1 .. Len(s), s[k] = Quote
  PROVE  Open(s, k, k + 1, FALSE)
<1> DEFINE rest == SubSeq(s, k, Len(s))
<1>1. rest \in Seq(Char) /\ k \in Nat
  BY RestFacts
<1>2. k + 1 - k + 1 = 2 /\ 2 .. (k + 1) - k = {}
  BY <1>1
<1> HIDE DEF rest
<1>3. ~Escaped(rest, k + 1 - k + 1)
  BY <1>1, <1>2, NotYetEscaped
<1> QED BY <1>2, <1>3 DEF Open, rest

LEMMA StaysOpen ==
  ASSUME NEW s \in Seq(Char), NEW k \in 1 .. Len(s), NEW i \in k + 1 .. Len(s),
         NEW escaped, Open(s, k, i, escaped), ~(s[i] = Quote /\ escaped = FALSE)
  PROVE  Open(s, k, i + 1, \/ s[i] = "\n" /\ escaped
                           \/ s[i] = "\\" /\ ~escaped)
<1> DEFINE rest == SubSeq(s, k, Len(s))
           n == i - k + 1
<1>1. /\ rest \in Seq(Char) /\ k \in Nat /\ i \in Nat /\ Len(s) \in Nat
      /\ Len(rest) = Len(s) - k + 1 /\ rest[n] = s[i]
  BY RestFacts
<1>2. n \in 2 .. Len(rest) /\ i + 1 - k + 1 = n + 1 /\ i - k = n - 1
  BY <1>1
<1>3. /\ s[k] = Quote /\ escaped \in BOOLEAN /\ (escaped = TRUE <=> Escaped(rest, n))
      /\ \A j \in 2 .. n - 1 : rest[j] = Quote => Escaped(rest, j)
  BY <1>2 DEF Open
<1> DEFINE next == \/ s[i] = "\n" /\ escaped
                   \/ s[i] = "\\" /\ ~escaped
<1> HIDE DEF rest, n
<1>4. Escaped(rest, n + 1) <=> \/ s[i] = "\n" /\ Escaped(rest, n)
                               \/ s[i] = "\\" /\ ~Escaped(rest, n)
  BY <1>1, <1>2, EscapedNext
<1>5. next \in BOOLEAN /\ (next = TRUE <=> Escaped(rest, n + 1))
  BY <1>3, <1>4, Zenon
<1>6. ASSUME NEW j \in 2 .. n, rest[j] = Quote PROVE Escaped(rest, j)
  <2>1. j \in 2 .. n - 1 \/ j = n
    BY <1>1, <1>2
  <2> QED BY <2>1, <1>1, <1>3, <1>6
<1> HIDE DEF next
<1>7. Open(s, k, i + 1, next)
  <2>1. i + 1 - k = n
    BY <1>1 DEF n
  <2> QED BY <1>2, <1>3, <1>5, <1>6, <2>1 DEF Open, rest
<1> QED BY <1>7 DEF next

\* No string ends where it is open.
LEMMA OpenIsNoStr ==
  ASSUME NEW s \in Seq(Char), NEW k \in 1 .. Len(s), NEW i \in k + 1 .. Len(s) + 1,
         NEW escaped, Open(s, k, i, escaped), NEW e \in k .. i - 1
  PROVE  ~IsStr(SubSeq(s, k, e))
<1> DEFINE rest == SubSeq(s, k, Len(s))
           t == SubSeq(s, k, e)
           n == e - k + 1
<1>1. /\ rest \in Seq(Char) /\ k \in Nat /\ i \in Nat /\ e \in k .. Len(s)
      /\ Len(s) \in Nat
      /\ \A j \in k .. Len(s) : rest[j - k + 1] = s[j]
  BY RestFacts
<1>2. t \in Seq(Char) /\ Len(t) = n /\ \A j \in 1 .. n : t[j] = s[k + j - 1]
  <2>1. \A j \in k .. e : s[j] \in Char
    BY <1>1
  <2> QED BY <1>1, <2>1, TextFacts
<1> HIDE DEF rest, t
<1>3. \A j \in 1 .. n : t[j] = rest[j]
  <2> TAKE j \in 1 .. n
  <2>1. k + j - 1 \in k .. Len(s) /\ (k + j - 1) - k + 1 = j
    BY <1>1
  <2>2. rest[(k + j - 1) - k + 1] = s[k + j - 1]
    BY <1>1, <2>1
  <2> QED BY <1>2, <2>1, <2>2
<1>4. SUFFICES ASSUME IsStr(t) PROVE FALSE
  BY DEF t
<1>5. n \in 2 .. i - k /\ n \in 1 .. n /\ n \in Nat /\ t[n] = Quote /\ ~Escaped(t, n)
  BY <1>1, <1>2, <1>4 DEF IsStr
<1>6. Escaped(rest, n)
  <2>1. rest[n] = Quote
    BY <1>3, <1>5
  <2> HIDE DEF n
  <2> QED BY <1>5, <2>1 DEF Open, rest
<1>7. Escaped(t, n) <=> Escaped(rest, n)
  <2>1. \A j \in 2 .. n - 1 : t[j] = rest[j]
    BY <1>3, <1>5
  <2> HIDE DEF n
  <2> QED BY <1>1, <1>2, <1>5, <2>1, EscapedIn
<1> QED BY <1>5, <1>6, <1>7

\* The first quote that is not escaped ends the string.
LEMMA ClosesAt ==
  ASSUME NEW s \in Seq(Char), NEW k \in 1 .. Len(s), NEW i \in k + 1 .. Len(s),
         Open(s, k, i, FALSE), s[i] = Quote
  PROVE  Begins(s, "STR", k, i)
<1> DEFINE rest == SubSeq(s, k, Len(s))
           n == i - k + 1
<1>1. /\ rest \in Seq(Char) /\ k \in Nat /\ i \in Nat /\ Len(s) \in Nat
      /\ \A j \in k .. Len(s) : rest[j - k + 1] = s[j]
      /\ s[k] = Quote
  BY RestFacts DEF Open
<1>2. n \in Nat /\ n >= 2
  BY <1>1
<1>3. ~Escaped(rest, n) /\ \A j \in 2 .. n - 1 : rest[j] = Quote => Escaped(rest, j)
  <2>1. i - k = n - 1
    BY <1>1
  <2> QED BY <2>1 DEF Open
<1> HIDE DEF rest
\* A text that goes at least to i is the rest up to there.
<1>4. ASSUME NEW e \in i .. Len(s)
      PROVE  LET t == SubSeq(s, k, e)
             IN  /\ Len(t) = e - k + 1 /\ t[1] = Quote /\ t[n] = Quote
                 /\ \A j \in 2 .. n : t[j] = rest[j]
                 /\ \A j \in 2 .. n : Escaped(t, j) <=> Escaped(rest, j)
  <2> DEFINE t == SubSeq(s, k, e)
  <2>1. e \in k .. Len(s) /\ n \in 1 .. e - k + 1
    BY <1>1
  <2>2. /\ t \in Seq(Char) /\ Len(t) = e - k + 1 /\ t[1] = s[k]
        /\ \A j \in k .. e : t[j - k + 1] = s[j]
        /\ \A j \in 1 .. e - k + 1 : t[j] = s[k + j - 1]
    <3>1. \A j \in k .. e : s[j] \in Char
      BY <1>1
    <3> QED BY <2>1, <3>1, TextFacts
  <2> HIDE DEF t
  <2>3. t[n] = Quote
    BY <1>1, <2>2
  <2>4. \A j \in 2 .. n : t[j] = rest[j]
    <3> TAKE j \in 2 .. n
    <3>1. k + j - 1 \in k .. Len(s) /\ (k + j - 1) - k + 1 = j /\ j \in 1 .. e - k + 1
      BY <1>1
    <3>2. rest[(k + j - 1) - k + 1] = s[k + j - 1]
      BY <1>1, <3>1
    <3> QED BY <2>2, <3>1, <3>2
  <2>5. \A j \in 2 .. n : Escaped(t, j) <=> Escaped(rest, j)
    <3> TAKE j \in 2 .. n
    <3>1. j \in Nat /\ \A m \in 2 .. j - 1 : t[m] = rest[m]
      BY <1>2, <2>4
    <3> QED BY <1>1, <2>2, <3>1, EscapedIn
  <2> QED BY <1>1, <2>2, <2>3, <2>4, <2>5 DEF t
<1>5. IsStr(SubSeq(s, k, i))
  <2> DEFINE t == SubSeq(s, k, i)
  <2>1. /\ Len(t) = n /\ t[1] = Quote /\ t[n] = Quote
        /\ \A j \in 2 .. n : t[j] = rest[j]
        /\ \A j \in 2 .. n : Escaped(t, j) <=> Escaped(rest, j)
    <3>1. i \in i .. Len(s)
      BY <1>1
    <3> QED BY <3>1, <1>4
  <2>2. \A j \in 2 .. n : j \in 2 .. n - 1 \/ j = n
    BY <1>2
  <2> HIDE DEF t, n
  <2>3. \A j \in 2 .. n : t[j] = Quote => (Escaped(t, j) <=> j # n)
    <3>1. n \notin 2 .. n - 1
      BY <1>2
    <3> QED BY <2>1, <2>2, <3>1, <1>3
  <2> QED BY <1>2, <2>1, <2>3 DEF IsStr, t
<1>6. KindsFrom(s[k]) = {"STR"} /\ s[k] \notin isdigit /\ "STR" \in Kind
  BY <1>1, KindsAre, QuoteIsAlone DEF Kind
<1>7. ASSUME NEW e \in i + 1 .. Len(s), IsToken(SubSeq(s, k, e)) PROVE FALSE
  <2> DEFINE t == SubSeq(s, k, e)
  <2>1. e \in i .. Len(s) /\ e \in k .. Len(s) /\ n \in 2 .. e - k + 1 /\ n # e - k + 1
        /\ n \in 2 .. n
    BY <1>1
  <2>2. IsA("STR", t)
    BY <1>6, <1>7, <2>1, KindIsFrom DEF IsToken
  <2>3. IsStr(t)
    BY <2>2 DEF IsA
  <2>4. Len(t) = e - k + 1 /\ t[n] = Quote /\ (Escaped(t, n) <=> Escaped(rest, n))
    BY <2>1, <1>4
  <2> HIDE DEF t, n
  <2>5. Escaped(t, n)
    BY <2>1, <2>3, <2>4 DEF IsStr
  <2> QED BY <2>4, <2>5, <1>3
<1>8. IsA("STR", SubSeq(s, k, i))
  BY <1>5 DEF IsA
<1>9. i \in k .. Len(s)
  BY <1>1
<1> QED BY <1>6, <1>7, <1>8, <1>9, OnlyFloatsAreWrong DEF LongestAt

\* A string that is open to the end of the source is an error.
LEMMA OpenIsWrong ==
  ASSUME NEW s \in Seq(Char), NEW k \in 1 .. Len(s), NEW escaped,
         Open(s, k, Len(s) + 1, escaped)
  PROVE  WrongAt(s, k)
<1>1. Len(s) \in Nat /\ s[k] = Quote /\ k \in Nat /\ Len(s) + 1 \in k + 1 .. Len(s) + 1
      /\ Len(s) + 1 - 1 = Len(s)
  BY DEF Open
<1>2. KindsFrom(s[k]) = {"STR"}
  BY <1>1, KindsAre
<1>3. ASSUME NEW e \in k .. Len(s), IsToken(SubSeq(s, k, e)) PROVE FALSE
  <2>1. IsA("STR", SubSeq(s, k, e))
    BY <1>2, <1>3, KindIsFrom DEF IsToken
  <2>2. IsStr(SubSeq(s, k, e))
    BY <2>1 DEF IsA
  <2>3. e \in k .. (Len(s) + 1) - 1
    BY <1>1
  <2> QED BY <1>1, <2>2, <2>3, OpenIsNoStr
<1> QED BY <1>3 DEF WrongAt

-----------------------------------------------------------------------------
(* The inductive invariant of what is lexed: TokensAreLongest and            *)
(* ErrorsAreExact, and what the loop of qcLexStr knows of the string so far. *)
LexedInv ==
  /\ token # NoToken => Begins(src, token.kind, token.from, token.to)
  /\ status = "error" => WrongAt(src, rem)
  /\ status = "string" => Open(src, rem, str.it, str.escaped)

LEMMA ReturnJudges ==
  ASSUME Inv, LexedInv, status = "lexing", NEW call, call.ok \in BOOLEAN,
         Judges(call), Return(call)
  PROVE  LexedInv'
<1>1. src' = src
  BY DEF Return
<1>2. CASE call.ok = TRUE
  <2>1. /\ token' = [kind |-> call.kind, loc |-> nextLoc, from |-> rem,
                     to |-> call.it - 1]
        /\ status' \in {"done", "lexing"}
    BY <1>2 DEF Return, qcvmLexResult
  <2>2. Begins(src, call.kind, rem, call.it - 1)
    BY <1>2 DEF Judges
  <2> QED BY <1>1, <2>1, <2>2 DEF LexedInv
<1>3. CASE call.ok = FALSE
  <2>1. status' = "error" /\ token' = token /\ rem' = rem
    BY <1>3 DEF Return
  <2>2. WrongAt(src, rem)
    BY <1>3 DEF Judges
  <2> QED BY <1>1, <2>1, <2>2 DEF LexedInv
<1> QED BY <1>2, <1>3

\* That a call either fails or succeeds.
LEMMA CallsAreDecided ==
  /\ \A kind, it, loc : Lexed(kind, it, loc).ok = TRUE
  /\ \A loc : Failed(loc).ok = FALSE /\ Judges(Failed(loc)) = WrongAt(src, rem)
  /\ \A kind, S, it, loc : LexRun(kind, S, it, loc).ok = TRUE
  /\ \A it, loc : qcLexOp(it, loc).ok = TRUE
  /\ \A it, loc : qcLexFloat(it, loc).ok \in BOOLEAN
  /\ \A it, loc : qcLexInt(it, loc).ok \in BOOLEAN
<1>1. /\ \A kind, it, loc : Lexed(kind, it, loc).ok = TRUE
      /\ \A loc : Failed(loc).ok = FALSE
  BY DEF Lexed, Failed
<1>2. \A loc : Judges(Failed(loc)) = WrongAt(src, rem)
  <2>1. WrongAt(src, rem) \in BOOLEAN
    BY DEF WrongAt
  <2> QED BY <1>1, <2>1, Zenon DEF Judges
<1>3. \A kind, S, it, loc : LexRun(kind, S, it, loc).ok = TRUE
  BY <1>1 DEF LexRun
<1>4. \A it, loc : qcLexOp(it, loc).ok = TRUE
  BY <1>1, <1>3 DEF qcLexOp
<1>5. \A it, loc : qcLexFloat(it, loc).ok \in BOOLEAN
  <2> TAKE it, loc
  <2>1. qcLexFloat(it, loc).ok \in {TRUE, FALSE}
    BY <1>1, <1>3, Zenon DEF qcLexFloat
  <2> QED BY <2>1
<1>6. \A it, loc : qcLexInt(it, loc).ok \in BOOLEAN
  <2> TAKE it, loc
  <2> DEFINE int == LexRun("INT", isdigit, it, loc)
  <2>1. CASE At(it, {"x", "X"})
    <3>1. qcLexInt(it, loc) = qcLexIntHex(it + 1, Right(loc, 1))
      BY <2>1 DEF qcLexInt
    <3> QED BY <3>1, <1>3 DEF qcLexIntHex
  <2>2. CASE ~At(it, {"x", "X"}) /\ At(int.it, {"."})
    <3>1. qcLexInt(it, loc) = qcLexFloat(int.it + 1, Right(int.loc, 1))
      <4> HIDE DEF int
      <4>1. qcLexInt(it, loc) =
              CASE At(it, {"x", "X"}) -> qcLexIntHex(it + 1, Right(loc, 1))
                [] ~At(it, {"x", "X"}) /\ At(int.it, {"."}) ->
                     qcLexFloat(int.it + 1, Right(int.loc, 1))
                [] OTHER -> int
        BY DEF qcLexInt, int
      <4> QED BY <2>2, <4>1
    <3> QED BY <3>1, <1>5
  <2>3. CASE ~At(it, {"x", "X"}) /\ ~At(int.it, {"."})
    <3>1. qcLexInt(it, loc) = int
      <4> HIDE DEF int
      <4>1. qcLexInt(it, loc) =
              CASE At(it, {"x", "X"}) -> qcLexIntHex(it + 1, Right(loc, 1))
                [] ~At(it, {"x", "X"}) /\ At(int.it, {"."}) ->
                     qcLexFloat(int.it + 1, Right(int.loc, 1))
                [] OTHER -> int
        BY DEF qcLexInt, int
      <4> QED BY <2>3, <4>1
    <3> QED BY <3>1, <1>3
  <2> QED BY <2>1, <2>2, <2>3
<1> QED BY <1>1, <1>2, <1>3, <1>4, <1>5, <1>6

LEMMA StrCharLexes ==
  ASSUME Inv, LexedInv, StrChar
  PROVE  LexedInv'
<1> DEFINE ch == src[str.it]
           next == \/ ch = "\n" /\ str.escaped
                   \/ ch = "\\" /\ ~str.escaped
<1>1. /\ src \in Seq(Char) /\ src' = src /\ rem \in 1 .. Len(src)
      /\ status = "string" /\ str \in Str /\ str.it \in rem + 1 .. Len(src)
      /\ str.escaped \in BOOLEAN
      /\ Open(src, rem, str.it, str.escaped)
  BY LexerAssumption DEF Inv, TypeOK, StrChar, LexedInv, Str
<1>2. CASE ch = Quote /\ str.escaped = FALSE
  <2>1. qcvmLexResult("STR", str.it + 1, str.startLoc)
    <3>1. ch = Quote /\ ~str.escaped
      BY <1>2
    <3> QED BY <3>1 DEF StrChar
  <2>2. /\ token' = [kind |-> "STR", loc |-> str.startLoc, from |-> rem,
                     to |-> (str.it + 1) - 1]
        /\ status' = "done" \/ status' = "lexing"
    BY <2>1, Zenon DEF qcvmLexResult
  <2>3. (str.it + 1) - 1 = str.it
    BY <1>1
  <2>4. Begins(src, "STR", rem, str.it)
    BY <1>1, <1>2, ClosesAt
  <2> QED BY <1>1, <2>2, <2>3, <2>4 DEF LexedInv
<1>3. CASE ~(ch = Quote /\ str.escaped = FALSE)
  <2>1. ~(ch = Quote /\ ~str.escaped)
    BY <1>1, <1>3, Zenon
  <2>2. /\ str' = [it |-> str.it + 1, escaped |-> next, startLoc |-> str.startLoc]
        /\ rem' = rem /\ token' = token /\ status' = status
    BY <2>1 DEF StrChar
  <2>3. Open(src, rem, str.it + 1, next)
    BY <1>1, <1>3, StaysOpen
  <2> HIDE DEF next
  <2>4. str'.it = str.it + 1 /\ str'.escaped = next
    BY <2>2
  <2> QED BY <1>1, <2>2, <2>3, <2>4 DEF LexedInv
<1> QED BY <1>2, <1>3

LEMMA NextLexes ==
  ASSUME Inv, LexedInv, Next
  PROVE  LexedInv'
<1>1. /\ src \in Seq(Char) /\ Len(src) \in Nat
      /\ status = "lexing" => rem \in 1 .. Len(src)
  BY LexerAssumption DEF Inv, TypeOK
<1>2. ASSUME NEW c, c \in isblank \cup isalpha \cup Fixed PROVE c \notin isdigit
  BY <1>2, LexerAssumption
<1>3. CASE LexNewline
  <2>1. status = "lexing" /\ src[rem] = "\n" /\ rem \in 1 .. Len(src)
    BY <1>1, <1>3 DEF LexNewline, Call
  <2>2. KindsFrom(src[rem]) = {"NEWLINE"} /\ "NEWLINE" \in Kind /\ src[rem] \notin isdigit
    BY <2>1, <1>2, KindsAre DEF Kind, Fixed
  <2>3. \A d \in rem .. Len(src) : IsA("NEWLINE", SubSeq(src, rem, d)) <=> d = rem
    <3> TAKE d \in rem .. Len(src)
    <3>1. rem \in 1 .. Len(src)
      BY <2>1
    <3>2. IsA("NEWLINE", SubSeq(src, rem, d)) => d = rem
      BY <1>1, <3>1, OneText
    <3>3. d = rem /\ src[rem] = "\n" => IsA("NEWLINE", SubSeq(src, rem, d))
      BY <1>1, <3>1, TokenText
    <3> QED BY <2>1, <3>2, <3>3
  <2>4. Judges(Lexed("NEWLINE", rem + 1, Down(nextLoc)))
    BY <1>1, <2>1, <2>2, <2>3, OneJudges
  <2>5. Return(Lexed("NEWLINE", rem + 1, Down(nextLoc)))
    BY <1>3 DEF LexNewline
  <2>6. Lexed("NEWLINE", rem + 1, Down(nextLoc)).ok \in BOOLEAN
    BY CallsAreDecided
  <2> QED BY <2>1, <2>4, <2>5, <2>6, ReturnJudges
<1>4. CASE LexBracket
  <2>1. status = "lexing" /\ src[rem] \in Bracket /\ rem \in 1 .. Len(src)
    BY <1>1, <1>4 DEF LexBracket, Call
  <2>2. KindsFrom(src[rem]) = {"BRACKET"} /\ "BRACKET" \in Kind /\ src[rem] \notin isdigit
    <3>1. src[rem] \in Fixed
      BY <2>1 DEF Fixed
    <3> QED BY <2>1, <3>1, <1>2, KindsAre DEF Kind
  <2>3. \A d \in rem .. Len(src) : IsA("BRACKET", SubSeq(src, rem, d)) <=> d = rem
    <3> TAKE d \in rem .. Len(src)
    <3>1. rem \in 1 .. Len(src)
      BY <2>1
    <3>2. IsA("BRACKET", SubSeq(src, rem, d)) => d = rem
      BY <1>1, <3>1, OneText
    <3>3. d = rem /\ src[rem] \in Bracket => IsA("BRACKET", SubSeq(src, rem, d))
      BY <1>1, <3>1, TokenText
    <3> QED BY <2>1, <3>2, <3>3
  <2>4. Judges(Lexed("BRACKET", rem + 1, Next1))
    BY <1>1, <2>1, <2>2, <2>3, OneJudges
  <2>5. Return(Lexed("BRACKET", rem + 1, Next1))
    BY <1>4 DEF LexBracket
  <2>6. Lexed("BRACKET", rem + 1, Next1).ok \in BOOLEAN
    BY CallsAreDecided
  <2> QED BY <2>1, <2>4, <2>5, <2>6, ReturnJudges
<1>5. CASE LexOp
  <2>1. status = "lexing" /\ src[rem] \in OpChar /\ rem \in 1 .. Len(src)
    BY <1>1, <1>5 DEF LexOp, Call
  <2>2. Judges(qcLexOp(rem + 1, Next1))
    BY <1>1, <2>1, OpJudges
  <2>3. Return(qcLexOp(rem + 1, Next1))
    BY <1>5 DEF LexOp
  <2>4. qcLexOp(rem + 1, Next1).ok \in BOOLEAN
    BY CallsAreDecided
  <2> QED BY <2>1, <2>2, <2>3, <2>4, ReturnJudges
<1>6. CASE LexSpace
  <2>1. status = "lexing" /\ src[rem] \in isblank /\ rem \in 1 .. Len(src)
    BY <1>1, <1>6 DEF LexSpace, Call
  <2>2. KindsFrom(src[rem]) = {"SPACE"} /\ "SPACE" \in Kind /\ src[rem] \notin isdigit
    BY <2>1, <1>2, KindsAre DEF Kind
  <2>3. \A d \in rem .. Len(src) :
          IsA("SPACE", SubSeq(src, rem, d)) <=> \A j \in rem + 1 .. d : src[j] \in isblank
    <3>1. \A d \in rem .. Len(src) : IsA("SPACE", SubSeq(src, rem, d)) <=>
            \A j \in rem + 0 .. d : src[j] \in isblank
      BY <1>1, <2>1, TokenText
    <3>2. \A d \in rem .. Len(src) : rem + 0 .. d = {rem} \cup (rem + 1 .. d)
      BY <1>1, <2>1
    <3> QED BY <3>1, <3>2, <2>1
  <2>4. Judges(LexRun("SPACE", isblank, rem + 1, Next1))
    BY <1>1, <2>1, <2>2, <2>3, RunJudges
  <2>5. Return(LexRun("SPACE", isblank, rem + 1, Next1))
    BY <1>6 DEF LexSpace
  <2>6. LexRun("SPACE", isblank, rem + 1, Next1).ok \in BOOLEAN
    BY CallsAreDecided
  <2> QED BY <2>1, <2>4, <2>5, <2>6, ReturnJudges
<1>7. CASE LexId
  <2> DEFINE S == {"_"} \cup isalnum
  <2>1. /\ status = "lexing" /\ src[rem] \in {"_", "$"} \cup isalpha
        /\ rem \in 1 .. Len(src)
    BY <1>1, <1>7 DEF LexId, Call
  <2>2. KindsFrom(src[rem]) = {"ID"} /\ "ID" \in Kind /\ src[rem] \notin isdigit
    BY <2>1, <1>2, KindsAre DEF Kind, Fixed
  <2>3. \A d \in rem .. Len(src) :
          IsA("ID", SubSeq(src, rem, d)) <=> \A j \in rem + 1 .. d : src[j] \in S
    BY <1>1, <2>1, TokenText
  <2>4. qcLexId(rem + 1, Next1) = LexRun("ID", S, rem + 1, Next1)
    BY DEF qcLexId
  <2> HIDE DEF S
  <2>5. Judges(LexRun("ID", S, rem + 1, Next1))
    BY <1>1, <2>1, <2>2, <2>3, <2>4, RunJudges
  <2>6. LexRun("ID", S, rem + 1, Next1).ok \in BOOLEAN
    BY CallsAreDecided
  <2>7. Return(LexRun("ID", S, rem + 1, Next1))
    BY <1>7, <2>4 DEF LexId
  <2>8. status = "lexing"
    BY <2>1
  <2> QED BY <2>5, <2>6, <2>7, <2>8, ReturnJudges
<1>8. CASE LexNumber
  <2>1. status = "lexing" /\ src[rem] \in isdigit /\ rem \in 1 .. Len(src)
    BY <1>1, <1>8 DEF LexNumber, Call
  <2>2. Judges(qcLexInt(rem + 1, Next1))
    BY <1>1, <2>1, IntJudges
  <2>3. Return(qcLexInt(rem + 1, Next1))
    BY <1>8 DEF LexNumber
  <2>4. qcLexInt(rem + 1, Next1).ok \in BOOLEAN
    BY CallsAreDecided
  <2> QED BY <2>1, <2>2, <2>3, <2>4, ReturnJudges
<1>9. CASE LexUnknown
  <2>1. status = "lexing" /\ src[rem] \notin First /\ rem \in 1 .. Len(src)
    BY <1>1, <1>9 DEF LexUnknown, Call
  <2>2. KindsFrom(src[rem]) = {}
    BY <2>1, KindsAre
  <2>3. \A e \in rem .. Len(src) : ~IsToken(SubSeq(src, rem, e))
    BY <1>1, <2>1, <2>2, KindIsFrom DEF IsToken
  <2>4. WrongAt(src, rem)
    BY <2>3 DEF WrongAt
  <2>5. Judges(Failed(nextLoc))
    BY <2>4, CallsAreDecided
  <2>6. Return(Failed(nextLoc))
    BY <1>9 DEF LexUnknown
  <2>7. Failed(nextLoc).ok \in BOOLEAN
    BY CallsAreDecided
  <2> QED BY <2>1, <2>5, <2>6, <2>7, ReturnJudges
<1>10. CASE LexStr
  <2>1. /\ status = "lexing" /\ src[rem] = Quote /\ rem \in 1 .. Len(src)
        /\ status' = "string" /\ src' = src /\ rem' = rem /\ token' = token
        /\ str' = [it |-> rem + 1, escaped |-> FALSE, startLoc |-> nextLoc]
    BY <1>1, <1>10 DEF LexStr, Call
  <2>2. Open(src, rem, rem + 1, FALSE)
    BY <1>1, <2>1, OpensAt
  <2> QED BY <2>1, <2>2 DEF LexedInv
<1>11. CASE StrChar
  BY <1>11, StrCharLexes
<1>12. CASE StrUnterminated
  <2>1. /\ status = "string" /\ status' = "error" /\ str.it > Len(src)
        /\ src' = src /\ rem' = rem /\ token' = token
    BY <1>12 DEF StrUnterminated
  <2>2. str.it = Len(src) + 1 /\ rem \in 1 .. Len(src)
    BY <1>1, <2>1 DEF Inv, TypeOK
  <2>3. Open(src, rem, Len(src) + 1, str.escaped)
    BY <2>1, <2>2 DEF LexedInv
  <2>4. WrongAt(src, rem)
    BY <1>1, <2>2, <2>3, OpenIsWrong
  <2> QED BY <2>1, <2>4 DEF LexedInv
<1> QED
  BY <1>3, <1>4, <1>5, <1>6, <1>7, <1>8, <1>9, <1>10, <1>11, <1>12 DEF Next

LEMMA LexedAlways == Spec => []LexedInv
<1>1. Init => LexedInv
  BY DEF Init, LexedInv
<1>2. Inv /\ LexedInv /\ UNCHANGED vars => LexedInv'
  BY DEF LexedInv, vars
<1>3. Inv /\ LexedInv /\ [Next]_vars => LexedInv'
  BY <1>2, NextLexes
<1> QED BY <1>1, <1>3, InvAlways, PTL DEF Spec

\* Every token is the longest that begins where it does, and of its kind, for
\* every source: the loops of qcLex stop exactly where the language says.
THEOREM TokensStayLongest == Spec => []TokensAreLongest
<1>1. LexedInv => TokensAreLongest
  BY DEF LexedInv, TokensAreLongest, Begins, LongestAt
<1> QED BY <1>1, LexedAlways, PTL

\* A call fails exactly where no token begins, or a float with a second point.
THEOREM ErrorsStayExact == Spec => []ErrorsAreExact
<1>1. LexedInv => ErrorsAreExact
  BY DEF LexedInv, ErrorsAreExact, Begins, WrongAt, Wrong
<1> QED BY <1>1, LexedAlways, PTL
=============================================================================
