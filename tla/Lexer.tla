-------------------------------- MODULE Lexer --------------------------------
(***************************************************************************)
(* qcLex (src/src/lex.cpp) in the loop of a caller that lexes a source to    *)
(* its end (src/test/main.cpp:82-90).  A step is one call, which returns a    *)
(* token, the location after it and the rest of the source, or an error; the *)
(* loop over the characters of a string is made one character at a time.    *)
(* Characters are strings of one character; the classes of <cctype> are      *)
(* constants.                                                              *)
(***************************************************************************)
EXTENDS Integers, Sequences, FiniteSetsExt

CONSTANTS
  Char,                                  \* the characters of a source
  isalpha, isdigit, isxdigit, isblank,   \* std::isalpha ... std::isblank
  Sources                                \* the sources to lex

Quote == "\""
isalnum == isalpha \cup isdigit

OpChar ==
  {"+", "-", "&", "|", "=", "!", "~", "%", "^", "*", "/", "<", ">", "?", ":",
   ",", "#", ";"}
Bracket == {"(", ")", "{", "}", "[", "]"}
Fixed == OpChar \cup Bracket \cup {"\n", Quote, "\\", ".", "_", "$"}

\* The classes the first character of a token is tested for are disjoint, and
\* the x of a hexadecimal number is no digit.
ASSUME LexerAssumption ==
  /\ Sources \subseteq Seq(Char)
  /\ isalpha \cap isdigit = {} /\ isalpha \cap isblank = {}
  /\ isdigit \cap isblank = {} /\ isdigit \cap {"x", "X"} = {}
  /\ (isalpha \cup isdigit \cup isxdigit \cup isblank) \cap Fixed = {}

Kind == {"SPACE", "NEWLINE", "ID", "INT", "FLOAT", "STR", "OP", "BRACKET"}

VARIABLES
  src,       \* the source
  rem,       \* the index of the first character of the rest
  nextLoc,   \* the location the calls write
  token,     \* the token the last call returned
  str,       \* the loop of qcLexStr: its position, and its call's location
  status     \* "lexing", "string" in qcLexStr, "done", or "error" once a call
             \* returned no rest

vars == <<src, rem, nextLoc, token, str, status>>

NoToken == [kind |-> "none"]
NoStr == [it |-> 0]
Start == [col |-> 0, line |-> 0]

Location == [col : Nat, line : Nat]
Str == [it : Nat, escaped : BOOLEAN, startLoc : Location]
Token == [kind : Kind, loc : Location, from : Nat, to : Nat]

-----------------------------------------------------------------------------
(* What a call returns: the end of the token and the location there.         *)
Lexed(kind, it, loc) == [ok |-> TRUE, kind |-> kind, it |-> it, loc |-> loc]
Failed(loc) == [ok |-> FALSE, loc |-> loc]

\* Mutant.
DownKeepsColumn(loc) == [col |-> loc.col, line |-> loc.line + 1]

Right(loc, n) == [col |-> loc.col + n, line |-> loc.line]
Down(loc) == [col |-> 0, line |-> loc.line + 1]

At(k, S) == k <= Len(src) /\ src[k] \in S

\* Mutant.
RunEndPast(it, S) == Min({k \in it .. Len(src) + 1 : ~At(k, S)}) + 1

\* Where the loop that steps over characters of S stops.
RunEnd(it, S) == Min({k \in it .. Len(src) + 1 : ~At(k, S)})

LexRun(kind, S, it, loc) ==
  LET last == RunEnd(it, S) IN Lexed(kind, last, Right(loc, last - it))

\* Mutants.
FloatUnchecked(it, loc) == LexRun("FLOAT", isdigit, it, loc)
OpRunsOn(it, loc) == LexRun("OP", OpChar, it, loc)
OpFromFirst(it, loc) == LexRun("OP", OpChar \ {",", "#", ";"}, it - 1, loc)

qcLexId(it, loc) == LexRun("ID", {"_"} \cup isalnum, it, loc)

\* A second point is an error, after the digits before it were counted.
qcLexFloat(it, loc) ==
  LET float == LexRun("FLOAT", isdigit, it, loc) IN
  IF At(float.it, {"."}) THEN Failed(float.loc) ELSE float

qcLexIntHex(it, loc) == LexRun("INT", isxdigit, it, loc)

qcLexInt(it, loc) ==
  LET int == LexRun("INT", isdigit, it, loc) IN
  CASE At(it, {"x", "X"}) -> qcLexIntHex(it + 1, Right(loc, 1))
    [] ~At(it, {"x", "X"}) /\ At(int.it, {"."}) ->
         qcLexFloat(int.it + 1, Right(int.loc, 1))
    [] OTHER -> int

\* A comma stands alone; a comma, a '#' and a ';' end the operator before them.
qcLexOp(it, loc) ==
  IF src[it - 1] = "," THEN Lexed("OP", it, loc)
  ELSE LexRun("OP", OpChar \ {",", "#", ";"}, it, loc)

-----------------------------------------------------------------------------
Init ==
  /\ src \in Sources
  /\ rem = 1
  /\ nextLoc = Start
  /\ token = NoToken
  /\ str = NoStr
  /\ status = IF src = <<>> THEN "done" ELSE "lexing"

\* A call on a rest that begins with a character of S.
Call(S) == status = "lexing" /\ src[rem] \in S

\* qcvmLexResult; the caller goes on while there is a rest.
qcvmLexResult(kind, it, startLoc) ==
  /\ token' = [kind |-> kind, loc |-> startLoc, from |-> rem, to |-> it - 1]
  /\ rem' = it
  /\ status' = IF it > Len(src) THEN "done" ELSE "lexing"

\* The location is written through the caller's pointer, error or not.
Return(call) ==
  /\ nextLoc' = call.loc
  /\ IF call.ok THEN qcvmLexResult(call.kind, call.it, nextLoc)
     ELSE status' = "error" /\ UNCHANGED <<token, rem>>
  /\ UNCHANGED <<src, str>>

\* After the first character of a token other than a newline.
Next1 == Right(nextLoc, 1)

LexNewline ==
  Call({"\n"}) /\ Return(Lexed("NEWLINE", rem + 1, Down(nextLoc)))
LexBracket == Call(Bracket) /\ Return(Lexed("BRACKET", rem + 1, Next1))
LexOp == Call(OpChar) /\ Return(qcLexOp(rem + 1, Next1))
LexSpace == Call(isblank) /\ Return(LexRun("SPACE", isblank, rem + 1, Next1))
LexId == Call({"_", "$"} \cup isalpha) /\ Return(qcLexId(rem + 1, Next1))
LexNumber == Call(isdigit) /\ Return(qcLexInt(rem + 1, Next1))

LexStr ==
  /\ Call({Quote})
  /\ nextLoc' = Next1
  /\ str' = [it |-> rem + 1, escaped |-> FALSE, startLoc |-> nextLoc]
  /\ status' = "string"
  /\ UNCHANGED <<src, rem, token>>

\* One character of a string.  A newline leaves the escape as it is.
StrChar ==
  /\ status = "string" /\ str.it <= Len(src)
  /\ LET ch == src[str.it]
         closes == ch = Quote /\ ~str.escaped
     IN /\ nextLoc' = IF ch = "\n" THEN Down(nextLoc) ELSE Right(nextLoc, 1)
        /\ IF closes
           THEN qcvmLexResult("STR", str.it + 1, str.startLoc) /\ str' = NoStr
           ELSE /\ str' = [it |-> str.it + 1,
                           escaped |-> \/ ch = "\n" /\ str.escaped
                                       \/ ch = "\\" /\ ~str.escaped,
                           startLoc |-> str.startLoc]
                /\ UNCHANGED <<rem, token, status>>
  /\ UNCHANGED src

\* Mutant.
StrNeverEnds == status = "string" /\ str.it > Len(src) /\ UNCHANGED vars

StrUnterminated ==
  /\ status = "string" /\ str.it > Len(src)
  /\ status' = "error"
  /\ str' = NoStr
  /\ UNCHANGED <<src, rem, nextLoc, token>>

First ==
  {"\n", Quote, "_", "$"} \cup Bracket \cup OpChar
    \cup isblank \cup isalpha \cup isdigit

LexUnknown == Call(Char \ First) /\ Return(Failed(nextLoc))

Next ==
  \/ LexNewline \/ LexBracket \/ LexOp \/ LexSpace \/ LexId \/ LexNumber
  \/ LexStr \/ StrChar \/ StrUnterminated \/ LexUnknown

\* A call comes back, and the caller's loop goes on as long as there is a rest.
Spec == Init /\ [][Next]_vars /\ WF_vars(Next)

-----------------------------------------------------------------------------
(* The tokens of the language, as texts.                                     *)
Over(t, i, S) == \A j \in i .. Len(t) : t[j] \in S

\* The quote at k is escaped: an odd number of backslashes in the run of
\* backslashes and newlines before it.
Escaped(t, k) ==
  LET run == {j \in 2 .. k - 1 : \A i \in j .. k - 1 : t[i] \in {"\\", "\n"}}
  IN Cardinality({j \in run : t[j] = "\\"}) % 2 = 1

IsStr(t) ==
  /\ Len(t) >= 2 /\ t[1] = Quote /\ t[Len(t)] = Quote
  /\ \A k \in 2 .. Len(t) :
       t[k] = Quote => (Escaped(t, k) <=> k # Len(t))

IsFloat(t) ==
  \E p \in 2 .. Len(t) : /\ t[p] = "."
                         /\ \A j \in (1 .. Len(t)) \ {p} : t[j] \in isdigit

IsOp(t) ==
  \/ t = <<",">>
  \/ t[1] \in OpChar \ {","} /\ Over(t, 2, OpChar \ {",", "#", ";"})

IsA(kind, t) ==
  \/ kind = "SPACE" /\ Over(t, 1, isblank)
  \/ kind = "NEWLINE" /\ t = <<"\n">>
  \/ kind = "ID" /\ t[1] \in {"_", "$"} \cup isalpha /\ Over(t, 2, {"_"} \cup isalnum)
  \/ /\ kind = "INT" /\ t[1] \in isdigit
     /\ Over(t, 2, isdigit) \/ (t[2] \in {"x", "X"} /\ Over(t, 3, isxdigit))
  \/ kind = "FLOAT" /\ IsFloat(t)
  \/ kind = "STR" /\ IsStr(t)
  \/ kind = "OP" /\ IsOp(t)
  \/ kind = "BRACKET" /\ Len(t) = 1 /\ t[1] \in Bracket

IsToken(t) == \E kind \in Kind : IsA(kind, t)

\* What cannot be lexed at k: no token begins there, or a float does that a
\* second point follows.
Wrong(k) ==
  \/ \A e \in k .. Len(src) : ~IsToken(SubSeq(src, k, e))
  \/ \E e \in k + 1 .. Len(src) :
       src[e] = "." /\ IsFloat(SubSeq(src, k, e - 1))

\* Where a call that failed at k stopped: at the end of a string that is not
\* closed, at the second point of a float, or at k, where no token begins.
StopsAt(k, e) ==
  \/ src[k] = Quote /\ e = Len(src) + 1
  \/ /\ e \in k + 1 .. Len(src) /\ src[e] = "."
     /\ IsFloat(SubSeq(src, k, e - 1))
  \/ src[k] \notin First /\ e = k

\* Where the character k is: the newlines before it, and the characters since.
NewlinesBefore(k) == {j \in 1 .. k - 1 : src[j] = "\n"}
LocationOf(k) ==
  [col |-> k - 1 - Max({0} \cup NewlinesBefore(k)),
   line |-> Cardinality(NewlinesBefore(k))]

-----------------------------------------------------------------------------
TypeOK ==
  /\ src \in Sources
  /\ rem \in 1 .. Len(src) + 1
  /\ nextLoc \in Location
  /\ token \in Token \cup {NoToken}
  /\ status \in {"lexing", "string", "done", "error"}
  /\ status \in {"lexing", "string"} => rem <= Len(src)
  /\ IF status = "string" THEN str \in Str /\ str.it \in rem + 1 .. Len(src) + 1
     ELSE str = NoStr

\* A token is the longest that begins where it does, of the kind it says, and
\* never an empty one: the loops stop exactly where the language says.
TokensAreLongest ==
  token # NoToken =>
    /\ IsA(token.kind, SubSeq(src, token.from, token.to))
    /\ \A e \in token.to + 1 .. Len(src) : ~IsToken(SubSeq(src, token.from, e))

\* The location, which every branch of the code counts for itself, is that of
\* the rest, or of the character of a string that is looked at, and that of a
\* token is of its first character; also after newlines in strings.  After an
\* error it is that of the character that lexing stopped at.
LocationsAgree ==
  /\ status \in {"lexing", "done"} => nextLoc = LocationOf(rem)
  /\ status = "string" => /\ nextLoc = LocationOf(str.it)
                          /\ str.startLoc = LocationOf(rem)
  /\ status = "error" =>
       \E e \in rem .. Len(src) + 1 : StopsAt(rem, e) /\ nextLoc = LocationOf(e)
  /\ token # NoToken => token.loc = LocationOf(token.from)

\* What lex.h:44 says: a call that fails leaves the caller's location as it was
\* ("nextLoc unchanged on error").
ErrorsLeaveLocation ==
  [][status' = "error" =>
       nextLoc' = IF status = "string" THEN str.startLoc ELSE nextLoc]_vars

\* A call fails exactly where the source cannot be lexed.
ErrorsAreExact ==
  /\ status = "error" => Wrong(rem)
  /\ token # NoToken => ~Wrong(token.from)

\* A token begins where the rest did and the new rest, which is shorter, is what
\* follows it: no step of the loops loses a character or stays where it is.
Advance ==
  \/ status' = "error"
  \/ rem < rem' /\ token'.from = rem /\ token'.to = rem' - 1
  \/ /\ UNCHANGED <<rem, token>> /\ status' = "string"
     /\ status = "string" => str'.it = str.it + 1
Advances == [][Advance]_vars

\* A caller that goes on while there is a rest gets to the end or to an error.
Terminates == <>(status \in {"done", "error"})
=============================================================================
