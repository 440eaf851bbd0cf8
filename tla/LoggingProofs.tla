---------------------------- MODULE LoggingProofs ----------------------------
(***************************************************************************)
(* Theorems about Logging, for any threads, parts and handlers, whatever the *)
(* handlers call back.                                                      *)
(***************************************************************************)
EXTENDS Logging, TLAPS

USE LoggingAssumption

\* A call that has its mutex.
Past(f) == f.at # "lock"
Running(f) == f.op = "log" /\ f.at = "run"
HalfSet(f) == f.op = "set" /\ f.at = "half"
Installable == Pairs \cup {Default}

\* What is true of a call by itself, given what is installed.
Sound(f) ==
  /\ f.op = "log" => f.at \in {"lock", "held", "run"}
  /\ f.op \in Part => f.at \in {"lock", "held"}
  /\ f.op = "set" => f.pair \in Pairs
  /\ Running(f) => f.pair = [fn |-> fn, user |-> user]
  /\ HalfSet(f) => f.pair.fn = fn
  /\ f.op = "get" /\ f.at = "half" => f.pair.user = user
  /\ f.op = "get" /\ f.at = "done" => f.pair \in Installable

Frames == \A t \in Thread : \A i \in DOMAIN stack[t] : Sound(stack[t][i])

\* A call that made another is a handler that runs, or a part that logs.  A part
\* is called by nothing but a handler, and calls nothing but the log.
Nested ==
  \A t \in Thread : \A i, j \in DOMAIN stack[t] :
    j = i + 1 =>
      /\ Running(stack[t][j]) \/ (stack[t][j].op \in Part /\ stack[t][j].at = "held")
      /\ stack[t][j].op \in Part => stack[t][i].op = "log"
      /\ stack[t][i].op \in Part => Running(stack[t][j])

\* A call that has its mutex owns it alone, and a mutex that is owned is that
\* of a call.
Owned ==
  /\ \A t \in Thread : \A i \in DOMAIN stack[t] :
       Past(stack[t][i]) => owner[MutexOf(stack[t][i])] = t
  /\ \A t \in Thread : \A i, j \in DOMAIN stack[t] :
       /\ Past(stack[t][i]) /\ Past(stack[t][j])
       /\ MutexOf(stack[t][i]) = MutexOf(stack[t][j])
       => i = j
  /\ \A m \in Mutex : \A t \in Thread :
       owner[m] = t =>
         \E i \in DOMAIN stack[t] : Past(stack[t][i]) /\ MutexOf(stack[t][i]) = m

\* What is installed was installed together, but in the middle of an assignment.
Together ==
  \/ [fn |-> fn, user |-> user] \in Installable
  \/ \E t \in Thread : \E i \in DOMAIN stack[t] : HalfSet(stack[t][i])

Inv == TypeOK /\ Frames /\ Nested /\ Owned /\ Together

-----------------------------------------------------------------------------
\* Stacks, place by place.

LEMMA PushFacts ==
  ASSUME NEW F, NEW s \in Seq(F), NEW f \in F
  PROVE  /\ <<f>> \o s \in Seq(F)
         /\ Len(<<f>> \o s) = Len(s) + 1
         /\ (<<f>> \o s)[1] = f
         /\ \A i \in 1 .. Len(s) : (<<f>> \o s)[i + 1] = s[i]
  OBVIOUS

LEMMA TailFacts ==
  ASSUME NEW F, NEW s \in Seq(F), s # <<>>
  PROVE  /\ Tail(s) \in Seq(F)
         /\ Len(Tail(s)) = Len(s) - 1
         /\ Len(s) \in Nat \ {0}
         /\ Head(s) = s[1] /\ s[1] \in F
         /\ \A i \in 1 .. Len(s) - 1 : Tail(s)[i] = s[i + 1]
  OBVIOUS

LEMMA TopFacts ==
  ASSUME NEW F, NEW s \in Seq(F), s # <<>>, NEW f \in F
  PROVE  /\ <<f>> \o Tail(s) \in Seq(F)
         /\ Len(<<f>> \o Tail(s)) = Len(s)
         /\ (<<f>> \o Tail(s))[1] = f
         /\ \A i \in 2 .. Len(s) : (<<f>> \o Tail(s))[i] = s[i]
<1>1. /\ Tail(s) \in Seq(F) /\ Len(Tail(s)) = Len(s) - 1 /\ Len(s) \in Nat \ {0}
      /\ \A i \in 1 .. Len(s) - 1 : Tail(s)[i] = s[i + 1]
  BY TailFacts
<1>2. \A i \in 1 .. Len(Tail(s)) : (<<f>> \o Tail(s))[i + 1] = Tail(s)[i]
  BY <1>1, PushFacts
<1>3. ASSUME NEW i \in 2 .. Len(s) PROVE (<<f>> \o Tail(s))[i] = s[i]
  <2>1. i - 1 \in 1 .. Len(Tail(s)) /\ (i - 1) + 1 = i
    BY <1>1
  <2> QED BY <1>1, <1>2, <2>1
<1> QED BY <1>1, <1>3, PushFacts

-----------------------------------------------------------------------------
\* What a step does to a stack.

\* Stacks are the same but for the innermost call of t, which is f now.
Advanced(t, f) ==
  /\ stack' \in [Thread -> Seq(Frame)]
  /\ \A u \in Thread : DOMAIN stack'[u] = DOMAIN stack[u]
  /\ \A u \in Thread : \A i \in DOMAIN stack[u] :
       stack'[u][i] = IF u = t /\ i = 1 THEN f ELSE stack[u][i]

LEMMA InFacts ==
  ASSUME TypeOK, NEW t \in Thread, In(t)
  PROVE  /\ stack[t] \in Seq(Frame) /\ stack[t] # <<>>
         /\ Top(t) = stack[t][1] /\ Top(t) \in Frame
         /\ 1 \in DOMAIN stack[t]
<1>1. stack[t] \in Seq(Frame) /\ stack[t] # <<>>
  BY DEF TypeOK, In
<1>2. Len(stack[t]) \in Nat \ {0} /\ Head(stack[t]) = stack[t][1]
      /\ stack[t][1] \in Frame
  BY <1>1, TailFacts
<1> QED BY <1>1, <1>2 DEF Top

LEMMA SetTopAdvances ==
  ASSUME TypeOK, NEW t \in Thread, In(t), NEW f \in Frame, SetTop(t, f)
  PROVE  Advanced(t, f)
<1>1. stack[t] \in Seq(Frame) /\ stack[t] # <<>> /\ 1 \in DOMAIN stack[t]
  BY InFacts
<1> DEFINE new == <<f>> \o Tail(stack[t])
<1>2. /\ new \in Seq(Frame) /\ Len(new) = Len(stack[t]) /\ new[1] = f
      /\ \A i \in 2 .. Len(stack[t]) : new[i] = stack[t][i]
  BY <1>1, TopFacts
<1> HIDE DEF new
<1>3. stack' = [stack EXCEPT ![t] = new]
  BY DEF SetTop, new
<1>4. stack' \in [Thread -> Seq(Frame)] /\ stack'[t] = new
      /\ \A u \in Thread : u # t => stack'[u] = stack[u]
  BY <1>2, <1>3 DEF TypeOK
<1>5. DOMAIN new = DOMAIN stack[t] /\ DOMAIN stack[t] = 1 .. Len(stack[t])
  BY <1>1, <1>2
<1>6. \A i \in DOMAIN stack[t] : new[i] = IF i = 1 THEN f ELSE stack[t][i]
  BY <1>1, <1>2, <1>5
<1> QED BY <1>4, <1>5, <1>6 DEF Advanced

\* A call that has its mutex and keeps it leaves the nesting and the mutexes as
\* they were.
LEMMA AdvancedKeeps ==
  ASSUME Inv, NEW t \in Thread, In(t), NEW f \in Frame, Advanced(t, f),
         f.op = Top(t).op, Past(Top(t)), Past(f), owner' = owner
  PROVE  Nested' /\ Owned'
<1>1. Top(t) = stack[t][1] /\ 1 \in DOMAIN stack[t]
  BY InFacts DEF Inv
<1>2. \A u \in Thread : \A i \in DOMAIN stack[u] :
        /\ stack'[u][i].op = stack[u][i].op
        /\ Past(stack'[u][i]) <=> Past(stack[u][i])
        /\ i # 1 => stack'[u][i] = stack[u][i]
  BY <1>1 DEF Advanced
<1>3. \A u \in Thread : DOMAIN stack'[u] = DOMAIN stack[u] /\ DOMAIN stack[u] \subseteq Nat \ {0}
  BY DEF Advanced, Inv, TypeOK
<1>4. Nested'
  BY <1>2, <1>3 DEF Inv, Nested, Running
<1>5. \A u \in Thread : \A i \in DOMAIN stack[u] :
        MutexOf(stack'[u][i]) = MutexOf(stack[u][i])
  BY <1>2 DEF MutexOf
<1>6. Owned'
  <2>1. \A u \in Thread : \A i \in DOMAIN stack'[u] :
          Past(stack'[u][i]) => owner'[MutexOf(stack'[u][i])] = u
    BY <1>2, <1>3, <1>5 DEF Inv, Owned
  <2>2. \A u \in Thread : \A i, j \in DOMAIN stack'[u] :
          /\ Past(stack'[u][i]) /\ Past(stack'[u][j])
          /\ MutexOf(stack'[u][i]) = MutexOf(stack'[u][j])
          => i = j
    BY <1>2, <1>3, <1>5 DEF Inv, Owned
  <2>3. \A m \in Mutex : \A u \in Thread : owner'[m] = u =>
          \E i \in DOMAIN stack'[u] : Past(stack'[u][i]) /\ MutexOf(stack'[u][i]) = m
    BY <1>2, <1>3, <1>5 DEF Inv, Owned
  <2> QED BY <2>1, <2>2, <2>3 DEF Owned, MutexOf, Past
<1> QED BY <1>4, <1>6

\* A call that is not in the middle of an assignment leaves one that is.
LEMMA AdvancedTogether ==
  ASSUME Inv, NEW t \in Thread, In(t), NEW f \in Frame, Advanced(t, f),
         ~HalfSet(Top(t)), fn' = fn, user' = user
  PROVE  Together'
<1>1. Top(t) = stack[t][1]
  BY InFacts DEF Inv
<1>2. CASE [fn |-> fn, user |-> user] \in Installable
  BY <1>2 DEF Together, Installable
<1>3. CASE \E u \in Thread : \E i \in DOMAIN stack[u] : HalfSet(stack[u][i])
  <2>1. PICK u \in Thread : \E i \in DOMAIN stack[u] : HalfSet(stack[u][i])
    BY <1>3
  <2>2. PICK i \in DOMAIN stack[u] : HalfSet(stack[u][i])
    BY <2>1
  <2>3. stack'[u][i] = stack[u][i] /\ i \in DOMAIN stack'[u]
    BY <1>1, <2>2 DEF Advanced
  <2> QED BY <2>2, <2>3 DEF Together, HalfSet
<1> QED BY <1>2, <1>3 DEF Inv, Together

\* Two calls that have the log mutex are one.
LEMMA OneLog ==
  ASSUME Inv, NEW t \in Thread, NEW u \in Thread,
         NEW i \in DOMAIN stack[t], NEW j \in DOMAIN stack[u],
         Past(stack[t][i]), Past(stack[u][j]),
         stack[t][i].op \notin Part, stack[u][j].op \notin Part
  PROVE  t = u /\ i = j
  BY DEF Inv, Owned, MutexOf

-----------------------------------------------------------------------------
\* The steps of a call that has its mutex.

LEMMA InvInvoke ==
  ASSUME Inv, NEW t \in Thread, Invoke(t)
  PROVE  Inv'
<1> DEFINE f == [Top(t) EXCEPT !.at = "run", !.pair = [fn |-> fn, user |-> user]]
<1>1. /\ In(t) /\ Top(t) \in Frame /\ Top(t) = stack[t][1] /\ 1 \in DOMAIN stack[t]
      /\ Top(t).op = "log" /\ Top(t).at = "held"
  BY InFacts DEF Inv, Invoke
<1>2. f \in Frame /\ f.op = "log" /\ f.at = "run" /\ f.pair = [fn |-> fn, user |-> user]
  BY <1>1 DEF Frame, Pair, Inv, TypeOK
<1>3. SetTop(t, f) /\ UNCHANGED <<owner, fn, user, calls>>
  BY DEF Invoke
<1> HIDE DEF f
<1>4. Advanced(t, f)
  BY <1>1, <1>2, <1>3, SetTopAdvances DEF Inv
<1>5. Nested' /\ Owned'
  BY <1>1, <1>2, <1>3, <1>4, AdvancedKeeps DEF Past
<1>6. TypeOK'
  BY <1>3, <1>4 DEF Inv, TypeOK, Advanced
<1>7. Frames'
  BY <1>2, <1>3, <1>4 DEF Inv, Frames, Sound, Running, HalfSet, Advanced
<1>8. Together'
  BY <1>1, <1>2, <1>3, <1>4, AdvancedTogether DEF HalfSet
<1> QED BY <1>5, <1>6, <1>7, <1>8 DEF Inv

LEMMA InvSetFn ==
  ASSUME Inv, NEW t \in Thread, SetFn(t)
  PROVE  Inv'
<1> DEFINE f == [Top(t) EXCEPT !.at = "half"]
<1>1. /\ In(t) /\ Top(t) \in Frame /\ Top(t) = stack[t][1] /\ 1 \in DOMAIN stack[t]
      /\ Top(t).op = "set" /\ Top(t).at = "held" /\ Top(t).pair \in Pair
  BY InFacts DEF Inv, SetFn, Frame
<1>2. f \in Frame /\ f.op = "set" /\ f.at = "half" /\ f.pair = Top(t).pair
  BY <1>1 DEF Frame
<1>3. SetTop(t, f) /\ fn' = f.pair.fn /\ UNCHANGED <<owner, user, calls>>
  BY <1>2 DEF SetFn
<1> HIDE DEF f
<1>4. Advanced(t, f)
  BY <1>1, <1>2, <1>3, SetTopAdvances DEF Inv
<1>5. Nested' /\ Owned'
  BY <1>1, <1>2, <1>3, <1>4, AdvancedKeeps DEF Past
<1>6. TypeOK'
  BY <1>1, <1>2, <1>3, <1>4 DEF Inv, TypeOK, Advanced, Pair
<1>7. \A u \in Thread : \A i \in DOMAIN stack[u] :
        stack[u][i].op \notin Part /\ Past(stack[u][i]) => u = t /\ i = 1
  BY <1>1, OneLog DEF Past
<1>8. Frames'
  <2> SUFFICES ASSUME NEW u \in Thread, NEW i \in DOMAIN stack'[u]
               PROVE  Sound(stack[u][i])'
    BY DEF Frames
  <2>1. i \in DOMAIN stack[u] /\ Sound(stack[u][i])
    BY <1>4 DEF Inv, Frames, Advanced
  <2>2. CASE u = t /\ i = 1
    <3>1. stack'[u][i] = f
      BY <1>4, <2>1, <2>2 DEF Advanced
    <3> QED BY <1>1, <1>2, <1>3, <2>1, <2>2, <3>1 DEF Sound, Running, HalfSet
  <2>3. CASE ~ (u = t /\ i = 1)
    <3>1. stack'[u][i] = stack[u][i] /\ ~ (stack[u][i].op \notin Part /\ Past(stack[u][i]))
      BY <1>4, <1>7, <2>1, <2>3 DEF Advanced
    <3> QED BY <1>3, <2>1, <3>1 DEF Sound, Running, HalfSet, Past
  <2> QED BY <2>2, <2>3
<1>9. Together'
  BY <1>1, <1>2, <1>4 DEF Together, HalfSet, Advanced
<1> QED BY <1>5, <1>6, <1>8, <1>9 DEF Inv

LEMMA InvSetUser ==
  ASSUME Inv, NEW t \in Thread, SetUser(t)
  PROVE  Inv'
<1> DEFINE f == [Top(t) EXCEPT !.at = "done"]
<1>1. /\ In(t) /\ Top(t) \in Frame /\ Top(t) = stack[t][1] /\ 1 \in DOMAIN stack[t]
      /\ Top(t).op = "set" /\ Top(t).at = "half" /\ Top(t).pair \in Pair
  BY InFacts DEF Inv, SetUser, Frame
<1>2. f \in Frame /\ f.op = "set" /\ f.at = "done" /\ f.pair = Top(t).pair
  BY <1>1 DEF Frame
<1>3. SetTop(t, f) /\ user' = f.pair.user /\ UNCHANGED <<owner, fn, calls>>
  BY <1>2 DEF SetUser
<1> HIDE DEF f
<1>4. Advanced(t, f)
  BY <1>1, <1>2, <1>3, SetTopAdvances DEF Inv
<1>5. Nested' /\ Owned'
  BY <1>1, <1>2, <1>3, <1>4, AdvancedKeeps DEF Past
<1>6. TypeOK'
  BY <1>1, <1>2, <1>3, <1>4 DEF Inv, TypeOK, Advanced, Pair
<1>7. \A u \in Thread : \A i \in DOMAIN stack[u] :
        stack[u][i].op \notin Part /\ Past(stack[u][i]) => u = t /\ i = 1
  BY <1>1, OneLog DEF Past
<1>8. Frames'
  <2> SUFFICES ASSUME NEW u \in Thread, NEW i \in DOMAIN stack'[u]
               PROVE  Sound(stack[u][i])'
    BY DEF Frames
  <2>1. i \in DOMAIN stack[u] /\ Sound(stack[u][i])
    BY <1>4 DEF Inv, Frames, Advanced
  <2>2. CASE u = t /\ i = 1
    <3>1. stack'[u][i] = f
      BY <1>4, <2>1, <2>2 DEF Advanced
    <3> QED BY <1>1, <1>2, <1>3, <2>1, <2>2, <3>1 DEF Sound, Running, HalfSet
  <2>3. CASE ~ (u = t /\ i = 1)
    <3>1. stack'[u][i] = stack[u][i] /\ ~ (stack[u][i].op \notin Part /\ Past(stack[u][i]))
      BY <1>4, <1>7, <2>1, <2>3 DEF Advanced
    <3> QED BY <1>3, <2>1, <3>1 DEF Sound, Running, HalfSet, Past
  <2> QED BY <2>2, <2>3
<1>9. Together'
  <2>1. Top(t).pair \in Pairs /\ Top(t).pair.fn = fn
    BY <1>1 DEF Inv, Frames, Sound, HalfSet
  <2>2. [fn |-> fn', user |-> user'] = Top(t).pair
    BY <1>1, <1>2, <1>3, <2>1 DEF Pair
  <2> QED BY <2>1, <2>2 DEF Together, Installable
<1> QED BY <1>5, <1>6, <1>8, <1>9 DEF Inv

LEMMA InvGetUser ==
  ASSUME Inv, NEW t \in Thread, GetUser(t)
  PROVE  Inv'
<1> DEFINE f == [Top(t) EXCEPT !.at = "half", !.pair.user = user]
<1>1. /\ In(t) /\ Top(t) \in Frame /\ Top(t) = stack[t][1] /\ 1 \in DOMAIN stack[t]
      /\ Top(t).op = "get" /\ Top(t).at = "held" /\ Top(t).pair \in Pair
  BY InFacts DEF Inv, GetUser, Frame
<1>2. f \in Frame /\ f.op = "get" /\ f.at = "half" /\ f.pair.user = user
  BY <1>1 DEF Frame, Pair, Inv, TypeOK
<1>3. SetTop(t, f) /\ UNCHANGED <<owner, fn, user, calls>>
  BY DEF GetUser
<1> HIDE DEF f
<1>4. Advanced(t, f)
  BY <1>1, <1>2, <1>3, SetTopAdvances DEF Inv
<1>5. Nested' /\ Owned'
  BY <1>1, <1>2, <1>3, <1>4, AdvancedKeeps DEF Past
<1>6. TypeOK'
  BY <1>3, <1>4 DEF Inv, TypeOK, Advanced
<1>7. Frames'
  BY <1>2, <1>3, <1>4 DEF Inv, Frames, Sound, Running, HalfSet, Advanced
<1>8. Together'
  BY <1>1, <1>2, <1>3, <1>4, AdvancedTogether DEF HalfSet
<1> QED BY <1>5, <1>6, <1>7, <1>8 DEF Inv

LEMMA InvGetFn ==
  ASSUME Inv, NEW t \in Thread, GetFn(t)
  PROVE  Inv'
<1> DEFINE f == [Top(t) EXCEPT !.at = "done", !.pair.fn = fn]
<1>1. /\ In(t) /\ Top(t) \in Frame /\ Top(t) = stack[t][1] /\ 1 \in DOMAIN stack[t]
      /\ Top(t).op = "get" /\ Top(t).at = "half" /\ Top(t).pair \in Pair
  BY InFacts DEF Inv, GetFn, Frame
<1>2. Top(t).pair.user = user
  BY <1>1 DEF Inv, Frames, Sound
<1>3. /\ f \in Frame /\ f.op = "get" /\ f.at = "done"
      /\ f.pair = [fn |-> fn, user |-> user]
  BY <1>1, <1>2 DEF Frame, Pair, Inv, TypeOK
<1>4. SetTop(t, f) /\ UNCHANGED <<owner, fn, user, calls>>
  BY DEF GetFn
<1> HIDE DEF f
<1>5. Advanced(t, f)
  BY <1>1, <1>3, <1>4, SetTopAdvances DEF Inv
<1>6. Nested' /\ Owned'
  BY <1>1, <1>3, <1>4, <1>5, AdvancedKeeps DEF Past
<1>7. TypeOK'
  BY <1>4, <1>5 DEF Inv, TypeOK, Advanced
<1>8. [fn |-> fn, user |-> user] \in Installable
  BY <1>1, OneLog DEF Inv, Together, HalfSet, Past
<1>9. Frames'
  BY <1>3, <1>4, <1>5, <1>8 DEF Inv, Frames, Sound, Running, HalfSet, Advanced
<1>10. Together'
  BY <1>4, <1>8 DEF Together
<1> QED BY <1>6, <1>7, <1>9, <1>10 DEF Inv

-----------------------------------------------------------------------------
\* A mutex that nobody had.

LEMMA InvLock ==
  ASSUME Inv, NEW t \in Thread, Lock(t)
  PROVE  Inv'
<1> DEFINE f == [Top(t) EXCEPT !.at = "held"]
           m == MutexOf(Top(t))
<1>1. /\ In(t) /\ Top(t) \in Frame /\ Top(t) = stack[t][1] /\ 1 \in DOMAIN stack[t]
      /\ Top(t).at = "lock" /\ owner[m] = Nobody
  BY InFacts DEF Inv, Lock
<1>2. /\ f \in Frame /\ f.op = Top(t).op /\ f.at = "held" /\ f.pair = Top(t).pair
      /\ MutexOf(f) = m /\ m \in Mutex
  BY <1>1 DEF Frame, MutexOf, Mutex
<1>3. SetTop(t, f) /\ fn' = fn /\ user' = user /\ calls' = calls
      /\ owner' = [owner EXCEPT ![m] = t]
  BY DEF Lock
<1> HIDE DEF f, m
<1>4. Advanced(t, f)
  BY <1>1, <1>2, <1>3, SetTopAdvances DEF Inv
<1>5. /\ owner' \in [Mutex -> Thread \cup {Nobody}] /\ owner'[m] = t
      /\ \A n \in Mutex \ {m} : owner'[n] = owner[n]
  BY <1>2, <1>3 DEF Inv, TypeOK
<1>6. TypeOK'
  BY <1>3, <1>4, <1>5 DEF Inv, TypeOK, Advanced
<1>7. Frames'
  <2> SUFFICES ASSUME NEW u \in Thread, NEW i \in DOMAIN stack'[u]
               PROVE  Sound(stack[u][i])'
    BY DEF Frames
  <2>1. i \in DOMAIN stack[u] /\ Sound(stack[u][i])
        /\ stack'[u][i] = IF u = t /\ i = 1 THEN f ELSE stack[u][i]
    BY <1>4 DEF Inv, Frames, Advanced
  <2> QED BY <1>1, <1>2, <1>3, <2>1 DEF Sound, Running, HalfSet
<1>8. Nested'
  <2>1. \A u \in Thread : \A i \in DOMAIN stack[u] :
          /\ stack'[u][i].op = stack[u][i].op
          /\ i # 1 => stack'[u][i] = stack[u][i]
    BY <1>1, <1>2, <1>4 DEF Advanced
  <2>2. \A u \in Thread : DOMAIN stack'[u] = DOMAIN stack[u] /\ DOMAIN stack[u] \subseteq Nat \ {0}
    BY <1>4 DEF Advanced, Inv, TypeOK
  <2> QED BY <2>1, <2>2 DEF Inv, Nested, Running
\* What was past its lock is not of the mutex that was free.
<1>9. \A u \in Thread : \A i \in DOMAIN stack[u] :
        Past(stack[u][i]) => MutexOf(stack[u][i]) # m
  BY <1>1 DEF Inv, Owned, m
<1>10. \A u \in Thread : \A i \in DOMAIN stack[u] :
         /\ stack[u][i] \in Frame /\ MutexOf(stack[u][i]) \in Mutex
         /\ stack'[u][i] = IF u = t /\ i = 1 THEN f ELSE stack[u][i]
  <2> SUFFICES ASSUME NEW u \in Thread, NEW i \in DOMAIN stack[u]
               PROVE  /\ stack[u][i] \in Frame /\ MutexOf(stack[u][i]) \in Mutex
                      /\ stack'[u][i] = IF u = t /\ i = 1 THEN f ELSE stack[u][i]
    OBVIOUS
  <2>1. stack[u] \in Seq(Frame)
    BY DEF Inv, TypeOK
  <2>2. stack[u][i] \in Frame
    BY <2>1
  <2>3. MutexOf(stack[u][i]) \in Mutex
    BY DEF MutexOf, Mutex
  <2> QED BY <1>4, <2>2, <2>3 DEF Advanced
<1>11. \A u \in Thread : DOMAIN stack'[u] = DOMAIN stack[u]
  BY <1>4 DEF Advanced
<1>12. Owned'
  <2>1. \A u \in Thread : \A i \in DOMAIN stack'[u] :
          Past(stack'[u][i]) => owner'[MutexOf(stack'[u][i])] = u
    <3> SUFFICES ASSUME NEW u \in Thread, NEW i \in DOMAIN stack[u], Past(stack'[u][i])
                 PROVE  owner'[MutexOf(stack'[u][i])] = u
      BY <1>11
    <3>1. CASE u = t /\ i = 1
      BY <1>2, <1>5, <1>10, <3>1
    <3>2. CASE ~ (u = t /\ i = 1)
      BY <1>5, <1>9, <1>10, <3>2 DEF Inv, Owned
    <3> QED BY <3>1, <3>2
  <2>2. \A u \in Thread : \A i, j \in DOMAIN stack'[u] :
          /\ Past(stack'[u][i]) /\ Past(stack'[u][j])
          /\ MutexOf(stack'[u][i]) = MutexOf(stack'[u][j])
          => i = j
    BY <1>2, <1>9, <1>10, <1>11 DEF Inv, Owned
  <2>3. \A n \in Mutex : \A u \in Thread : owner'[n] = u =>
          \E i \in DOMAIN stack'[u] : Past(stack'[u][i]) /\ MutexOf(stack'[u][i]) = n
    <3> SUFFICES ASSUME NEW n \in Mutex, NEW u \in Thread, owner'[n] = u
                 PROVE  \E i \in DOMAIN stack[u] : Past(stack'[u][i]) /\ MutexOf(stack'[u][i]) = n
      BY <1>11
    <3>1. CASE n = m
      BY <1>1, <1>2, <1>5, <1>10, <3>1 DEF Past
    <3>2. CASE n # m
      <4>1. PICK i \in DOMAIN stack[u] : Past(stack[u][i]) /\ MutexOf(stack[u][i]) = n
        BY <1>5, <3>2 DEF Inv, Owned
      <4>2. stack'[u][i] = stack[u][i]
        BY <1>1, <1>10, <4>1 DEF Past
      <4> QED BY <4>1, <4>2
    <3> QED BY <3>1, <3>2
  <2> QED BY <2>1, <2>2, <2>3 DEF Owned, MutexOf, Past
<1>13. Together'
  BY <1>1, <1>2, <1>3, <1>4, AdvancedTogether DEF HalfSet
<1> QED BY <1>6, <1>7, <1>8, <1>12, <1>13 DEF Inv

-----------------------------------------------------------------------------
\* A call that is made.

\* t makes the call f: the calls it was in keep all but what they may still log.
Pushed(t, f) ==
  /\ stack' \in [Thread -> Seq(Frame)]
  /\ \A u \in Thread : u # t => stack'[u] = stack[u]
  /\ DOMAIN stack'[t] = 1 .. Len(stack[t]) + 1
  /\ stack'[t][1] = f
  /\ \A i \in DOMAIN stack[t] :
       /\ stack'[t][i + 1].op = stack[t][i].op
       /\ stack'[t][i + 1].at = stack[t][i].at
       /\ stack'[t][i + 1].pair = stack[t][i].pair

\* Calls that are alike but for what they may still log.
Alike(f, g) == f.op = g.op /\ f.at = g.at /\ f.pair = g.pair

LEMMA PushedFacts ==
  ASSUME Inv, NEW t \in Thread, NEW f \in Frame, Pushed(t, f)
  PROVE  /\ \A u \in Thread : \A i \in DOMAIN stack[u] :
              LET k == IF u = t THEN i + 1 ELSE i
              IN  k \in DOMAIN stack'[u] /\ Alike(stack'[u][k], stack[u][i])
         /\ \A u \in Thread : \A k \in DOMAIN stack'[u] :
              \/ u = t /\ k = 1
              \/ u = t /\ k - 1 \in DOMAIN stack[u] /\ Alike(stack'[u][k], stack[u][k - 1])
              \/ u # t /\ k \in DOMAIN stack[u] /\ Alike(stack'[u][k], stack[u][k])
         /\ \A u \in Thread : DOMAIN stack[u] = 1 .. Len(stack[u]) /\ Len(stack[u]) \in Nat
<1>1. \A u \in Thread : stack[u] \in Seq(Frame)
  BY DEF Inv, TypeOK
<1>2. ASSUME NEW u \in Thread
      PROVE  DOMAIN stack[u] = 1 .. Len(stack[u]) /\ Len(stack[u]) \in Nat
  <2>1. stack[u] \in Seq(Frame)
    BY <1>1
  <2> QED BY <2>1
<1>3. ASSUME NEW u \in Thread, NEW i \in DOMAIN stack[u]
      PROVE  LET k == IF u = t THEN i + 1 ELSE i
             IN  k \in DOMAIN stack'[u] /\ Alike(stack'[u][k], stack[u][i])
  BY <1>2 DEF Pushed, Alike
<1>4. ASSUME NEW u \in Thread, NEW k \in DOMAIN stack'[u]
      PROVE  \/ u = t /\ k = 1
             \/ u = t /\ k - 1 \in DOMAIN stack[u] /\ Alike(stack'[u][k], stack[u][k - 1])
             \/ u # t /\ k \in DOMAIN stack[u] /\ Alike(stack'[u][k], stack[u][k])
  <2>1. CASE u = t /\ k # 1
    <3>1. k - 1 \in DOMAIN stack[t] /\ (k - 1) + 1 = k
      BY <1>2, <2>1 DEF Pushed
    <3> QED BY <2>1, <3>1 DEF Pushed, Alike
  <2>2. CASE u # t
    BY <2>2 DEF Pushed, Alike
  <2> QED BY <2>1, <2>2
<1> QED BY <1>2, <1>3, <1>4

LEMMA PushedKeeps ==
  ASSUME Inv, NEW t \in Thread, NEW f \in Frame, Pushed(t, f),
         f.at = "lock", f.op = "set" => f.pair \in Pairs,
         In(t) => \/ Running(Top(t))
                  \/ Top(t).op \in Part /\ Top(t).at = "held" /\ f.op = "log",
         owner' = owner, fn' = fn, user' = user
  PROVE  Frames' /\ Nested' /\ Owned' /\ Together'
<1>1. /\ \A u \in Thread : \A i \in DOMAIN stack[u] :
           LET k == IF u = t THEN i + 1 ELSE i
           IN  k \in DOMAIN stack'[u] /\ Alike(stack'[u][k], stack[u][i])
      /\ \A u \in Thread : \A k \in DOMAIN stack'[u] :
           \/ u = t /\ k = 1
           \/ u = t /\ k - 1 \in DOMAIN stack[u] /\ Alike(stack'[u][k], stack[u][k - 1])
           \/ u # t /\ k \in DOMAIN stack[u] /\ Alike(stack'[u][k], stack[u][k])
      /\ \A u \in Thread : DOMAIN stack[u] = 1 .. Len(stack[u]) /\ Len(stack[u]) \in Nat
  BY PushedFacts
<1>2. stack'[t][1] = f /\ DOMAIN stack'[t] = 1 .. Len(stack[t]) + 1
  BY DEF Pushed
<1>3. Frames'
  <2> SUFFICES ASSUME NEW u \in Thread, NEW k \in DOMAIN stack'[u]
               PROVE  Sound(stack[u][k])'
    BY DEF Frames
  <2>1. CASE u = t /\ k = 1
    BY <1>2, <2>1 DEF Sound, Running, HalfSet
  <2>2. ASSUME NEW i \in DOMAIN stack[u], Alike(stack'[u][k], stack[u][i])
        PROVE  Sound(stack[u][k])'
    <3>1. Sound(stack[u][i])
      BY DEF Inv, Frames
    <3> QED BY <2>2, <3>1 DEF Sound, Running, HalfSet, Alike
  <2> QED BY <1>1, <2>1, <2>2
<1>4. Nested'
  <2> SUFFICES ASSUME NEW u \in Thread, NEW k \in DOMAIN stack'[u], NEW l \in DOMAIN stack'[u],
                      l = k + 1
               PROVE  (/\ Running(stack[u][l]) \/ (stack[u][l].op \in Part /\ stack[u][l].at = "held")
                       /\ stack[u][l].op \in Part => stack[u][k].op = "log"
                       /\ stack[u][k].op \in Part => Running(stack[u][l]))'
    BY DEF Nested
  <2>1. ASSUME NEW i \in DOMAIN stack[u], NEW j \in DOMAIN stack[u], j = i + 1,
               Alike(stack'[u][k], stack[u][i]), Alike(stack'[u][l], stack[u][j])
        PROVE  (/\ Running(stack[u][l]) \/ (stack[u][l].op \in Part /\ stack[u][l].at = "held")
                /\ stack[u][l].op \in Part => stack[u][k].op = "log"
                /\ stack[u][k].op \in Part => Running(stack[u][l]))'
    <3>1. /\ Running(stack[u][j]) \/ (stack[u][j].op \in Part /\ stack[u][j].at = "held")
          /\ stack[u][j].op \in Part => stack[u][i].op = "log"
          /\ stack[u][i].op \in Part => Running(stack[u][j])
      BY <2>1 DEF Inv, Nested
    <3> QED BY <2>1, <3>1 DEF Running, Alike
  <2>2. CASE u = t /\ k = 1
    <3>1. 1 \in DOMAIN stack[t] /\ Alike(stack'[t][l], stack[t][1])
      BY <1>1, <1>2, <2>2
    <3>2. In(t) /\ Top(t) = stack[t][1]
      BY <3>1, <1>1 DEF In, Top, Inv, TypeOK
    <3>3. f.op \notin Part \/ Running(Top(t))
      BY <3>2
    <3> QED BY <1>2, <2>2, <3>1, <3>2, <3>3 DEF Running, Alike
  <2>3. CASE u = t /\ k # 1
    <3>1. /\ k - 1 \in DOMAIN stack[u] /\ Alike(stack'[u][k], stack[u][k - 1])
          /\ l - 1 \in DOMAIN stack[u] /\ Alike(stack'[u][l], stack[u][l - 1])
          /\ l - 1 = (k - 1) + 1
      BY <1>1, <1>2, <2>3
    <3> QED BY <2>1, <3>1
  <2>4. CASE u # t
    <3>1. /\ k \in DOMAIN stack[u] /\ Alike(stack'[u][k], stack[u][k])
          /\ l \in DOMAIN stack[u] /\ Alike(stack'[u][l], stack[u][l])
      BY <1>1, <2>4
    <3> QED BY <2>1, <3>1
  <2> QED BY <2>2, <2>3, <2>4
<1>5. ~ Past(f)
  BY DEF Past
<1>6. \A g, h : Alike(g, h) => MutexOf(g) = MutexOf(h) /\ (Past(g) <=> Past(h))
  BY DEF Alike, MutexOf, Past
<1>7. Owned'
  <2>1. \A u \in Thread : \A k \in DOMAIN stack'[u] :
          Past(stack'[u][k]) => owner'[MutexOf(stack'[u][k])] = u
    <3> SUFFICES ASSUME NEW u \in Thread, NEW k \in DOMAIN stack'[u], Past(stack'[u][k])
                 PROVE  owner'[MutexOf(stack'[u][k])] = u
      OBVIOUS
    <3>1. PICK i \in DOMAIN stack[u] : Alike(stack'[u][k], stack[u][i])
      BY <1>1, <1>2, <1>5
    <3>2. Past(stack[u][i]) /\ MutexOf(stack'[u][k]) = MutexOf(stack[u][i])
      BY <1>6, <3>1
    <3> QED BY <3>2 DEF Inv, Owned
  <2>2. \A u \in Thread : \A k, l \in DOMAIN stack'[u] :
          /\ Past(stack'[u][k]) /\ Past(stack'[u][l])
          /\ MutexOf(stack'[u][k]) = MutexOf(stack'[u][l])
          => k = l
    <3> SUFFICES ASSUME NEW u \in Thread, NEW k \in DOMAIN stack'[u], NEW l \in DOMAIN stack'[u],
                        Past(stack'[u][k]), Past(stack'[u][l]),
                        MutexOf(stack'[u][k]) = MutexOf(stack'[u][l])
                 PROVE  k = l
      OBVIOUS
    <3>1. \A i, j \in DOMAIN stack[u] :
            Past(stack[u][i]) /\ Past(stack[u][j]) /\ MutexOf(stack[u][i]) = MutexOf(stack[u][j])
              => i = j
      BY DEF Inv, Owned
    <3>2. CASE u = t
      <4>1. k # 1 /\ l # 1
        BY <1>2, <1>5, <3>2
      <4>2. /\ k - 1 \in DOMAIN stack[u] /\ Alike(stack'[u][k], stack[u][k - 1])
            /\ l - 1 \in DOMAIN stack[u] /\ Alike(stack'[u][l], stack[u][l - 1])
        BY <1>1, <3>2, <4>1
      <4>3. k - 1 = l - 1
        BY <1>6, <3>1, <4>2
      <4> QED BY <1>2, <3>2, <4>3
    <3>3. CASE u # t
      BY <1>1, <1>6, <3>1, <3>3
    <3> QED BY <3>2, <3>3
  <2>3. \A m \in Mutex : \A u \in Thread : owner'[m] = u =>
          \E k \in DOMAIN stack'[u] : Past(stack'[u][k]) /\ MutexOf(stack'[u][k]) = m
    <3> SUFFICES ASSUME NEW m \in Mutex, NEW u \in Thread, owner'[m] = u
                 PROVE  \E k \in DOMAIN stack'[u] : Past(stack'[u][k]) /\ MutexOf(stack'[u][k]) = m
      OBVIOUS
    <3>1. PICK i \in DOMAIN stack[u] : Past(stack[u][i]) /\ MutexOf(stack[u][i]) = m
      BY DEF Inv, Owned
    <3> DEFINE k == IF u = t THEN i + 1 ELSE i
    <3>2. k \in DOMAIN stack'[u] /\ Alike(stack'[u][k], stack[u][i])
      BY <1>1
    <3> HIDE DEF k
    <3> QED BY <1>6, <3>1, <3>2
  <2> QED BY <2>1, <2>2, <2>3 DEF Owned, MutexOf, Past
<1>8. Together'
  <2>1. CASE [fn |-> fn, user |-> user] \in Installable
    BY <2>1 DEF Together, Installable
  <2>2. CASE \E u \in Thread : \E i \in DOMAIN stack[u] : HalfSet(stack[u][i])
    <3>1. PICK u \in Thread : \E i \in DOMAIN stack[u] : HalfSet(stack[u][i])
      BY <2>2
    <3>2. PICK i \in DOMAIN stack[u] : HalfSet(stack[u][i])
      BY <3>1
    <3> DEFINE k == IF u = t THEN i + 1 ELSE i
    <3>3. k \in DOMAIN stack'[u] /\ Alike(stack'[u][k], stack[u][i])
      BY <1>1
    <3> HIDE DEF k
    <3>4. HalfSet(stack'[u][k])
      BY <3>2, <3>3 DEF HalfSet, Alike
    <3> QED BY <3>3, <3>4 DEF Together, HalfSet
  <2> QED BY <2>1, <2>2 DEF Inv, Together
<1> QED BY <1>3, <1>4, <1>7, <1>8

LEMMA NewFacts ==
  ASSUME NEW op \in Operation, NEW pair \in Installable
  PROVE  /\ New(op, pair) \in Frame /\ New(op, pair).op = op
         /\ New(op, pair).at = "lock" /\ New(op, pair).pair = pair
<1>1. pair \in Pair
  BY DEF Installable, Pair, Fn
<1> QED BY <1>1 DEF New, Frame

LEMMA PushPushes ==
  ASSUME TypeOK, NEW t \in Thread, NEW f \in Frame, Push(t, f)
  PROVE  Pushed(t, f)
<1>1. stack[t] \in Seq(Frame)
  BY DEF TypeOK
<1> DEFINE new == <<f>> \o stack[t]
<1>2. /\ new \in Seq(Frame) /\ Len(new) = Len(stack[t]) + 1 /\ new[1] = f
      /\ \A i \in 1 .. Len(stack[t]) : new[i + 1] = stack[t][i]
  BY <1>1, PushFacts
<1> HIDE DEF new
<1>3. DOMAIN new = 1 .. Len(new) /\ DOMAIN stack[t] = 1 .. Len(stack[t])
  BY <1>1, <1>2
<1>4. stack' = [stack EXCEPT ![t] = new]
  BY DEF Push, new
<1>5. stack' \in [Thread -> Seq(Frame)] /\ stack'[t] = new
      /\ \A u \in Thread : u # t => stack'[u] = stack[u]
  BY <1>2, <1>4 DEF TypeOK
<1> QED BY <1>2, <1>3, <1>5 DEF Pushed

LEMMA InvCallerCalls ==
  ASSUME Inv, NEW t \in Thread, NEW op \in Operation, NEW pair \in Installable,
         CallerCalls(t, op, pair)
  PROVE  Inv'
<1>1. /\ ~In(t) /\ calls[t] < MaxCalls /\ pair \in Arguments(op)
      /\ calls' = [calls EXCEPT ![t] = calls[t] + 1]
      /\ Push(t, New(op, pair)) /\ owner' = owner /\ fn' = fn /\ user' = user
  BY DEF CallerCalls
<1>2. /\ New(op, pair) \in Frame /\ New(op, pair).op = op
      /\ New(op, pair).at = "lock" /\ New(op, pair).pair = pair
  BY NewFacts
<1>3. Pushed(t, New(op, pair))
  BY <1>1, <1>2, PushPushes DEF Inv
<1>4. op = "set" => pair \in Pairs
  BY <1>1 DEF Arguments
<1>5. Frames' /\ Nested' /\ Owned' /\ Together'
  BY <1>1, <1>2, <1>3, <1>4, PushedKeeps
<1>6. TypeOK'
  <2>1. calls' \in [Thread -> 0 .. MaxCalls]
    BY <1>1 DEF Inv, TypeOK
  <2> QED BY <1>1, <1>3, <2>1 DEF Pushed, Inv, TypeOK
<1> QED BY <1>5, <1>6 DEF Inv

LEMMA InvHandlerCalls ==
  ASSUME Inv, NEW t \in Thread, NEW op \in Operation, NEW pair \in Installable,
         HandlerCalls(t, op, pair)
  PROVE  Inv'
<1>1. /\ In(t) /\ Running(Top(t)) /\ pair \in Arguments(op)
      /\ Push(t, New(op, pair))
      /\ owner' = owner /\ fn' = fn /\ user' = user /\ calls' = calls
  BY DEF HandlerCalls, CallsBack, Running
<1>2. /\ New(op, pair) \in Frame /\ New(op, pair).op = op
      /\ New(op, pair).at = "lock" /\ New(op, pair).pair = pair
  BY NewFacts
<1>3. Pushed(t, New(op, pair))
  BY <1>1, <1>2, PushPushes DEF Inv
<1>4. op = "set" => pair \in Pairs
  BY <1>1 DEF Arguments
<1>5. Frames' /\ Nested' /\ Owned' /\ Together'
  BY <1>1, <1>2, <1>3, <1>4, PushedKeeps
<1>6. TypeOK'
  BY <1>1, <1>3 DEF Pushed, Inv, TypeOK
<1> QED BY <1>5, <1>6 DEF Inv

LEMMA InvPartLogs ==
  ASSUME Inv, NEW t \in Thread, PartLogs(t)
  PROVE  Inv'
<1> DEFINE f == New("log", Default)
           g == [Top(t) EXCEPT !.left = Top(t).left - 1]
           rest == <<g>> \o Tail(stack[t])
           new == <<f>> \o rest
<1>1. /\ In(t) /\ Top(t) \in Frame /\ Top(t) = stack[t][1] /\ 1 \in DOMAIN stack[t]
      /\ Top(t).op \in Part /\ Top(t).at = "held" /\ Top(t).left > 0
      /\ stack[t] \in Seq(Frame) /\ stack[t] # <<>>
  BY InFacts DEF Inv, PartLogs
<1>2. f \in Frame /\ f.op = "log" /\ f.at = "lock"
  <2>1. "log" \in Operation /\ Default \in Installable
    BY DEF Operation, Installable
  <2> QED BY <2>1, NewFacts
<1>3. g \in Frame /\ Alike(g, Top(t))
  <2>1. Top(t).left - 1 \in 0 .. MaxLogs
    BY <1>1 DEF Frame
  <2> QED BY <1>1, <2>1 DEF Frame, Alike
<1>4. stack' = [stack EXCEPT ![t] = new] /\ owner' = owner /\ fn' = fn /\ user' = user
      /\ calls' = calls
  BY DEF PartLogs
<1> HIDE DEF f, g
<1>5. /\ rest \in Seq(Frame) /\ Len(rest) = Len(stack[t]) /\ rest[1] = g
      /\ \A i \in 2 .. Len(stack[t]) : rest[i] = stack[t][i]
  BY <1>1, <1>3, TopFacts
<1> HIDE DEF rest
<1>6. /\ new \in Seq(Frame) /\ Len(new) = Len(rest) + 1 /\ new[1] = f
      /\ \A i \in 1 .. Len(rest) : new[i + 1] = rest[i]
  BY <1>2, <1>5, PushFacts
<1> HIDE DEF new
<1>7. DOMAIN new = 1 .. Len(new) /\ DOMAIN stack[t] = 1 .. Len(stack[t])
  BY <1>1, <1>6
<1>8. \A i \in DOMAIN stack[t] : Alike(new[i + 1], stack[t][i])
  BY <1>1, <1>3, <1>5, <1>6, <1>7 DEF Alike
<1>9. stack' \in [Thread -> Seq(Frame)] /\ stack'[t] = new
      /\ \A u \in Thread : u # t => stack'[u] = stack[u]
  <2>1. stack \in [Thread -> Seq(Frame)]
    BY DEF Inv, TypeOK
  <2> QED BY <1>4, <1>6, <2>1
<1>10. Pushed(t, f)
  BY <1>5, <1>6, <1>7, <1>8, <1>9 DEF Pushed, Alike
<1>11. Frames' /\ Nested' /\ Owned' /\ Together'
  BY <1>1, <1>2, <1>4, <1>10, PushedKeeps
<1>12. TypeOK'
  BY <1>4, <1>9 DEF Inv, TypeOK
<1> QED BY <1>11, <1>12 DEF Inv

-----------------------------------------------------------------------------
\* A call comes back.

LEMMA InvReturn ==
  ASSUME Inv, NEW t \in Thread, Return(t)
  PROVE  Inv'
<1> DEFINE m == MutexOf(stack[t][1])
           n == Len(stack[t])
<1>1. /\ In(t) /\ Top(t) = stack[t][1] /\ 1 \in DOMAIN stack[t]
      /\ stack[t] \in Seq(Frame) /\ stack[t] # <<>>
      /\ \/ Top(t).at \in {"run", "done"}
         \/ Top(t).op \in Part /\ Top(t).at = "held"
      /\ owner' = [owner EXCEPT ![m] = Nobody]
      /\ Pop(t) /\ fn' = fn /\ user' = user /\ calls' = calls
  BY InFacts DEF Inv, Return
<1>2. Past(stack[t][1]) /\ ~ HalfSet(stack[t][1]) /\ m \in Mutex
  BY <1>1 DEF Past, HalfSet, MutexOf, Mutex
<1>3. /\ Tail(stack[t]) \in Seq(Frame) /\ Len(Tail(stack[t])) = n - 1 /\ n \in Nat \ {0}
      /\ \A i \in 1 .. n - 1 : Tail(stack[t])[i] = stack[t][i + 1]
      /\ DOMAIN stack[t] = 1 .. n
  BY <1>1, TailFacts
<1>4. DOMAIN Tail(stack[t]) = 1 .. n - 1
  BY <1>3
<1>5. /\ stack' \in [Thread -> Seq(Frame)]
      /\ \A u \in Thread : u # t => stack'[u] = stack[u]
      /\ stack'[t] = Tail(stack[t])
  BY <1>1, <1>3 DEF Pop, Inv, TypeOK
<1> HIDE DEF m, n
<1>6. \A u \in Thread : \A k \in DOMAIN stack'[u] :
        LET i == IF u = t THEN k + 1 ELSE k
        IN  i \in DOMAIN stack[u] /\ stack'[u][k] = stack[u][i]
  BY <1>3, <1>4, <1>5
<1>7. \A u \in Thread : \A i \in DOMAIN stack[u] :
        ~ (u = t /\ i = 1) =>
          LET k == IF u = t THEN i - 1 ELSE i
          IN  k \in DOMAIN stack'[u] /\ stack'[u][k] = stack[u][i]
  <2> SUFFICES ASSUME NEW u \in Thread, NEW i \in DOMAIN stack[u], ~ (u = t /\ i = 1)
               PROVE  LET k == IF u = t THEN i - 1 ELSE i
                      IN  k \in DOMAIN stack'[u] /\ stack'[u][k] = stack[u][i]
    OBVIOUS
  <2>1. CASE u = t
    <3>1. i - 1 \in 1 .. n - 1 /\ (i - 1) + 1 = i
      BY <1>3, <2>1
    <3> QED BY <1>3, <1>4, <1>5, <2>1, <3>1
  <2>2. CASE u # t
    BY <1>5, <2>2
  <2> QED BY <2>1, <2>2
<1>8. TypeOK'
  BY <1>1, <1>2, <1>5 DEF Inv, TypeOK
<1>9. Frames'
  <2> SUFFICES ASSUME NEW u \in Thread, NEW k \in DOMAIN stack'[u]
               PROVE  Sound(stack[u][k])'
    BY DEF Frames
  <2>1. PICK i \in DOMAIN stack[u] : stack'[u][k] = stack[u][i]
    BY <1>6
  <2>2. Sound(stack[u][i])
    BY DEF Inv, Frames
  <2> QED BY <1>1, <2>1, <2>2 DEF Sound, Running, HalfSet
<1>10. Nested'
  <2> SUFFICES ASSUME NEW u \in Thread, NEW k \in DOMAIN stack'[u], NEW l \in DOMAIN stack'[u],
                      l = k + 1
               PROVE  (/\ Running(stack[u][l]) \/ (stack[u][l].op \in Part /\ stack[u][l].at = "held")
                       /\ stack[u][l].op \in Part => stack[u][k].op = "log"
                       /\ stack[u][k].op \in Part => Running(stack[u][l]))'
    BY DEF Nested
  <2> DEFINE i == IF u = t THEN k + 1 ELSE k
             j == IF u = t THEN l + 1 ELSE l
  <2>1. /\ i \in DOMAIN stack[u] /\ stack'[u][k] = stack[u][i]
        /\ j \in DOMAIN stack[u] /\ stack'[u][l] = stack[u][j]
    BY <1>6
  <2>2. j = i + 1
    BY <1>4, <1>5
  <2> HIDE DEF i, j
  <2>3. /\ Running(stack[u][j]) \/ (stack[u][j].op \in Part /\ stack[u][j].at = "held")
        /\ stack[u][j].op \in Part => stack[u][i].op = "log"
        /\ stack[u][i].op \in Part => Running(stack[u][j])
    BY <2>1, <2>2 DEF Inv, Nested
  <2> QED BY <2>1, <2>3 DEF Running
\* Nothing but the call that comes back had its mutex.
<1>11. \A u \in Thread : \A i \in DOMAIN stack[u] :
         Past(stack[u][i]) /\ MutexOf(stack[u][i]) = m => u = t /\ i = 1
  BY <1>1, <1>2 DEF Inv, Owned, m
<1>12. /\ owner' \in [Mutex -> Thread \cup {Nobody}] /\ owner'[m] = Nobody
       /\ \A o \in Mutex \ {m} : owner'[o] = owner[o]
  BY <1>1, <1>2 DEF Inv, TypeOK
<1>13. \A f : MutexOf(f) \in Mutex
  BY DEF MutexOf, Mutex
<1>14. Owned'
  <2>1. \A u \in Thread : \A k \in DOMAIN stack'[u] :
          Past(stack'[u][k]) => owner'[MutexOf(stack'[u][k])] = u
    <3> SUFFICES ASSUME NEW u \in Thread, NEW k \in DOMAIN stack'[u], Past(stack'[u][k])
                 PROVE  owner'[MutexOf(stack'[u][k])] = u
      OBVIOUS
    <3> DEFINE i == IF u = t THEN k + 1 ELSE k
    <3>1. i \in DOMAIN stack[u] /\ stack'[u][k] = stack[u][i]
      BY <1>6
    <3>2. ~ (u = t /\ i = 1)
      BY <1>4, <1>5
    <3> HIDE DEF i
    <3>3. MutexOf(stack[u][i]) # m
      BY <1>11, <3>1, <3>2
    <3> QED BY <1>12, <1>13, <3>1, <3>3 DEF Inv, Owned
  <2>2. \A u \in Thread : \A k, l \in DOMAIN stack'[u] :
          /\ Past(stack'[u][k]) /\ Past(stack'[u][l])
          /\ MutexOf(stack'[u][k]) = MutexOf(stack'[u][l])
          => k = l
    <3> SUFFICES ASSUME NEW u \in Thread, NEW k \in DOMAIN stack'[u], NEW l \in DOMAIN stack'[u],
                        Past(stack'[u][k]), Past(stack'[u][l]),
                        MutexOf(stack'[u][k]) = MutexOf(stack'[u][l])
                 PROVE  k = l
      OBVIOUS
    <3> DEFINE i == IF u = t THEN k + 1 ELSE k
               j == IF u = t THEN l + 1 ELSE l
    <3>1. /\ i \in DOMAIN stack[u] /\ stack'[u][k] = stack[u][i]
          /\ j \in DOMAIN stack[u] /\ stack'[u][l] = stack[u][j]
      BY <1>6
    <3>2. i = j => k = l
      BY <1>4, <1>5
    <3> HIDE DEF i, j
    <3>3. i = j
      BY <3>1 DEF Inv, Owned
    <3> QED BY <3>2, <3>3
  <2>3. \A o \in Mutex : \A u \in Thread : owner'[o] = u =>
          \E k \in DOMAIN stack'[u] : Past(stack'[u][k]) /\ MutexOf(stack'[u][k]) = o
    <3> SUFFICES ASSUME NEW o \in Mutex, NEW u \in Thread, owner'[o] = u
                 PROVE  \E k \in DOMAIN stack'[u] : Past(stack'[u][k]) /\ MutexOf(stack'[u][k]) = o
      OBVIOUS
    <3>1. o # m /\ owner[o] = u
      BY <1>12
    <3>2. PICK i \in DOMAIN stack[u] : Past(stack[u][i]) /\ MutexOf(stack[u][i]) = o
      BY <3>1 DEF Inv, Owned
    <3>3. ~ (u = t /\ i = 1)
      BY <3>1, <3>2 DEF m
    <3>4. PICK k \in DOMAIN stack'[u] : stack'[u][k] = stack[u][i]
      BY <1>7, <3>3
    <3> QED BY <3>2, <3>4
  <2> QED BY <2>1, <2>2, <2>3 DEF Owned, MutexOf, Past
<1>15. Together'
  <2>1. CASE [fn |-> fn, user |-> user] \in Installable
    BY <1>1, <2>1 DEF Together, Installable
  <2>2. CASE \E u \in Thread : \E i \in DOMAIN stack[u] : HalfSet(stack[u][i])
    <3>1. PICK u \in Thread : \E i \in DOMAIN stack[u] : HalfSet(stack[u][i])
      BY <2>2
    <3>2. PICK i \in DOMAIN stack[u] : HalfSet(stack[u][i])
      BY <3>1
    <3>3. PICK k \in DOMAIN stack'[u] : stack'[u][k] = stack[u][i]
      BY <1>2, <1>7, <3>2
    <3> QED BY <3>2, <3>3 DEF Together, HalfSet
  <2> QED BY <2>1, <2>2 DEF Inv, Together
<1> QED BY <1>8, <1>9, <1>10, <1>14, <1>15 DEF Inv

-----------------------------------------------------------------------------
\* The invariant.

LEMMA InvInit == Init => Inv
<1> SUFFICES ASSUME Init PROVE Inv
  OBVIOUS
<1>1. \A t \in Thread : stack[t] = <<>> /\ stack[t] \in Seq(Frame) /\ DOMAIN stack[t] = {}
  <2>1. \A t \in Thread : stack[t] = <<>>
    BY DEF Init
  <2>2. <<>> \in Seq(Frame) /\ DOMAIN <<>> = {}
    OBVIOUS
  <2> QED BY <2>1, <2>2
<1>2. TypeOK
  <2>1. owner \in [Mutex -> Thread \cup {Nobody}] /\ calls \in [Thread -> 0 .. MaxCalls]
    BY DEF Init
  <2>2. fn \in Fn /\ user \in {p.user : p \in Pairs \cup {Default}}
    BY DEF Init, Fn
  <2>3. stack \in [Thread -> Seq(Frame)]
    <3>1. stack = [t \in Thread |-> <<>>] /\ <<>> \in Seq(Frame)
      BY DEF Init
    <3> QED BY <3>1
  <2> QED BY <2>1, <2>2, <2>3 DEF TypeOK
<1>3. \A m \in Mutex : owner[m] \notin Thread
  BY DEF Init
<1>4. [fn |-> fn, user |-> user] \in Installable
  BY DEF Init, Installable
<1> QED BY <1>1, <1>2, <1>3, <1>4 DEF Inv, Frames, Nested, Owned, Together

LEMMA InvNext == Inv /\ [Next]_vars => Inv'
<1> SUFFICES ASSUME Inv, [Next]_vars PROVE Inv'
  OBVIOUS
<1>1. ASSUME NEW t \in Thread, NEW op \in Operation, NEW pair \in Installable,
             CallerCalls(t, op, pair)
      PROVE  Inv'
  BY <1>1, InvCallerCalls
<1>2. ASSUME NEW t \in Thread, Step(t) PROVE Inv'
  <2>1. ASSUME NEW op \in Operation, NEW pair \in Installable, HandlerCalls(t, op, pair)
        PROVE  Inv'
    BY <2>1, InvHandlerCalls
  <2> QED BY <1>2, <2>1, InvPartLogs, InvLock, InvInvoke, InvSetFn, InvSetUser,
             InvGetUser, InvGetFn, InvReturn DEF Step, Installable
<1>3. CASE UNCHANGED vars
  BY <1>3 DEF vars, Inv, TypeOK, Frames, Sound, Nested, Owned, Together, Running, HalfSet,
              Past, MutexOf
<1> QED BY <1>1, <1>2, <1>3 DEF Next, Installable

LEMMA InvAlways == Spec => []Inv
  BY InvInit, InvNext, PTL DEF Spec

-----------------------------------------------------------------------------
\* What it gives.

LEMMA CurrentHandler == Inv => HandlerIsCurrent
<1> SUFFICES ASSUME Inv, NEW p \in Position
             PROVE  /\ RunningAt(p) =>
                         /\ FrameAt(p).pair = [fn |-> fn, user |-> user]
                         /\ FrameAt(p).pair \in Installable
                         /\ \A q \in Position : RunningAt(q) => q = p
                    /\ FrameAt(p).op = "get" /\ FrameAt(p).at = "done" =>
                         FrameAt(p).pair \in Installable
  BY DEF HandlerIsCurrent, Installable
<1>1. \A q \in Position : q = <<q[1], q[2]>> /\ q[1] \in Thread /\ q[2] \in DOMAIN stack[q[1]]
  BY DEF Position
<1>2. \A q \in Position : Sound(FrameAt(q))
  BY <1>1 DEF Inv, Frames, FrameAt
\* Calls that have the log mutex are one.
<1>3. \A q \in Position : \A t \in Thread : \A i \in DOMAIN stack[t] :
        /\ Past(FrameAt(q)) /\ FrameAt(q).op \notin Part
        /\ Past(stack[t][i]) /\ stack[t][i].op \notin Part
        => t = q[1] /\ i = q[2]
  BY <1>1, OneLog DEF FrameAt
<1>4. ASSUME RunningAt(p)
      PROVE  /\ FrameAt(p).pair = [fn |-> fn, user |-> user]
             /\ FrameAt(p).pair \in Installable
             /\ \A q \in Position : RunningAt(q) => q = p
  <2>1. FrameAt(p).pair = [fn |-> fn, user |-> user]
    BY <1>2, <1>4 DEF Sound, Running, RunningAt
  <2>2. Past(FrameAt(p)) /\ FrameAt(p).op \notin Part /\ ~ HalfSet(FrameAt(p))
    BY <1>4 DEF RunningAt, Past, HalfSet
  <2>3. \A t \in Thread : \A i \in DOMAIN stack[t] : ~ HalfSet(stack[t][i])
    <3> SUFFICES ASSUME NEW t \in Thread, NEW i \in DOMAIN stack[t], HalfSet(stack[t][i])
                 PROVE  FALSE
      OBVIOUS
    <3>1. Past(stack[t][i]) /\ stack[t][i].op \notin Part
      BY DEF HalfSet, Past
    <3>2. stack[t][i] = FrameAt(p)
      BY <1>3, <2>2, <3>1 DEF FrameAt
    <3> QED BY <2>2, <3>2
  <2>4. [fn |-> fn, user |-> user] \in Installable
    BY <2>3 DEF Inv, Together
  <2>5. ASSUME NEW q \in Position, RunningAt(q) PROVE q = p
    <3>1. Past(FrameAt(q)) /\ FrameAt(q).op \notin Part
      BY <2>5 DEF RunningAt, Past
    <3>2. q[1] = p[1] /\ q[2] = p[2]
      BY <1>1, <1>3, <2>2, <3>1 DEF FrameAt
    <3> QED BY <1>1, <3>2
  <2> QED BY <2>1, <2>4, <2>5
<1> QED BY <1>2, <1>4 DEF Sound

\* A thread that waits and runs no handler has no mutex but, if it logs, that of
\* a part.
LEMMA WaitingParts ==
  ASSUME Inv, NEW u \in Thread, Waits(u), ~RunsHandler(u),
         NEW i \in DOMAIN stack[u], Past(stack[u][i])
  PROVE  stack[u][i].op \in Part /\ WaitsFor(u) = LogMutex
<1>1. /\ In(u) /\ Top(u) = stack[u][1] /\ stack[u][1].at = "lock" /\ 1 \in DOMAIN stack[u]
  BY InFacts DEF Inv, Waits
<1>2. DOMAIN stack[u] = 1 .. Len(stack[u]) /\ Len(stack[u]) \in Nat
  <2>1. stack[u] \in Seq(Frame)
    BY DEF Inv, TypeOK
  <2> QED BY <2>1
<1>3. \A j \in DOMAIN stack[u] : j # 1 =>
        stack[u][j].op \in Part /\ stack[u][j - 1].op = "log"
  <2> SUFFICES ASSUME NEW j \in DOMAIN stack[u], j # 1
               PROVE  stack[u][j].op \in Part /\ stack[u][j - 1].op = "log"
    OBVIOUS
  <2>1. j - 1 \in DOMAIN stack[u] /\ j = (j - 1) + 1
    BY <1>2
  <2>2. ~ Running(stack[u][j])
    BY DEF RunsHandler, Running
  <2> QED BY <2>1, <2>2 DEF Inv, Nested
<1>4. i # 1
  BY <1>1 DEF Past
<1>5. i = 2
  <2>1. CASE i - 1 # 1
    <3>1. i - 1 \in DOMAIN stack[u]
      BY <1>2, <1>4
    <3>2. stack[u][i - 1].op \in Part /\ stack[u][i - 1].op = "log"
      BY <1>3, <1>4, <2>1, <3>1
    <3> QED BY <3>2
  <2> QED BY <1>2, <2>1
<1>6. stack[u][1].op = "log"
  BY <1>3, <1>5
<1> QED BY <1>1, <1>3, <1>4, <1>6 DEF WaitsFor, MutexOf

LEMMA NoCircle == Inv => WaitsAreCallbacks
<1> SUFFICES ASSUME Inv, NEW S \in (SUBSET Thread) \ {{}},
                    \A t \in S : Waits(t) /\ owner[WaitsFor(t)] \in S,
                    \A t \in S : ~ RunsHandler(t)
             PROVE  FALSE
  BY DEF WaitsAreCallbacks
<1>1. \A t : WaitsFor(t) \in Mutex
  BY DEF WaitsFor, MutexOf, Mutex
\* Who a thread of S waits for waits for the log itself, with a part's mutex.
<1>2. ASSUME NEW t \in S
      PROVE  WaitsFor(owner[WaitsFor(t)]) = LogMutex /\ WaitsFor(t) \in Part
  <2> DEFINE u == owner[WaitsFor(t)]
  <2>1. u \in S /\ u \in Thread
    OBVIOUS
  <2>2. PICK i \in DOMAIN stack[u] : Past(stack[u][i]) /\ MutexOf(stack[u][i]) = WaitsFor(t)
    BY <1>1, <2>1 DEF Inv, Owned
  <2> HIDE DEF u
  <2>3. stack[u][i].op \in Part /\ WaitsFor(u) = LogMutex
    BY <2>1, <2>2, WaitingParts
  <2>4. WaitsFor(t) \in Part
    <3>1. MutexOf(stack[u][i]) = stack[u][i].op
      BY <2>3 DEF MutexOf
    <3> QED BY <2>2, <2>3, <3>1
  <2> QED BY <2>3, <2>4 DEF u
<1>3. PICK t \in S : TRUE
  OBVIOUS
<1>4. owner[WaitsFor(t)] \in S /\ WaitsFor(owner[WaitsFor(t)]) = LogMutex
  BY <1>2
<1> QED BY <1>2, <1>4

-----------------------------------------------------------------------------
\* Every thread is in a stack of calls of the library, and every mutex has one
\* owner or none.
THEOREM LoggingTyped == Spec => []TypeOK
<1>1. Inv => TypeOK
  BY DEF Inv
<1> QED BY <1>1, InvAlways, PTL

\* Whatever handlers are installed, and whatever they call back, a handler that
\* runs is the one that is installed, with the user it was installed with, and
\* runs alone; qcGetLogHandler returns what was installed together.
THEOREM HandlersAreCurrent == Spec => []HandlerIsCurrent
  BY CurrentHandler, InvAlways, PTL

\* However many buffers and builders log from however many threads, a circle of
\* threads that wait for one another goes through a handler that called back.
THEOREM OnlyCallbacksWait == Spec => []WaitsAreCallbacks
  BY NoCircle, InvAlways, PTL
=============================================================================
