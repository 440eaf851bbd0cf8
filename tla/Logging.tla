------------------------------ MODULE Logging ------------------------------
(***************************************************************************)
(* The log handler of common.cpp, its mutex, and the threads whose calls    *)
(* log.  qcLogV calls the handler with the mutex held, and a string buffer  *)
(* or a builder logs with its own mutex held, so a message can be logged two *)
(* mutexes deep.  Handlers are code of the callers: what they call back is a *)
(* parameter.                                                               *)
(*                                                                          *)
(* stack[t] are the calls thread t is in, the innermost first.  A call is at *)
(* "lock" until it has its mutex; std::mutex is not recursive, so a thread   *)
(* that locks a mutex it owns waits forever.                                *)
(***************************************************************************)
EXTENDS Naturals, Sequences

CONSTANTS
  Thread,
  Part,       \* the string buffers and builders, each with a mutex
  Handler,    \* the functions that may be installed
  Pairs,      \* what callers pass to qcSetLogHandler: functions with users
  Default,    \* the pair of qcvm_defaultLogHandler and nullptr
  Calls,      \* Calls[fn]: the calls the body of a handler makes
  LogMutex,   \* qcvm_logMut
  Nobody,     \* no thread
  MaxLogs,    \* bound: the messages a part logs in one call
  MaxCalls    \* bound: the calls a thread makes

\* A pair is a function and the data installed with it.
Operation == {"log", "set", "get"} \cup Part
Fn == Handler \cup {Default.fn}
Pair == [fn : Fn, user : {p.user : p \in Pairs \cup {Default}}]

ASSUME LoggingAssumption ==
  /\ Nobody \notin Thread
  /\ LogMutex \notin Part
  /\ {"log", "set", "get"} \cap Part = {}
  /\ Default = [fn |-> Default.fn, user |-> Default.user]
  /\ Pairs \subseteq Pair
  /\ Calls \in [Fn -> SUBSET Operation]
  /\ Calls[Default.fn] = {}
  /\ MaxLogs \in Nat /\ MaxCalls \in Nat

VARIABLES
  owner,      \* the thread that holds each mutex
  fn, user,   \* qcvm_logHandler and qcvm_logUser
  stack,      \* the calls each thread is in
  calls       \* how many calls each thread has made

vars == <<owner, fn, user, stack, calls>>

Mutex == Part \cup {LogMutex}

\* pair: what qcSetLogHandler was given, what qcGetLogHandler has read, or the
\* handler that is running.  left: the messages a part may still log.
Frame == [op : Operation, at : {"lock", "held", "half", "run", "done"},
          pair : Pair, left : 0 .. MaxLogs]

TypeOK ==
  /\ owner \in [Mutex -> Thread \cup {Nobody}]
  /\ fn \in Fn
  /\ user \in {p.user : p \in Pairs \cup {Default}}
  /\ stack \in [Thread -> Seq(Frame)]
  /\ calls \in [Thread -> 0 .. MaxCalls]

Init ==
  /\ owner = [m \in Mutex |-> Nobody]
  /\ fn = Default.fn
  /\ user = Default.user
  /\ stack = [t \in Thread |-> <<>>]
  /\ calls = [t \in Thread |-> 0]

MutexOf(f) == IF f.op \in Part THEN f.op ELSE LogMutex

In(t) == stack[t] # <<>>
Top(t) == Head(stack[t])
Push(t, f) == stack' = [stack EXCEPT ![t] = <<f>> \o stack[t]]
SetTop(t, f) == stack' = [stack EXCEPT ![t] = <<f>> \o Tail(stack[t])]
Pop(t) == stack' = [stack EXCEPT ![t] = Tail(stack[t])]

-----------------------------------------------------------------------------
\* Mutants.
SetCleared(t) ==
  /\ In(t) /\ Top(t).op = "set" /\ Top(t).at = "held"
  /\ fn' = Nobody
  /\ SetTop(t, [Top(t) EXCEPT !.at = "half"])
  /\ UNCHANGED <<owner, user, calls>>

ReturnKeepsMutex(t) ==
  /\ In(t)
  /\ \/ Top(t).at \in {"run", "done"}
     \/ Top(t).op \in Part /\ Top(t).at = "held"
  /\ owner' = IF Top(t).op = "get" THEN owner
              ELSE [owner EXCEPT ![MutexOf(Top(t))] = Nobody]
  /\ Pop(t)
  /\ UNCHANGED <<fn, user, calls>>

InvokeUnlocked(t) ==
  /\ In(t) /\ Top(t).op = "log" /\ Top(t).at = "held"
  /\ owner' = [owner EXCEPT ![LogMutex] = Nobody]
  /\ SetTop(t, [Top(t) EXCEPT !.at = "run", !.pair = [fn |-> fn, user |-> user]])
  /\ UNCHANGED <<fn, user, calls>>

SetterLogs(t, op) ==
  \/ Top(t).op = "log" /\ Top(t).at = "run" /\ op \in Calls[Top(t).pair.fn]
  \/ Top(t).op = "set" /\ Top(t).at = "half" /\ op = "log"

-----------------------------------------------------------------------------
\* Calls.

New(op, pair) == [op |-> op, at |-> "lock", pair |-> pair, left |-> MaxLogs]

\* The arguments of a call: only qcSetLogHandler has one that matters.
Arguments(op) == IF op = "set" THEN Pairs ELSE {Default}

\* The code of a caller makes a call.
CallerCalls(t, op, pair) ==
  /\ ~In(t) /\ calls[t] < MaxCalls
  /\ pair \in Arguments(op)
  /\ calls' = [calls EXCEPT ![t] = calls[t] + 1]
  /\ Push(t, New(op, pair))
  /\ UNCHANGED <<owner, fn, user>>

\* The code inside a call that may make another, beside a part: the body of a
\* handler that is running.
CallsBack(t, op) ==
  Top(t).op = "log" /\ Top(t).at = "run" /\ op \in Calls[Top(t).pair.fn]

HandlerCalls(t, op, pair) ==
  /\ In(t) /\ CallsBack(t, op)
  /\ pair \in Arguments(op)
  /\ Push(t, New(op, pair))
  /\ UNCHANGED <<owner, fn, user, calls>>

\* A part reports an error or a warning with its mutex held.
PartLogs(t) ==
  /\ In(t) /\ Top(t).op \in Part /\ Top(t).at = "held" /\ Top(t).left > 0
  /\ stack' = [stack EXCEPT
                 ![t] = <<New("log", Default)>>
                        \o (<<[Top(t) EXCEPT !.left = Top(t).left - 1]>> \o Tail(stack[t]))]
  /\ UNCHANGED <<owner, fn, user, calls>>

\* std::scoped_lock.
Lock(t) ==
  /\ In(t) /\ Top(t).at = "lock"
  /\ owner[MutexOf(Top(t))] = Nobody
  /\ owner' = [owner EXCEPT ![MutexOf(Top(t))] = t]
  /\ SetTop(t, [Top(t) EXCEPT !.at = "held"])
  /\ UNCHANGED <<fn, user, calls>>

\* qcLogV calls what is installed.
Invoke(t) ==
  /\ In(t) /\ Top(t).op = "log" /\ Top(t).at = "held"
  /\ SetTop(t, [Top(t) EXCEPT !.at = "run", !.pair = [fn |-> fn, user |-> user]])
  /\ UNCHANGED <<owner, fn, user, calls>>

\* qcSetLogHandler assigns the function, then its user.
SetFn(t) ==
  /\ In(t) /\ Top(t).op = "set" /\ Top(t).at = "held"
  /\ fn' = Top(t).pair.fn
  /\ SetTop(t, [Top(t) EXCEPT !.at = "half"])
  /\ UNCHANGED <<owner, user, calls>>

SetUser(t) ==
  /\ In(t) /\ Top(t).op = "set" /\ Top(t).at = "half"
  /\ user' = Top(t).pair.user
  /\ SetTop(t, [Top(t) EXCEPT !.at = "done"])
  /\ UNCHANGED <<owner, fn, calls>>

\* qcGetLogHandler reads the user, then the function.
GetUser(t) ==
  /\ In(t) /\ Top(t).op = "get" /\ Top(t).at = "held"
  /\ SetTop(t, [Top(t) EXCEPT !.at = "half", !.pair.user = user])
  /\ UNCHANGED <<owner, fn, user, calls>>

GetFn(t) ==
  /\ In(t) /\ Top(t).op = "get" /\ Top(t).at = "half"
  /\ SetTop(t, [Top(t) EXCEPT !.at = "done", !.pair.fn = fn])
  /\ UNCHANGED <<owner, fn, user, calls>>

\* A call, or the handler it called, comes back, and the lock is destroyed.
Return(t) ==
  /\ In(t)
  /\ \/ Top(t).at \in {"run", "done"}
     \/ Top(t).op \in Part /\ Top(t).at = "held"
  /\ owner' = [owner EXCEPT ![MutexOf(Top(t))] = Nobody]
  /\ Pop(t)
  /\ UNCHANGED <<fn, user, calls>>

\* The steps of code that has been called.
Step(t) ==
  \/ \E op \in Operation, pair \in Pairs \cup {Default} : HandlerCalls(t, op, pair)
  \/ PartLogs(t)
  \/ Lock(t)
  \/ Invoke(t)
  \/ SetFn(t)
  \/ SetUser(t)
  \/ GetUser(t)
  \/ GetFn(t)
  \/ Return(t)

Next ==
  \E t \in Thread :
    \/ \E op \in Operation, pair \in Pairs \cup {Default} : CallerCalls(t, op, pair)
    \/ Step(t)

\* A thread that is in a call goes on: the library has no step that waits but
\* for a mutex, and a handler that calls nothing comes back.
Spec == Init /\ [][Next]_vars /\ \A t \in Thread : WF_vars(Step(t))

-----------------------------------------------------------------------------
(***************************************************************************)
(* Properties.                                                              *)
(***************************************************************************)

\* A position in the stack of a thread.
Position == UNION {{t} \X DOMAIN stack[t] : t \in Thread}
FrameAt(p) == stack[p[1]][p[2]]
RunningAt(p) == FrameAt(p).op = "log" /\ FrameAt(p).at = "run"

\* A handler that is running is the one that is installed, runs with the user
\* it was installed with, and runs alone: once qcSetLogHandler has returned,
\* the handler and the user it replaced are out of use.  What qcGetLogHandler
\* returns was installed together too.
HandlerIsCurrent ==
  \A p \in Position :
    /\ RunningAt(p) =>
         /\ FrameAt(p).pair = [fn |-> fn, user |-> user]
         /\ FrameAt(p).pair \in Pairs \cup {Default}
         /\ \A q \in Position : RunningAt(q) => q = p
    /\ FrameAt(p).op = "get" /\ FrameAt(p).at = "done" =>
         FrameAt(p).pair \in Pairs \cup {Default}

WaitsFor(t) == MutexOf(Top(t))
Waits(t) == In(t) /\ Top(t).at = "lock"
RunsHandler(t) ==
  \E i \in DOMAIN stack[t] : stack[t][i].op = "log" /\ stack[t][i].at = "run"

\* Threads that wait for one another for ever include one that is in a handler
\* which called back into the library: nothing the library does by itself, and
\* no part that logs with its own mutex held, can close the circle.
WaitsAreCallbacks ==
  \A S \in (SUBSET Thread) \ {{}} :
    (\A t \in S : Waits(t) /\ owner[WaitsFor(t)] \in S)
      => \E t \in S : RunsHandler(t)

\* While the handlers that get installed call nothing back, every call returns,
\* whoever logs or exchanges handlers meanwhile.
CallsReturn ==
  \A t \in Thread :
    [](Calls[fn] = {}) => (In(t) ~> ~In(t))
=============================================================================
