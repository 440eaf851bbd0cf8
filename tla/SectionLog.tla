----------------------------- MODULE SectionLog -----------------------------
(***************************************************************************)
(* What a bytecode builder promises (bytecode.h:182-237): entries are        *)
(* appended one at a time and never change, only entries whose references    *)
(* resolve are added, and what is emitted is the state of the builder.       *)
(***************************************************************************)
EXTENDS ByteCode

CONSTANTS
  Entries,    \* what can be added to each section
  NotEmitted  \* nothing was emitted yet

VARIABLES
  log,        \* the sections
  released    \* the sections of the bytecode that was emitted, or NotEmitted

logVars == <<log, released>>

EntryClosed(s, e) ==
  /\ s = "defs" => DefClosed(log, e)
  /\ s = "fields" => FieldClosed(log, e)
  /\ s = "fns" => FnClosed(log, e)

LogInit == log = Empty /\ released = NotEmitted

LogAdd ==
  \E s \in Sections : \E e \in Entries[s] :
    /\ EntryClosed(s, e)
    /\ log' = Added(log, s, e)
    /\ UNCHANGED released

LogEmit == released' = log /\ UNCHANGED log

LogDiscard == released' = NotEmitted /\ UNCHANGED log

\* A new builder starts empty; what was emitted before is independent of it.
LogRenew == log' = Empty /\ UNCHANGED released

LogNext == LogAdd \/ LogEmit \/ LogDiscard \/ LogRenew

LogSpec == LogInit /\ [][LogNext]_logVars
=============================================================================
