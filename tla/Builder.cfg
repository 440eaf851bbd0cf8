SPECIFICATION Spec

CONSTANTS
  t1 = t1
  t2 = t2
  x = x
  NUL = NUL
  Char = {NUL, x}
  TypeCount = 2
  OpCount = 2
  MaxArgs = 1
  SizeMod = 16
  Thread = {t1, t2}
  Entries <- MCEntries
  MaxLen <- MCMaxLen
  Quiesced = TRUE
  Free = Free
  NoAdd = NoAdd
  NoEmit = NoEmit
  Torn = Torn
  NotEmitted = NotEmitted
  Allocator = Allocator
  Wild = Wild

SYMMETRY Symmetry

INVARIANTS
  TypeOK
  BuilderClosed
  IndexesStand
  EmitIsSnapshot

PROPERTY
  ImplementsLog
