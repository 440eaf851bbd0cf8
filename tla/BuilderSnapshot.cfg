SPECIFICATION Spec

CONSTANTS
  t1 = t1
  t2 = t2
  x = x
  NUL = NUL
  Char = {NUL, x}
  TypeCount = 2
  OpCount = 2
  MaxArgs = 1
  SizeMod = 16
  Thread = {t1, t2}
  Entries <- MCSmallEntries
  MaxLen <- MCSmallMaxLen
  Quiesced = FALSE
  Free = Free
  NoAdd = NoAdd
  NoEmit = NoEmit
  Torn = Torn
  NotEmitted = NotEmitted
  Allocator = Allocator
  Wild = Wild

INVARIANT
  WholeEmitIsSnapshot
