SPECIFICATION Spec
CONSTANTS
  x = x
  NUL = NUL
  Char = {NUL, x}
  TypeCount = 2
  OpCount = 2
  MaxArgs = 1
  SizeMod = 256
  Files <- MCFiles
  al1 = al1
  al2 = al2
  Allocators = {al1, al2}
  NoByteCode = NoByteCode
INVARIANTS
  TypeOK
  ReturnedIsTheFile
  NamesAreInside
  RefusedForCause
CHECK_DEADLOCK FALSE
