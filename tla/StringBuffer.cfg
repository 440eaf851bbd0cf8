SPECIFICATION Spec

CONSTANTS
  chA = chA
  chB = chB
  NUL = NUL
  Byte = {NUL, chA, chB}
  NoString = NoString
  PageSize = 6
  MaxBufIdx = 1
  Texts <- MCTexts
  MaxViews = 1

INVARIANTS
  TypeOK
  ExtentsInBounds
  PagesTerminated
  OnePage
  LatestIsStored
  EmplaceIsIdempotent
  NeverFull

PROPERTY
  LengthLatched
