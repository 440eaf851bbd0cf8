CONSTANTS
  NUL = NUL
  chB = chB
  chX = chX
  a1 = a1
  a2 = a2
  a3 = a3
  a4 = a4
  n1 = n1
  Byte <- MCByte
  PageSize = 5
  MaxBufIdx = 1
  NoString = NoString
  PtrBits = 8
  MaxIntBits = 8
  SizeMod = 64
  NoType = NoType
  Address <- MCAddress
  Null = Null
  Texts <- MCTexts
  Names <- MCNames
  BasicTypes <- MCBasicTypes
  Lengths <- MCLengths
  MaxTypes = 2
  MaxNodes = 2
SPECIFICATION Spec
SYMMETRY Symmetry
INVARIANTS
  TypeOK
  OneOwner
  ReachableIsAlive
  TypesAreInterned
CHECK_DEADLOCK FALSE
