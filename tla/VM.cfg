SPECIFICATION Spec

CONSTANTS
  chA = chA
  chB = chB
  sp = sp
  Space = sp
  linking = linking
  doubled = doubled
  sized = sized
  missing = missing
  NUL = NUL
  Byte = {NUL, chA, chB, sp}
  NoString = NoString
  PageSize = 7
  MaxBufIdx = 1
  Defaults <- MCDefaults
  Natives <- MCNatives
  Indexes = {2}
  MaxParams = 1
  Images = {linking, doubled, sized, missing}
  Fns <- MCFns
  Defs <- MCDefs
  Numbers <- MCNumbers
  MaxLoads = 2
  NoStore = NoStore
  NoCall = NoCall
  NoLoad = NoLoad
  NoFn = NoFn

INVARIANTS
  TypeOK
  NamesAreTaken
  BuiltinsBacked
  LoadedAreFindable
  LoadLeaves

PROPERTY
  NothingDisappears
