SPECIFICATION Spec
CONSTANTS
  Char <- MCChar
  isalpha <- MCisalpha
  isdigit <- MCisdigit
  isxdigit <- MCisxdigit
  isblank <- MCisblank
  Sources <- MCSources
  MaxLen = 4
  MaxStrLen = 6
INVARIANTS
  TypeOK
  TokensAreLongest
  LocationsAgree
  ErrorsAreExact
PROPERTIES
  Advances
  Terminates
CHECK_DEADLOCK FALSE
