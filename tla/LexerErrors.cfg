SPECIFICATION Spec
CONSTANTS
  Char <- MCChar
  isalpha <- MCisalpha
  isdigit <- MCisdigit
  isxdigit <- MCisxdigit
  isblank <- MCisblank
  Sources <- MCSources
  MaxLen = 3
  MaxStrLen = 3
PROPERTY
  ErrorsLeaveLocation
CHECK_DEADLOCK FALSE
