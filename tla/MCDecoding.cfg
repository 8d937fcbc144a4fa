SPECIFICATION Spec
CONSTANTS
  PERSON_SIZE = 48
  PHONE_SIZE = 24
  STRING_SIZE = 16
  Foos <- MCFoos
  Books <- MCBooks
  Heaps = {0, 63, 64, 111, 112, 160, 255, 976}
  NULL = NULL
INVARIANTS
  DecodesMeaning
  AbortsForCause
  AbortedBookIsPrefix
  RoundTrip
CHECK_DEADLOCK FALSE
