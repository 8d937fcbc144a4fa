SPECIFICATION FpuSpec
CONSTANTS
  BUFFER_SIZE = 1024
  INT_MAX = 32767
  Cpus = {c1}
  Slots = {s1}
  Messages <- MCMessages
  Packets <- BookPackets
  ProcessMessage <- MCProcessMessage
  NULL = NULL
  PERSON_SIZE = 48
  PHONE_SIZE = 24
  STRING_SIZE = 16
  FloatMessages <- FloatsMessages
  Greater <- MCGreater
  HEAP = 976
  TEXT = 10
INVARIANTS
  ReadmeWorkRule
CHECK_DEADLOCK FALSE
