SPECIFICATION Spec
CONSTANTS
  BUFFER_SIZE = 1024
  INT_MAX = 32767
  Cpus = {c1, c2}
  Slots = {s1, s2}
  Messages = {"good", "bad", "cut"}
  Packets <- MCPackets
  ProcessMessage <- MCProcessMessage
  NULL = NULL
INVARIANT NoSkbLeak
CHECK_DEADLOCK FALSE
