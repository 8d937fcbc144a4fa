SPECIFICATION FairSpec
CONSTANTS
  c1 = c1
  c2 = c2
  small = small
  large = large
  Clients <- MCClients
  Messages <- MCMessages
  Dropped <- MCDropped
  Descriptors = 2
  MaxConns = 3
PROPERTY AcceptedReceived
CHECK_DEADLOCK FALSE
