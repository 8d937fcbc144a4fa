SPECIFICATION FairSpec
CONSTANTS
  c1 = c1
  c2 = c2
  small = small
  large = large
  Clients <- MCClients
  Messages <- MCMessages
  Dropped <- MCDropped
  Descriptors = 2
  MaxConns = 3
INVARIANTS
  TypeOK
  FilteredWhileLoaded
  ReceivedInOrder
PROPERTY
  ReceivedUnlessBlocked
CHECK_DEADLOCK FALSE
