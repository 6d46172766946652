SPECIFICATION FairSpec
CONSTANTS
  A = A
  B = B
  Host = {A, B}
  Ip = {1, 2}
  Name = {x, y}
  NoName = NoName
  Empty = Empty
  Addresses <- Roaming
  Networks = {"dns", "auto", "none"}
  Edited = {"dns", "none"}
  OneAddress = TRUE
  OwnSecond = TRUE
  MaxUploads = 2
  MaxRequests = 1
  MaxRemovals = 1
CHECK_DEADLOCK FALSE
INVARIANTS
  TypeOK
PROPERTIES
  NamesSettle
  OverrideHolds
