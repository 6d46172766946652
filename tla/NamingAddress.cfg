SPECIFICATION Spec
CONSTANTS
  A = A
  B = B
  Host = {A, B}
  Ip = {1, 2}
  Name = {x, y}
  NoName = NoName
  Empty = Empty
  Addresses <- Roaming
  Networks = {"auto"}
  Edited = {}
  OneAddress = TRUE
  OwnSecond = TRUE
  MaxUploads = 2
  MaxRequests = 0
  MaxRemovals = 0
CHECK_DEADLOCK FALSE
PROPERTIES
  ParsedAddressIsNoticed
