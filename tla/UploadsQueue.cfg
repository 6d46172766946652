SPECIFICATION FairSpec
CONSTANTS
  Cert = {A}
  TaskId = {t1, t2}
  Slot = {s1, s2}
  Nonce = {0, 1}
  NoNonce = NoNonce
  MaxDelay = 1
  Hourly = TRUE
  MaxUploads = 2
  MaxFailures = 3
  MaxRestarts = 1
  MaxResets = 1
CHECK_DEADLOCK FALSE
INVARIANTS
  TypeOK
  OneArchiveAtATime
  NothingUnpackedNothingDone
  HonestClientKeepsCert
PROPERTIES
  QueueDrains
