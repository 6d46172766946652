SPECIFICATION Spec
CONSTANTS
  Cert = {A}
  TaskId = {t1, t2, t3}
  Slot = {s1, s2}
  Nonce = {0}
  NoNonce = NoNonce
  MaxDelay = 2
  Hourly = FALSE
  MaxUploads = 1
  MaxFailures = 0
  MaxRestarts = 0
  MaxResets = 0
CHECK_DEADLOCK FALSE
PROPERTIES
  RetriedUntilSuccess
