SPECIFICATION FairSpec
CONSTANTS
  Cert = {A, B}
  Name = {n, m}
  FileId <- TwoFiles
  NoFile = NoFile
  NoKey = NoKey
  Content = {c1}
  Absent = Absent
  FirstCert = A
  NoCert = NoCert
  Budget <- Failures
INVARIANTS
  SearchNeverPanics
  OneCurrentVersion
PROPERTIES
  FilesGetParsed
  CacheConverges
