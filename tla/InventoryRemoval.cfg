SPECIFICATION FairSpec
CONSTANTS
  Cert = {A}
  Name = {n}
  FileId <- ThreeFiles
  NoFile = NoFile
  NoKey = NoKey
  Content = {c1, c2}
  Absent = Absent
  FirstCert = A
  NoCert = NoCert
  Budget <- Removals
INVARIANTS
  TypeOK
  SearchNeverPanics
  OneCurrentVersion
  ReverseWithoutRenewal
  SearchesAgree
PROPERTIES
  CacheConverges
