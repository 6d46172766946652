SPECIFICATION FairSpec
CONSTANTS
  Cert = {A, B}
  Name = {n}
  FileId <- TwoFiles
  NoFile = NoFile
  NoKey = NoKey
  Content = {c1, c2}
  Absent = Absent
  FirstCert = A
  NoCert = NoCert
  Budget <- OneRenewal
PROPERTIES
  KeysConverge
