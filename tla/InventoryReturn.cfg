SPECIFICATION Spec
CONSTANTS
  Cert = {A}
  Name = {n}
  FileId <- TwoFiles
  NoFile = NoFile
  NoKey = NoKey
  Content = {c1, c2}
  Absent = Absent
  FirstCert = A
  NoCert = NoCert
  Budget <- OneExpiry
PROPERTIES
  HostRepopulated
