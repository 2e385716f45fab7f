SPECIFICATION FairMetaSpec
CONSTANTS
  Proc = {s1, s2, s3}
  Dev = {d1}
  Imported <- NoDevice
  Onboard <- NoDevice
  Conn = {c1}
  NoProc = NoProc
  MaxPlugs = 1
INVARIANTS
  MetaTypeOK
  ResetExclusive
  BoundIsMatched
  ServedIsBound
  ListIsFresh
PROPERTIES
  ConnectionSettles
CHECK_DEADLOCK FALSE
