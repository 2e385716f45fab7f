SPECIFICATION PortsSpec
CONSTANTS
  a1 = a1
  a2 = a2
  d1 = d1
  app = app
  other = other
  Proc = {app, other}
  Attacher <- MCAttacher
  Detacher <- MCDetacher
  ProcOf <- MCProcOf
  Port = {0, 1}
  Nobody = Nobody
INVARIANTS
  PortsTypeOK
  LibraryIsSound
  RecordIsOwners
  DetachedWasFree
CHECK_DEADLOCK FALSE
