SPECIFICATION FairImportSpec
CONSTANTS
  Conn = {c1, c2}
  Dev = {d1}
  NoConn = NoConn
  Vudc = FALSE
  CutPath = {}
  Requests <- Imports
  Machine = {m1}
  MachineOf <- OneMachine
  Port = {0}
INVARIANTS
  AttachedIsExported
  PortKeepsConnection
PROPERTIES
  DeviceComesBack
  AttachReturns
CHECK_DEADLOCK FALSE
