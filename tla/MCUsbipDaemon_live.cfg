SPECIFICATION FairSpec
CONSTANTS
  Conn = {c1, c2}
  Dev = {d1}
  NoConn = NoConn
  Vudc = TRUE
  CutPath = {}
  Requests <- AllKinds
PROPERTIES
  ConnectionReclaimed
  RequestServed
CHECK_DEADLOCK FALSE
