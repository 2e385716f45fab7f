SPECIFICATION Spec
CONSTANTS
  Conn = {c1}
  Dev = {d1, d2}
  NoConn = NoConn
  Vudc = FALSE
  CutPath = {d1}
  Requests <- ListAndImport
PROPERTY BoundIsFound
CHECK_DEADLOCK FALSE
