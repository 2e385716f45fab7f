SPECIFICATION Spec
CONSTANTS
  Conn = {c1, c2}
  Dev = {d1}
  NoConn = NoConn
  Vudc = FALSE
  CutPath = {}
  Requests <- ListAndImport
PROPERTY DevlistHidesExported
CHECK_DEADLOCK FALSE
