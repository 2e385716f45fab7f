SPECIFICATION Spec
CONSTANTS
  Conn = {c1, c2}
  Dev = {d1, d2}
  NoConn = NoConn
  Vudc = FALSE
  CutPath = {}
  Requests <- AllKinds
SYMMETRY Symmetry
INVARIANTS
  TypeOK
  OkReplyBacked
  NoOrphanExport
  ReplyWellFormed
  DevlistFramed
PROPERTY ImplementsLease
CHECK_DEADLOCK FALSE
