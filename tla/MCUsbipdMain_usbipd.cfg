SPECIFICATION FairMainSpec
CONSTANTS
  Inst = {d1, d2}
  WithPid = {d1, d2}
  Family = {4, 6}
  FamiliesOf <- OneHasBoth
  Conn = {c1, c2}
  NoInst = NoInst
INVARIANT PidFileIsTrue
PROPERTIES
  TermEnds
  PortComesBack
  QueueDrains
CHECK_DEADLOCK FALSE
