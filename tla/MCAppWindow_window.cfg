SPECIFICATION WinSpec
CONSTANTS
  Dev = {d1, d2}
  Refresh = {r1, r2}
  Task = {k1, k2, k3}
  Port = {p1, p2}
  NoPort = NoPort
  NoDev = NoDev
INVARIANTS
  WinTypeOK
  AttachedIsShown
  NoNullPort
  DescriptionsLive
  ButtonComesBack
SYMMETRY Symmetry
CHECK_DEADLOCK FALSE
