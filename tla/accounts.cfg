CONSTANTS
  Addresses = {a1}
  Browsers = {b1}
  Handlers = {h1, h2}
  Links = {l1, l2, l3}
  Threshold = 2
  MaxPassword = 2
  People = {p1, p2}
  Consoles = {b2, b3}
  Scopes = {s1, s2}
  Nowhere = Nowhere
  Nobody = Nobody
SPECIFICATION BothSpec
SYMMETRY Symmetry
INVARIANTS BothTypeOK ServedByCurrentProof NoSecondKey OneNoticePerLock NoSessionOutlivesItsAccount
PROPERTIES ResetByResetLinkOnly LinkWorksOnce LockHolds ResetUnlocks ImplementsSessions AnAdministratorRemains
CHECK_DEADLOCK FALSE
