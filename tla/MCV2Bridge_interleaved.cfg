SPECIFICATION FairSpec
CONSTANTS
  c1 = c1
  c2 = c2
  i1 = i1
  i2 = i2
  Conns = {c1, c2}
  Ims = {i1, i2}
  ImConn <- TwoClients
  A = A
  B = B
  Reading = {c1}
  Ctxs = {A}
  Notifying = {}
  Preediting = {i1, i2}
  Calls = {g1}
  NoIm = NoIm
  NoCtx = NoCtx
  Bracketed = FALSE
  MaxText = 2
  MaxGrab = 0
  MaxSerial = 0
INVARIANT TypeOK
PROPERTY ImplementsTextChannel
PROPERTY FocusReachesIm
CHECK_DEADLOCK FALSE
