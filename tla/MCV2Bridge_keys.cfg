SPECIFICATION Spec
CONSTANTS
  c1 = c1
  c2 = c2
  i1 = i1
  i2 = i2
  A = A
  B = B
  Conns = {c1}
  Ims = {i1, i2}
  ImConn <- OneClient
  Reading = {c1}
  Ctxs = {}
  Notifying = {}
  Preediting = {}
  Calls = {g1, g2}
  NoIm = NoIm
  NoCtx = NoCtx
  Bracketed = TRUE
  MaxText = 0
  MaxGrab = 2
  MaxSerial = 1
SYMMETRY CallSymmetry
INVARIANT GrabIsUsable
INVARIANT ActiveImIsManagersCurrent
CHECK_DEADLOCK FALSE
