SPECIFICATION Spec
CONSTANTS
  c1 = c1
  c2 = c2
  i1 = i1
  i2 = i2
  A = A
  B = B
  Conns = {c1}
  Ims = {i1, i2}
  ImConn <- OneClient
  Reading = {c1}
  Ctxs = {A, B}
  Notifying = {B}
  Preediting = {}
  Calls = {g1}
  NoIm = NoIm
  NoCtx = NoCtx
  Bracketed = TRUE
  MaxText = 2
  MaxGrab = 0
  MaxSerial = 0
INVARIANT NoCrossContextText
INVARIANT FocusedImIsActive
PROPERTY TextInOrder
CHECK_DEADLOCK FALSE
