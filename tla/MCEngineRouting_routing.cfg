SPECIFICATION Spec
CONSTANTS
  A = A
  B = B
  Ctxs = {A, B}
  Names = {e1, e2}
  Catalog = {e1}
  Calls = {g1, g2}
  NoCtx = NoCtx
  NoName = NoName
  MidFocus = FALSE
  MaxHandles = 2
  MaxKeys = 0
SYMMETRY Symmetry
INVARIANT RoutesAreLive
INVARIANT OneProcessPerEngine
INVARIANT OneLateSignal
PROPERTY SignalsAreForFocus
CHECK_DEADLOCK FALSE
