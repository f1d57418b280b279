SPECIFICATION FairSpec
CONSTANTS
  A = A
  B = B
  Ctxs = {A}
  Names = {e1}
  Catalog = {e1}
  Calls = {g1, g2}
  NoCtx = NoCtx
  NoName = NoName
  MidFocus = FALSE
  MaxHandles = 1
  MaxKeys = 2
INVARIANT OneTierPerKey
PROPERTY KeyReturns
CHECK_DEADLOCK FALSE
