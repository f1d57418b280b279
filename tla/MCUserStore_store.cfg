SPECIFICATION Spec
CONSTANTS
  us = us
  a = a
  b = b
  x = x
  y = y
  r1 = r1
  r2 = r2
  r3 = r3
  Files = {us}
  Variants = {a, b}
  Specs = {x, y}
  None = None
  Broken = Broken
  System <- Shipped
  Requests = {r1, r2, r3}
  NoJob = NoJob
  NoAnswer = NoAnswer
  Jobs <- EditorJobs
  Overlap = FALSE
  MaxCrashes = 1
SYMMETRY RequestSymmetry
INVARIANT TypeOK
PROPERTY ImplementsLayoutStore
CHECK_DEADLOCK FALSE
