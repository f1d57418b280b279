SPECIFICATION Spec
CONSTANTS
  Layout <- TestLayout
  Chains <- AllChains
  Methods <- Both
  ModStates <- Mods
  StateId <- Underscored
  FirstOf <- FirstInOrder
  MaxKeys = 4
  MaxHides = 1
INVARIANT TypeOK
INVARIANT ComposesAsWritten
INVARIANT EffectsAreFlushed
PROPERTY KeyShowsBuffer
CHECK_DEADLOCK FALSE
