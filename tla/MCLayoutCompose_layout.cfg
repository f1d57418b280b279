SPECIFICATION Spec
CONSTANTS
  Recipes <- TheRecipes
  Catalog <- TheCatalog
  Decode <- TheDecode
  Encode <- TheEncode
  LowerToken <- TheLowerToken
  Lower <- TheLower
  Upper <- TheUpper
  Fold <- TheLower
  Locales <- TheLocales
  Hints <- TheHints
  Depth = 5
INVARIANT TypeOK
INVARIANT SourcesAreTrue
INVARIANT LastHighestWins
INVARIANT EarlierCategoryWins
INVARIANT GapsAreReal
INVARIANT AnchorsComeFirst
PROPERTY PoliteWritesKeep
PROPERTY FillsOnlyAdd
CHECK_DEADLOCK FALSE
