CONSTANTS
  Roots <- MC_Roots
  Trees <- MC_Trees
  Rank <- MC_Rank
  Lower <- MC_Lower
SPECIFICATION Spec
PROPERTY CatalogListsEverySource
CHECK_DEADLOCK FALSE
