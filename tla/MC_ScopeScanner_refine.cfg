CONSTANTS
  Snippets <- MC_Snippets
  MinDepth = 0
  MaxDepth = 3
SPECIFICATION Spec
INVARIANT ScopeStacksConsistent
PROPERTY ImplementsScopeNesting
