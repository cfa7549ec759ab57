CONSTANTS
  Tags <- MC_Tags
  Datas <- MC_EntityDatas
  Literals <- MC_Literals
  MaxNodes = 3
SPECIFICATION Spec
INVARIANT CanonicalTextReparsesToSameTree
