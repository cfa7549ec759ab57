CONSTANTS
  Tags <- MC_Tags
  Datas <- MC_PlainDatas
  Literals <- MC_Literals
  MaxNodes = 5
SPECIFICATION Spec
INVARIANT TypeOK
INVARIANT CanonicalTextReparsesToSameTree
