CONSTANTS
  Snippets <- MC_BodySnippets
  MinDepth = 0
  MaxDepth = 2
SPECIFICATION Spec
PROPERTY NoEntryFromFunctionBody
