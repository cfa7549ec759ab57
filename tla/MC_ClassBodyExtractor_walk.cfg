CONSTANT Texts <- MC_Texts
CONSTANT MaxFragments = 4
SPECIFICATION Spec
INVARIANT BodyIsBraceMatched
CHECK_DEADLOCK FALSE
