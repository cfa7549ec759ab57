CONSTANT Code = {"x"}
INIT Init
NEXT Next
INVARIANT StripRemovesOnlyComments
