INIT Init
NEXT Next
INVARIANT ReturnTypeGateAsSpecified
