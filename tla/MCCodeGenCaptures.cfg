SPECIFICATION Spec
CONSTANT Programs <- CapturesErased
INVARIANT StoresReachLoads
