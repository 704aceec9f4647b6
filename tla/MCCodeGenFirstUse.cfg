SPECIFICATION Spec
CONSTANT Programs <- FirstUse
INVARIANT StoresReachLoads
