SPECIFICATION Spec
CONSTANT Samples <- MCCalls
INVARIANT NamedArgumentsReachTheirParameters
