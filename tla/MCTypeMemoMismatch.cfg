SPECIFICATION Spec
CONSTANT Programs <- Mismatch
INVARIANT IfClausesAgree
