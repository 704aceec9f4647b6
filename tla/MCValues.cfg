CONSTANTS
  Literals <- MCLiterals
  MaxSteps = 6
  MaxOperands = 2
SPECIFICATION Spec
INVARIANTS
  TypeOK
  TypesTranslated
  OnlyPointersMisfit
  ConstantsReadBack
PROPERTY ImplementsArithmetic
CHECK_DEADLOCK FALSE
