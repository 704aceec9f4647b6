CONSTANTS
  Names = {a, b}
  MaxContexts = 3
  MaxSymbols = 5
SPECIFICATION Spec
SYMMETRY NameSymmetry
INVARIANTS
  TypeOK
  GuardDiscipline
  DependenciesWellFounded
  LexicalVisibility
  ReturnedContextsComplete
  NamesUnambiguous
  NullWhileAnalysed
PROPERTIES
  SingleAssignment
