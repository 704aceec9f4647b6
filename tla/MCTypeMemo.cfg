SPECIFICATION FairSpec
CONSTANT Programs <- MCPrograms
INVARIANTS TypeOK UndecidedIsTemporary NoReentry TypesFit MemoIsTransparent
PROPERTIES TypesAreFinal LineStandsForItsFirst QueriesEnd
