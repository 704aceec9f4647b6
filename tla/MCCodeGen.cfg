SPECIFICATION Spec
CONSTANT Programs <- MCPrograms
INVARIANTS TypeOK BuilderInFunction TerminatorsCounted ArgumentsReachLoads EntriesHeld StructsMadeOnce UndefinedExplained
