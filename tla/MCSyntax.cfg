SPECIFICATION Spec
CONSTANT Samples <- MCSamples
INVARIANTS
  MeaningIsWhatWasWritten
  NothingSkipped
  RefusedExactly
