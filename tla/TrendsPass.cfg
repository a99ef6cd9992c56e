SPECIFICATION Spec
CONSTANTS
  Days = 4
  Window = 3
  EmptyLimit = 1
  Forced <- ForcedFrom
  MaxMishaps = 2
INVARIANTS TypeOK WindowAndQueue FilledInStep
