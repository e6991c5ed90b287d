CONSTANTS
  Catalogue <- AllPrograms
  Capacity = 2
SPECIFICATION Spec
INVARIANTS
  RaceFree
  StatedResults
  NothingLost
PROPERTIES
  SignalsCannotCutIn
  NoBrokenPipe
  ProgramsEnd
