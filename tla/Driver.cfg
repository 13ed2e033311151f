CONSTANTS
  Programs <- MCPrograms
  MaxResets = 2
SPECIFICATION Spec
INVARIANTS
  Accounted
  BeatsAreLive
PROPERTIES
  EveryItemAnswered
CHECK_DEADLOCK FALSE
