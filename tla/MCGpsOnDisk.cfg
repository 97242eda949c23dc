SPECIFICATION Spec
CONSTANTS
  Orders = {"little", "big"}
  Base = 4
  Coordinates = {6, 11}
  MaxBack = 1
INVARIANTS
  CoordinatesSurvive
  AgeIsElapsed
