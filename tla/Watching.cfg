\* Two requests on one Lens at the same time
SPECIFICATION Spec
CONSTANTS
  Web = {w1, w2}
  Workers = {}
  Defs = {"ask", "watch"}
  Requests = {"ask", "work", "keep", "confirm", "edit", "pause", "resume"}
  Crashes = FALSE
  MaxVersion = 2
  MaxQueue = 0
SYMMETRY Symmetry
INVARIANTS TypeOK AssignmentMatchesLens RoutineMatchesJob OwnsItsVersion
PROPERTY SecondRoutineRaces
